-------------------------- MODULE Connection_proofs --------------------------
(***************************************************************************)
(* Proofs about the two layers of a connection: the buffers of its streams *)
(* (TcpStreamBuf) and the framing of messages (HttpConnection).            *)
(*                                                                         *)
(* The streams, for any size of the areas and any number of bytes.  A piece*)
(* that moves from one place to the next is cut off one sequence and       *)
(* appended to the other, so the concatenation of all places stays what was*)
(* written.  Emptying the put area is safe because sync has come to its    *)
(* end, starting to send it because nothing of it was sent: a stream in    *)
(* which a sync has failed never starts another.                           *)
(*                                                                         *)
(* The messages, for any number of calls and bodies of any length.  A      *)
(* client that has not failed waits for the answer to one request before it*)
(* sends the next, so either wire carries at most one message, and the     *)
(* invariant says how much of it its receiver has read, and what it has    *)
(* made of that.                                                           *)
(***************************************************************************)
EXTENDS TcpStreamBuf, HttpConnection, SequenceTheorems, TLAPS

-----------------------------------------------------------------------------
(* The streams *)

\* The part of the put area that is not on the wire.
Rest == SubSeq(put, sent + 1, Len(put))

\* Nothing of the put area is on the wire when sync starts.
NothingSentYet == sync_pc = "idle" /\ ~bad => sent = 0

BufInv == BufTypeOK /\ NothingSentYet /\ NothingLostOrRepeated /\ FlushedIsSent

-----------------------------------------------------------------------------
(* Sequences *)

\* A sequence is its first element and the rest.
LEMMA HeadAndTail ==
  ASSUME NEW S, NEW s \in Seq(S), s # <<>>
  PROVE  /\ <<Head(s)>> \o Tail(s) = s
         /\ Head(s) \in S
         /\ <<Head(s)>> \in Seq(S)
         /\ Tail(s) \in Seq(S)
         /\ Len(s) = Len(Tail(s)) + 1
<1>1. Len(s) \in Nat \ {0}
  BY EmptySeq, LenProperties
<1>2. SubSeq(s, 1, Len(s)) = <<s[1]>> \o SubSeq(s, 1 + 1, Len(s))
  BY <1>1, SubSeqRecursiveFirst
<1>3. Head(s) = s[1] /\ SubSeq(s, 1, Len(s)) = s /\ Tail(s) = SubSeq(s, 2, Len(s))
  BY SubSeqFull, TailIsSubSeq
<1>4. Head(s) \in S /\ Tail(s) \in Seq(S) /\ Len(Tail(s)) = Len(s) - 1
  BY HeadTailProperties
<1>5. <<Head(s)>> \o Tail(s) = s
  BY <1>2, <1>3
<1>6. <<Head(s)>> \in Seq(S)
  BY <1>4
<1> QED
  BY <1>1, <1>4, <1>5, <1>6

\* A sequence cut in two.
LEMMA Cut ==
  ASSUME NEW S, NEW s \in Seq(S), NEW from \in 0..Len(s), NEW to \in from..Len(s)
  PROVE  /\ SubSeq(s, from + 1, to) \o SubSeq(s, to + 1, Len(s)) = SubSeq(s, from + 1, Len(s))
         /\ SubSeq(s, from + 1, to) \in Seq(S)
         /\ SubSeq(s, to + 1, Len(s)) \in Seq(S)
         /\ Len(SubSeq(s, from + 1, to)) = to - from
         /\ Len(SubSeq(s, to + 1, Len(s))) = Len(s) - to
<1>1. Len(s) \in Nat
  BY LenProperties
<1>2. SubSeq(s, from + 1, to) \o SubSeq(s, to + 1, Len(s)) = SubSeq(s, from + 1, Len(s))
  <2>1. /\ from + 1 \in 1..(Len(s) + 1)
        /\ to \in ((from + 1) - 1)..Len(s)
        /\ Len(s) \in to..Len(s)
    BY <1>1
  <2> QED
    BY <2>1, ConcatAdjacentSubSeq
<1>3. /\ from + 1 \in Int /\ to \in Int /\ to + 1 \in Int /\ Len(s) \in Int
      /\ \A i \in (from + 1)..to : s[i] \in S
      /\ \A i \in (to + 1)..Len(s) : s[i] \in S
  BY <1>1
<1>4. /\ SubSeq(s, from + 1, to) \in Seq(S)
      /\ Len(SubSeq(s, from + 1, to)) =
           IF from + 1 <= to THEN to - (from + 1) + 1 ELSE 0
  BY <1>3, SubSeqProperties
<1>5. /\ SubSeq(s, to + 1, Len(s)) \in Seq(S)
      /\ Len(SubSeq(s, to + 1, Len(s))) =
           IF to + 1 <= Len(s) THEN Len(s) - (to + 1) + 1 ELSE 0
  BY <1>3, SubSeqProperties
<1>6. Len(SubSeq(s, from + 1, to)) = to - from
  BY <1>1, <1>4
<1>7. Len(SubSeq(s, to + 1, Len(s))) = Len(s) - to
  BY <1>1, <1>5
<1> QED
  BY <1>2, <1>4, <1>5, <1>6, <1>7

\* Concatenation of sequences of bytes.
LEMMA Concat ==
  \A s, t \in Seq(Byte) : s \o t \in Seq(Byte) /\ Len(s \o t) = Len(s) + Len(t)
<1> TAKE s, t \in Seq(Byte)
<1> QED
  BY ConcatProperties

\* Concatenation is associative.
LEMMA Assoc ==
  \A s, t, u \in Seq(Byte) : (s \o t) \o u = s \o (t \o u)
<1> TAKE s, t, u \in Seq(Byte)
<1> QED
  BY ConcatAssociative

\* What is still to be sent of the put area is a sequence of bytes.
LEMMA RestType == BufTypeOK => Rest \in Seq(Byte)
<1> SUFFICES ASSUME BufTypeOK PROVE Rest \in Seq(Byte)
  OBVIOUS
<1>1. put \in Seq(Byte) /\ sent \in 0..Len(put) /\ Len(put) \in Nat
  BY DEF BufTypeOK
<1>2. sent \in sent..Len(put)
  BY <1>1
<1> QED
  BY <1>1, <1>2, Cut DEF Rest

-----------------------------------------------------------------------------

\* The invariant holds at the start.
LEMMA InitBufInv == BufInit => BufInv
<1> SUFFICES ASSUME BufInit PROVE BufInv
  OBVIOUS
<1>1. <<>> \in Seq(Byte) /\ Len(<<>>) = 0
  BY EmptySeq
<1>2. BufTypeOK
  <2>1. /\ put \in Seq(Byte) /\ net \in Seq(Byte) /\ get \in Seq(Byte)
        /\ written \in Seq(Byte) /\ got \in Seq(Byte)
        /\ Len(put) = 0 /\ Len(get) = 0 /\ Len(written) = 0
    BY <1>1 DEF BufInit
  <2>2. sent = 0 /\ flushed = 0 /\ bad = FALSE /\ ended = FALSE
    BY DEF BufInit
  <2>3. sync_pc = "idle" /\ pending = None /\ sync_pc # "overflow"
    BY DEF BufInit
  <2>4. sync_pc = "overflow" <=> pending # None
    BY <2>3
  <2>5. Len(put) <= buf_size_ /\ Len(get) <= buf_size_
    BY <2>1, StreamAssumption
  <2>6. sent \in 0..Len(put) /\ flushed \in 0..Len(written)
    BY <2>1, <2>2
  <2>7. sync_pc \in {"idle", "flush", "overflow"} /\ pending \in Byte \cup {None}
    BY <2>3
  <2> QED
    BY <2>1, <2>2, <2>4, <2>5, <2>6, <2>7, Zenon DEF BufTypeOK
<1>3. NothingSentYet
  BY DEF BufInit, NothingSentYet
<1>4. NothingLostOrRepeated
  <2>1. SubSeq(<<>>, 0 + 1, Len(<<>>)) = <<>>
    BY <1>1, SubSeqEmpty
  <2>2. <<>> \o <<>> = <<>>
    BY <1>1, ConcatEmptySeq
  <2> QED
    BY <2>1, <2>2 DEF BufInit, NothingLostOrRepeated
<1>5. FlushedIsSent
  BY <1>1 DEF BufInit, FlushedIsSent
<1> QED
  BY <1>2, <1>3, <1>4, <1>5 DEF BufInv

\* What the theorem says of lengths follows from what it says of sequences.
LEMMA AllSent ==
  ASSUME BufTypeOK, NothingLostOrRepeated, sent = Len(put)
  PROVE  /\ got \o get \o net = written
         /\ Len(written) = Len(got) + Len(get) + Len(net)
<1>1. /\ put \in Seq(Byte) /\ got \in Seq(Byte) /\ get \in Seq(Byte)
      /\ net \in Seq(Byte) /\ Len(put) \in Nat
  BY DEF BufTypeOK
<1>2. SubSeq(put, sent + 1, Len(put)) = <<>>
  <2>1. sent + 1 \in Int /\ Len(put) \in Int /\ Len(put) < sent + 1
    BY <1>1
  <2> QED
    BY <2>1, SubSeqEmpty
<1>3. /\ got \o get \in Seq(Byte) /\ Len(got \o get) = Len(got) + Len(get)
  BY <1>1, Concat
<1>4. /\ got \o get \o net \in Seq(Byte)
      /\ Len(got \o get \o net) = Len(got \o get) + Len(net)
  BY <1>1, <1>3, Concat
<1>5. got \o get \o net = written
  BY <1>2, <1>4, ConcatEmptySeq DEF NothingLostOrRepeated
<1> QED
  BY <1>3, <1>4, <1>5

-----------------------------------------------------------------------------
(* One lemma for each action that moves bytes *)

\* A byte that is written goes to the end of the put area.
LEMMA WriteStep ==
  ASSUME BufInv, NEW c \in Byte, Write(c)
  PROVE  BufInv'
<1>1. /\ put \in Seq(Byte) /\ written \in Seq(Byte) /\ net \in Seq(Byte)
      /\ got \in Seq(Byte) /\ get \in Seq(Byte)
      /\ sent = 0 /\ Len(put) \in Nat /\ Len(written) \in Nat
      /\ flushed \in 0..Len(written)
  BY DEF BufInv, BufTypeOK, NothingSentYet, Write
<1>2. /\ put' = put \o <<c>> /\ put' \in Seq(Byte) /\ Len(put') = Len(put) + 1
      /\ written' = written \o <<c>> /\ written' \in Seq(Byte)
      /\ Len(written') = Len(written) + 1
      /\ <<c>> \in Seq(Byte)
  BY <1>1, AppendIsConcat, AppendProperties DEF Write
<1>3. /\ UNCHANGED <<sync_pc, sent, pending, bad, flushed, net, get, ended, got>>
      /\ Len(put) < buf_size_
  BY DEF Write, readerVars
<1>4. BufTypeOK'
  BY <1>1, <1>2, <1>3, StreamAssumption DEF BufInv, BufTypeOK
<1>5. NothingSentYet' /\ FlushedIsSent'
  BY <1>3 DEF BufInv, NothingSentYet, FlushedIsSent
<1>6. NothingLostOrRepeated'
  <2>1. SubSeq(put, 1, Len(put)) = put /\ SubSeq(put', 1, Len(put')) = put'
    BY <1>1, <1>2, SubSeqFull
  <2> DEFINE front == got \o get \o net
             last  == <<c>>
  <2>2. front \in Seq(Byte) /\ last \in Seq(Byte)
    BY <1>1, <1>2, Concat
  <2>3. front \o put = written
    <3>1. sent + 1 = 1
      BY <1>1
    <3> QED
      BY <2>1, <3>1 DEF BufInv, NothingLostOrRepeated
  <2>4. put' = put \o last /\ written' = written \o last
    BY <1>2
  <2> HIDE DEF front, last
  <2>5. (front \o put) \o last = front \o (put \o last)
    <3>1. put \in Seq(Byte)
      BY <1>1
    <3> QED
      BY <2>2, <3>1, Assoc, Zenon
  <2>6. front \o put' = written'
    BY <2>4, <2>3, <2>5
  <2>7. SubSeq(put', sent' + 1, Len(put')) = put'
    <3>1. sent' + 1 = 1
      BY <1>1, <1>3
    <3> QED
      BY <2>1, <3>1
  <2> QED
    BY <1>3, <2>6, <2>7 DEF NothingLostOrRepeated, front
<1> QED
  BY <1>4, <1>5, <1>6 DEF BufInv

\* A send moves the first bytes of what is left of the put area to the wire.
LEMMA PSendStep ==
  ASSUME BufInv, NEW ret \in 1..buf_size_, PSend(ret)
  PROVE  BufInv'
<1> DEFINE piece == SubSeq(put, sent + 1, sent + ret)
           rest  == SubSeq(put, (sent + ret) + 1, Len(put))
<1>1. /\ put \in Seq(Byte) /\ written \in Seq(Byte) /\ net \in Seq(Byte)
      /\ got \in Seq(Byte) /\ get \in Seq(Byte)
      /\ sent \in 0..Len(put) /\ Len(put) \in Nat
      /\ ret \in 1..(Len(put) - sent)
      /\ sent + ret \in sent..Len(put)
      /\ sync_pc # "idle"
  BY DEF BufInv, BufTypeOK, PSend
<1>2. /\ net' = net \o piece
      /\ sent' = sent + ret
      /\ UNCHANGED <<put, sync_pc, pending, bad, written, flushed, get, ended, got>>
  BY DEF PSend, readerVars
<1>3. /\ piece \o rest = SubSeq(put, sent + 1, Len(put))
      /\ piece \in Seq(Byte) /\ rest \in Seq(Byte)
      /\ Len(piece) = (sent + ret) - sent
  BY <1>1, Cut
<1> HIDE DEF piece, rest
<1>4. net' \in Seq(Byte) /\ Len(net') = Len(net) + Len(piece) /\ Len(net) \in Nat
  <2>1. net \o piece \in Seq(Byte) /\ Len(net \o piece) = Len(net) + Len(piece)
    BY <1>1, <1>3, Concat
  <2>2. Len(net) \in Nat
    BY <1>1
  <2> QED
    BY <1>2, <2>1, <2>2
<1>5. BufTypeOK'
  BY <1>1, <1>2, <1>4 DEF BufInv, BufTypeOK
<1>6. NothingSentYet' /\ FlushedIsSent'
  <2>1. FlushedIsSent'
    <3>1. Len(got) \in Nat /\ Len(get) \in Nat /\ flushed \in Nat /\ Len(piece) \in Nat
      BY <1>1, <1>3 DEF BufInv, BufTypeOK
    <3> QED
      BY <1>2, <1>4, <3>1 DEF BufInv, FlushedIsSent
  <2> QED
    BY <1>1, <1>2, <2>1 DEF NothingSentYet
<1>7. NothingLostOrRepeated'
  <2> DEFINE front == got \o get
  <2>1. front \in Seq(Byte) /\ front \o net \in Seq(Byte)
    BY <1>1, Concat
  <2>2. (front \o net) \o (piece \o rest) = written
    BY <1>3 DEF BufInv, NothingLostOrRepeated
  <2> HIDE DEF front
  <2>3. (front \o net) \o piece = front \o (net \o piece)
    <3>1. net \in Seq(Byte) /\ piece \in Seq(Byte)
      BY <1>1, <1>3
    <3> QED
      BY <2>1, <3>1, Assoc, Zenon
  <2>4. ((front \o net) \o piece) \o rest = (front \o net) \o (piece \o rest)
    BY <1>3, <2>1, Assoc
  <2>5. (front \o net') \o rest = written'
    BY <1>2, <2>2, <2>3, <2>4
  <2> QED
    BY <1>2, <2>5 DEF NothingLostOrRepeated, front, rest
<1> QED
  BY <1>5, <1>6, <1>7 DEF BufInv

\* A sync that sent everything empties the put area.
LEMMA SyncDoneStep ==
  ASSUME BufInv, SyncDone
  PROVE  BufInv'
<1>1. /\ put \in Seq(Byte) /\ written \in Seq(Byte) /\ net \in Seq(Byte)
      /\ got \in Seq(Byte) /\ get \in Seq(Byte) /\ Len(written) \in Nat
      /\ sent = Len(put) /\ Len(put) \in Nat /\ flushed \in 0..Len(written)
      /\ sync_pc \in {"flush", "overflow"}
      /\ sync_pc = "overflow" => pending \in Byte
  BY DEF BufInv, BufTypeOK, SyncDone
<1>2. /\ sync_pc' = "idle" /\ sent' = 0 /\ pending' = None
      /\ UNCHANGED <<bad, net, get, ended, got>>
  BY DEF SyncDone, readerVars
<1>3. /\ got \o get \o net = written
      /\ Len(written) = Len(got) + Len(get) + Len(net)
  BY <1>1, AllSent DEF BufInv
<1>4. NothingSentYet'
  BY <1>2 DEF NothingSentYet
<1>5. CASE sync_pc = "overflow"
  <2>1. put' = <<pending>> /\ written' = Append(written, pending) /\ flushed' = flushed
    BY <1>5 DEF SyncDone
  <2>2. /\ <<pending>> \in Seq(Byte) /\ Len(<<pending>>) = 1
        /\ written' = written \o <<pending>>
        /\ written' \in Seq(Byte) /\ Len(written') = Len(written) + 1
    BY <1>1, <1>5, <2>1, AppendIsConcat, AppendProperties
  <2>3. BufTypeOK'
    BY <1>1, <1>2, <2>1, <2>2, StreamAssumption DEF BufInv, BufTypeOK
  <2>4. FlushedIsSent'
    BY <1>2, <2>1 DEF BufInv, FlushedIsSent
  <2>5. NothingLostOrRepeated'
    <3>1. SubSeq(<<pending>>, 1, Len(<<pending>>)) = <<pending>>
      BY <2>2, SubSeqFull
    <3> QED
      BY <1>2, <1>3, <2>1, <2>2, <3>1 DEF NothingLostOrRepeated
  <2> QED
    BY <1>4, <2>3, <2>4, <2>5 DEF BufInv
<1>6. CASE sync_pc = "flush"
  <2>1. put' = <<>> /\ written' = written /\ flushed' = Len(written)
    BY <1>6 DEF SyncDone
  <2>2. <<>> \in Seq(Byte) /\ Len(<<>>) = 0
    BY EmptySeq
  <2>3. BufTypeOK'
    BY <1>1, <1>2, <2>1, <2>2, StreamAssumption DEF BufInv, BufTypeOK
  <2>4. FlushedIsSent'
    BY <1>1, <1>2, <1>3, <2>1 DEF FlushedIsSent
  <2>5. NothingLostOrRepeated'
    <3>1. SubSeq(<<>>, 0 + 1, Len(<<>>)) = <<>>
      BY <2>2, SubSeqEmpty
    <3>2. (got \o get \o net) \o <<>> = got \o get \o net
      BY <1>1, <1>3, ConcatEmptySeq
    <3> QED
      BY <1>2, <1>3, <2>1, <3>1, <3>2 DEF NothingLostOrRepeated
  <2> QED
    BY <1>4, <2>3, <2>4, <2>5 DEF BufInv
<1> QED
  BY <1>1, <1>5, <1>6

\* A byte that is read comes from the head of the get area.
LEMMA ReadStep ==
  ASSUME BufInv, ReadByte
  PROVE  BufInv'
<1> DEFINE h == Head(get)
           t == Tail(get)
<1>1. /\ written \in Seq(Byte) /\ net \in Seq(Byte) /\ got \in Seq(Byte)
      /\ get \in Seq(Byte) /\ get # <<>>
  BY DEF BufInv, BufTypeOK, ReadByte
<1>2. /\ got' = Append(got, h) /\ get' = t
      /\ UNCHANGED <<put, sync_pc, sent, pending, bad, written, flushed, net, ended>>
  BY DEF ReadByte, writerVars
<1>3. /\ <<h>> \o t = get /\ h \in Byte /\ <<h>> \in Seq(Byte) /\ t \in Seq(Byte)
      /\ Len(get) = Len(t) + 1
  BY <1>1, HeadAndTail
<1> HIDE DEF h, t
<1>4. /\ got' = got \o <<h>> /\ got' \in Seq(Byte) /\ Len(got') = Len(got) + 1
  BY <1>1, <1>2, <1>3, AppendIsConcat, AppendProperties
<1>5. Len(t) \in Nat /\ Len(got) \in Nat /\ Len(net) \in Nat
  BY <1>1, <1>3
<1>6. BufTypeOK'
  BY <1>2, <1>3, <1>4, <1>5, StreamAssumption DEF BufInv, BufTypeOK
<1>7. NothingSentYet'
  BY <1>2 DEF BufInv, NothingSentYet
<1>8. FlushedIsSent'
  <2>1. Len(got') + Len(get') + Len(net') = Len(got) + Len(get) + Len(net)
    BY <1>2, <1>3, <1>4, <1>5
  <2> QED
    BY <1>2, <2>1 DEF BufInv, FlushedIsSent
<1>9. NothingLostOrRepeated'
  <2>1. (got \o <<h>>) \o t = got \o get
    BY <1>1, <1>3, Assoc
  <2>2. got' \o get' = got \o get
    BY <1>2, <1>4, <2>1
  <2> QED
    BY <1>2, <2>2 DEF BufInv, NothingLostOrRepeated
<1> QED
  BY <1>6, <1>7, <1>8, <1>9 DEF BufInv

\* A recv moves the first bytes of the wire to the get area, which was empty.
LEMMA UnderflowStep ==
  ASSUME BufInv, NEW ret \in 1..buf_size_, Underflow(ret)
  PROVE  BufInv'
<1> DEFINE piece == SubSeq(net, 0 + 1, ret)
           rest  == SubSeq(net, ret + 1, Len(net))
<1>1. /\ written \in Seq(Byte) /\ net \in Seq(Byte) /\ got \in Seq(Byte)
      /\ get = <<>> /\ Len(net) \in Nat /\ ret \in 0..Len(net) /\ ret <= buf_size_
  BY DEF BufInv, BufTypeOK, Underflow
<1>2. /\ get' = piece /\ net' = rest
      /\ UNCHANGED <<put, sync_pc, sent, pending, bad, written, flushed, ended, got>>
  BY DEF Underflow, writerVars
<1>3. /\ piece \o rest = net
      /\ piece \in Seq(Byte) /\ rest \in Seq(Byte)
      /\ Len(piece) = ret /\ Len(rest) = Len(net) - ret
  <2>1. 0 \in 0..Len(net)
    BY <1>1
  <2>2. /\ piece \o rest = SubSeq(net, 0 + 1, Len(net))
        /\ piece \in Seq(Byte) /\ rest \in Seq(Byte)
        /\ Len(piece) = ret - 0 /\ Len(rest) = Len(net) - ret
    BY <1>1, <2>1, Cut
  <2>3. SubSeq(net, 0 + 1, Len(net)) = net
    <3>1. SubSeq(net, 1, Len(net)) = net /\ 0 + 1 = 1
      BY <1>1, SubSeqFull
    <3> QED
      BY <3>1
  <2>4. ret - 0 = ret
    BY <1>1
  <2> HIDE DEF piece, rest
  <2> QED
    BY <2>2, <2>3, <2>4
<1> HIDE DEF piece, rest
<1>4. BufTypeOK'
  BY <1>1, <1>2, <1>3 DEF BufInv, BufTypeOK
<1>5. NothingSentYet'
  BY <1>2 DEF BufInv, NothingSentYet
<1>6. FlushedIsSent'
  <2>1. Len(get') + Len(net') = Len(get) + Len(net) /\ Len(got) \in Nat
    BY <1>1, <1>2, <1>3
  <2>2. Len(get) \in Nat /\ Len(get') \in Nat /\ Len(net') \in Nat
    BY <1>1, <1>2, <1>3
  <2> QED
    BY <1>1, <1>2, <2>1, <2>2 DEF BufInv, FlushedIsSent
<1>7. NothingLostOrRepeated'
  <2>1. (got \o piece) \o rest = got \o net
    BY <1>1, <1>3, Assoc
  <2>2. got \o get = got
    BY <1>1, ConcatEmptySeq
  <2>3. got' \o get' \o net' = got \o get \o net
    BY <1>2, <2>1, <2>2
  <2> QED
    BY <1>2, <2>3 DEF BufInv, NothingLostOrRepeated
<1> QED
  BY <1>4, <1>5, <1>6, <1>7 DEF BufInv

\* The other actions move nothing; Overflow and Flush reset sent, which is 0.
LEMMA OtherStep ==
  ASSUME BufInv,
         \/ \E c \in Byte : Overflow(c)
         \/ Flush
         \/ PSendFails
         \/ UnderflowFails
         \/ UNCHANGED bufVars
  PROVE  BufInv'
<1>1. /\ UNCHANGED <<put, written, flushed, net, get, got>>
      /\ sent' = sent
  BY DEF BufInv, NothingSentYet, Overflow, Flush, PSendFails, UnderflowFails, bufVars,
         writerVars, readerVars
<1>2. BufTypeOK'
  BY <1>1, StreamAssumption
  DEF BufInv, BufTypeOK, Overflow, Flush, PSendFails, UnderflowFails, bufVars, writerVars,
      readerVars
<1>3. NothingSentYet'
  BY <1>1 DEF BufInv, NothingSentYet, Overflow, Flush, PSendFails, UnderflowFails, bufVars,
              writerVars, readerVars
<1>4. NothingLostOrRepeated' /\ FlushedIsSent'
  BY <1>1 DEF BufInv, NothingLostOrRepeated, FlushedIsSent
<1> QED
  BY <1>2, <1>3, <1>4 DEF BufInv

\* Every step keeps the invariant.
LEMMA BufInvStep == BufInv /\ [BufNext]_bufVars => BufInv'
<1> SUFFICES ASSUME BufInv, [BufNext]_bufVars PROVE BufInv'
  OBVIOUS
<1>1. ASSUME NEW c \in Byte, Write(c) PROVE BufInv'
  BY <1>1, WriteStep
<1>2. ASSUME NEW ret \in 1..buf_size_, PSend(ret) PROVE BufInv'
  BY <1>2, PSendStep
<1>3. ASSUME NEW ret \in 1..buf_size_, Underflow(ret) PROVE BufInv'
  BY <1>3, UnderflowStep
<1> QED
  BY <1>1, <1>2, <1>3, SyncDoneStep, ReadStep, OtherStep DEF BufNext

-----------------------------------------------------------------------------

\* The conjunction is an inductive invariant of the two streams.
THEOREM BufInvariance == BufSpec => []BufInv
  BY InitBufInv, BufInvStep, PTL DEF BufSpec

\* Type correctness; in particular neither area grows beyond its size.
THEOREM BufTypeCorrect == BufSpec => []BufTypeOK
<1>1. BufInv => BufTypeOK
  BY DEF BufInv
<1> QED
  BY <1>1, BufInvariance, PTL

\* The peer's program reads the bytes that were written, in their order, none
\* twice and none left out, however the calls of send and recv cut them.
THEOREM StreamIsFaithful == BufSpec => []NothingLostOrRepeated
<1>1. BufInv => NothingLostOrRepeated
  BY DEF BufInv
<1> QED
  BY <1>1, BufInvariance, PTL

\* A flush that reports success has sent everything written before it.
THEOREM FlushIsHonest == BufSpec => []FlushedIsSent
<1>1. BufInv => FlushedIsSent
  BY DEF BufInv
<1> QED
  BY <1>1, BufInvariance, PTL

-----------------------------------------------------------------------------
(* The framing of messages *)

MessageType == [start : Seq(TokenType), fields : SUBSET TokenType, content : Seq(TokenType)]

Result == [ok : {FALSE}] \cup [ok : {TRUE}, content : Seq(TokenType)]

ConnectionTypes ==
  /\ TypeOK
  /\ pc \in [Ends -> Receiving \cup {"idle", "have", "closed"}]
  /\ msg \in [Ends -> MessageType]
  /\ results \in Seq(Result)
  /\ handled \in Seq(MessageType)
  /\ answers \in Seq(Seq(TokenType))

\* What a receiver relies on in the message T: the header ends at h, and says how
\* to find the end of the body that follows.
Frame(T, h, body, chunked) ==
  /\ T \in Seq(TokenType) /\ h \in 2..Len(T)
  /\ body \in Seq(TokenType) /\ Len(body) \in 0..MaxBody
  /\ T[1].kind = "start" /\ T[h].kind = "blank"
  /\ \A i \in 2..(h - 1) :
        /\ T[i].kind \in {"keep_alive", "length", "chunked", "other"}
        /\ T[i].kind = "length" => T[i].arg = Len(body)
  /\ chunked <=> \E i \in 2..(h - 1) : T[i].kind = "chunked"
  /\ ~chunked =>
        /\ Len(T) = h + Len(body)
        /\ \A i \in 1..Len(body) : T[h + i] = body[i]
        /\ body # <<>> => \E i \in 2..(h - 1) : T[i].kind = "length"
  /\ chunked =>
        /\ body # <<>>
        /\ Len(T) = h + Len(body) + 4
        /\ T[h + 1].kind = "size" /\ T[h + 1].arg = Len(body)
        /\ \A i \in 1..Len(body) : T[h + 1 + i] = body[i]
        /\ T[h + Len(body) + 2].kind = "blank"
        /\ T[h + Len(body) + 3].kind = "size" /\ T[h + Len(body) + 3].arg = 0
        /\ T[h + Len(body) + 4].kind = "blank"

\* What is on its way to an end is what follows the first c tokens of T; all of
\* it, or a part from its beginning.
Reads(e, T, c, all) ==
  /\ c \in 0..Len(T)
  /\ c + Len(wire[e]) <= Len(T)
  /\ \A i \in 1..Len(wire[e]) : wire[e][i] = T[c + i]
  /\ all => c + Len(wire[e]) = Len(T)

\* What the end has made of the first c tokens of T.
Parsed(e, T, h, body, chunked, c) ==
  /\ pc[e] \in Receiving \cup {"have"}
  /\ IF pc[e] = "start" THEN c = 0 /\ msg[e] = NewMessage ELSE msg[e].start = <<T[1]>>
  /\ pc[e] = "headers" => c \in 1..(h - 1) /\ msg[e].fields = {T[i] : i \in 2..c}
  /\ pc[e] \notin {"start", "headers"} => msg[e].fields = {T[i] : i \in 2..(h - 1)}
  /\ pc[e] = "headers" => msg[e].content = <<>>
  /\ pc[e] = "body" => ~chunked /\ c = h /\ left[e] = Len(body) /\ msg[e].content = <<>>
  /\ pc[e] = "size" =>
        /\ chunked
        /\ \/ c = h /\ msg[e].content = <<>>
           \/ c = h + Len(body) + 2 /\ msg[e].content = body
  /\ pc[e] = "chunk" =>
        /\ chunked
        /\ \/ c = h + 1 /\ left[e] = Len(body) /\ msg[e].content = <<>>
           \/ c = h + 1 + Len(body) /\ left[e] = 0 /\ msg[e].content = body
  /\ pc[e] = "until_close" => c = Len(T) /\ body = <<>> /\ msg[e].content = <<>>
  /\ pc[e] = "have" => msg[e].content = body /\ (chunked \/ c = Len(T))

\* The end has read a part of the message T.
InMessage(e, T, body, chunked, all) ==
  \E h \in 2..Len(T), c \in 0..Len(T) :
    Frame(T, h, body, chunked) /\ Reads(e, T, c, all) /\ Parsed(e, T, h, body, chunked, c)

\* The request the server receives next, or handles, is the one after those it has
\* handled; until its end no other can follow, because a client that has not
\* failed waits for the answer.
ServerReads ==
  LET n == Len(handled) + 1 IN
  pc.server # "closed" =>
    \/ /\ pc.server = "start" /\ msg.server = NewMessage /\ wire.server = <<>>
       /\ ~failed.client => Len(calls) = Len(handled)
    \/ /\ n <= Len(calls)
       /\ ~failed.client => Len(calls) = n
       /\ InMessage("server", Request(n, calls[n]), Body("client", n, calls[n].size),
                    calls[n].chunked, ~failed.client)

\* A client that has not failed is between two calls, waits for an answer, or
\* reads the answer to its call.
ClientReads ==
  LET n == Len(calls) IN
  ~failed.client =>
    \/ pc.client = "idle" /\ wire.client = <<>> /\ Len(handled) = n
    \/ /\ pc.client = "start" /\ msg.client = NewMessage /\ wire.client = <<>>
       /\ Len(handled) = n - 1
    \/ /\ n > 0 /\ Len(handled) = n
       /\ \E size \in 0..MaxBody, keep_alive \in BOOLEAN :
            /\ answers[n] = Body("server", n, size)
            /\ InMessage("client", Response(n, size, keep_alive), answers[n], FALSE,
                         pc.server # "closed")

\* The calls of the client and what it has of the last one.
CallsInv ==
  /\ Len(results) = IF pc.client = "idle" THEN Len(calls) ELSE Len(calls) - 1
  /\ Len(handled) <= Len(calls)
  /\ pc.client \in Receiving => ~failed.client
  /\ pc.client = "have" =>
        Len(calls) \in 1..Len(answers) /\ msg.client.content = answers[Len(calls)]

HInv == /\ ConnectionTypes /\ CallsInv /\ ServerReads /\ ClientReads
        /\ RequestsIntact /\ AnswersMatch

-----------------------------------------------------------------------------
(* Sequences of tokens *)

\* The elements of a concatenation.
LEMMA Joined ==
  ASSUME NEW S, NEW s \in Seq(S), NEW t \in Seq(S)
  PROVE  /\ s \o t \in Seq(S)
         /\ Len(s \o t) = Len(s) + Len(t)
         /\ Len(s) \in Nat /\ Len(t) \in Nat
         /\ \A i \in 1..Len(s) : (s \o t)[i] = s[i]
         /\ \A i \in 1..Len(t) : (s \o t)[Len(s) + i] = t[i]
<1>1. /\ s \o t \in Seq(S) /\ Len(s \o t) = Len(s) + Len(t)
      /\ \A i \in 1..(Len(s) + Len(t)) : (s \o t)[i] = IF i <= Len(s) THEN s[i] ELSE t[i - Len(s)]
  BY ConcatProperties
<1>2. Len(s) \in Nat /\ Len(t) \in Nat
  BY LenProperties
<1> DEFINE a == Len(s)
           b == Len(t)
<1>3. \A i \in 1..b : a + i \in 1..(a + b) /\ ~(a + i <= a) /\ (a + i) - a = i
  <2> HIDE DEF a, b
  <2> QED
    BY <1>2 DEF a, b
<1>4. \A i \in 1..a : i \in 1..(a + b) /\ i <= a
  BY <1>2
<1> QED
  BY <1>1, <1>2, <1>3, <1>4

\* The part of a sequence before and after a place.
LEMMA Parts ==
  ASSUME NEW S, NEW s \in Seq(S), NEW k \in 0..Len(s)
  PROVE  /\ SubSeq(s, 1, k) \in Seq(S) /\ Len(SubSeq(s, 1, k)) = k
         /\ \A i \in 1..k : SubSeq(s, 1, k)[i] = s[i]
         /\ SubSeq(s, k + 1, Len(s)) \in Seq(S)
         /\ Len(SubSeq(s, k + 1, Len(s))) = Len(s) - k
         /\ \A i \in 1..(Len(s) - k) : SubSeq(s, k + 1, Len(s))[i] = s[k + i]
         /\ Len(s) \in Nat
<1>1. Len(s) \in Nat
  BY LenProperties
<1>2. /\ SubSeq(s, 1, k) \in Seq(S) /\ Len(SubSeq(s, 1, k)) = k
      /\ \A i \in 1..k : SubSeq(s, 1, k)[i] = s[i]
  BY <1>1
<1> DEFINE r == SubSeq(s, k + 1, Len(s))
<1>3. r \in Seq(S) /\ Len(r) = Len(s) - k
  BY <1>1
<1>4. \A i \in 1..(Len(s) - k) : r[i] = s[k + i]
  BY <1>1
<1> QED
  BY <1>1, <1>2, <1>3, <1>4

\* Two sequences of the same elements.
LEMMA SameElements ==
  ASSUME NEW S, NEW s \in Seq(S), NEW t \in Seq(S), Len(s) = Len(t),
         \A i \in 1..Len(s) : s[i] = t[i]
  PROVE  s = t
BY SeqEqual

\* Taking the first element off.
LEMMA TookOne ==
  ASSUME NEW S, NEW s \in Seq(S), s # <<>>
  PROVE  /\ Head(s) = s[1] /\ Head(s) \in S
         /\ Len(s) \in Nat \ {0}
         /\ Tail(s) \in Seq(S) /\ Len(Tail(s)) = Len(s) - 1
         /\ \A i \in 1..(Len(s) - 1) : Tail(s)[i] = s[i + 1]
<1>1. Len(s) \in Nat \ {0}
  BY EmptySeq, LenProperties
<1>2. Head(s) \in S /\ Tail(s) \in Seq(S) /\ Len(Tail(s)) = Len(s) - 1 /\ Head(s) = s[1]
      /\ \A i \in 1..(Len(s) - 1) : Tail(s)[i] = s[i + 1]
  BY <1>1
<1> QED
  BY <1>1, <1>2

-----------------------------------------------------------------------------
(* The messages *)

\* A message begins with the token first, and its fields are the set F.
Begins(s, first, F) ==
  /\ s \in Seq(TokenType) /\ Len(s) >= 1 /\ s[1] = first
  /\ {s[i] : i \in 2..Len(s)} = F

\* The start line alone.
LEMMA BeginsWithStart ==
  ASSUME NEW t \in TokenType
  PROVE  Begins(<<t>>, t, {})
BY DEF Begins

\* One more field.
LEMMA BeginsOption ==
  ASSUME NEW s, NEW first, NEW F, Begins(s, first, F), NEW b \in BOOLEAN, NEW t \in TokenType
  PROVE  Begins(s \o Option(b, t), first, F \cup (IF b THEN {t} ELSE {}))
<1>1. CASE b
  <2>1. Option(b, t) = <<t>> /\ <<t>> \in Seq(TokenType) /\ Len(<<t>>) = 1 /\ <<t>>[1] = t
    BY <1>1 DEF Option
  <2> DEFINE u == s \o <<t>>
             n == Len(s)
  <2>2. /\ u \in Seq(TokenType) /\ Len(u) = n + 1 /\ n \in Nat /\ n >= 1
        /\ \A i \in 1..n : u[i] = s[i]
        /\ u[n + 1] = t
    <3>1. s \in Seq(TokenType) /\ Len(s) >= 1
      BY DEF Begins
    <3>2. /\ u \in Seq(TokenType) /\ Len(u) = Len(s) + Len(<<t>>)
          /\ Len(s) \in Nat
          /\ \A i \in 1..Len(s) : u[i] = s[i]
          /\ \A i \in 1..Len(<<t>>) : u[Len(s) + i] = <<t>>[i]
      BY <2>1, <3>1, Joined
    <3> QED
      BY <2>1, <3>1, <3>2
  <2> HIDE DEF u, n
  <2>3. {u[i] : i \in 2..Len(u)} = {s[i] : i \in 2..n} \cup {t}
    <3>1. \A i \in 2..Len(u) : i \in 2..n \/ i = n + 1
      BY <2>2
    <3>2. \A i \in 2..n : i \in 2..Len(u) /\ u[i] = s[i]
      BY <2>2
    <3>3. n + 1 \in 2..Len(u)
      BY <2>2
    <3> QED
      BY <2>2, <3>1, <3>2, <3>3
  <2>4. u[1] = first
    BY <2>2 DEF Begins, n
  <2>5. Begins(u, first, F \cup {t})
    <3>1. {s[i] : i \in 2..n} = F
      BY DEF Begins, n
    <3> QED
      BY <2>2, <2>3, <2>4, <3>1 DEF Begins
  <2>6. s \o Option(b, t) = u
    BY <2>1 DEF u
  <2> QED
    BY <1>1, <2>5, <2>6
<1>2. CASE ~b
  <2>1. Option(b, t) = <<>>
    BY <1>2 DEF Option
  <2>2. s \o <<>> = s
    BY DEF Begins
  <2> QED
    BY <1>2, <2>1, <2>2
<1> QED
  BY <1>1, <1>2

\* A beginning, the empty line, and what follows.
LEMMA HeaderThen ==
  ASSUME NEW s, NEW first, NEW F, Begins(s, first, F),
         NEW blank \in TokenType, NEW rest \in Seq(TokenType)
  PROVE  LET T == (s \o <<blank>>) \o rest
             h == Len(s) + 1
         IN
         /\ T \in Seq(TokenType) /\ Len(T) = h + Len(rest)
         /\ h \in 2..Len(T) /\ Len(rest) \in Nat
         /\ T[1] = first /\ T[h] = blank
         /\ {T[i] : i \in 2..(h - 1)} = F
         /\ \A i \in 1..Len(rest) : T[h + i] = rest[i]
<1> DEFINE T == (s \o <<blank>>) \o rest
           n == Len(s)
<1>1. /\ s \in Seq(TokenType) /\ n \in Nat /\ n >= 1 /\ s[1] = first
      /\ {s[i] : i \in 2..n} = F
  BY LenProperties DEF Begins
<1>2. /\ T \in Seq(TokenType) /\ Len(T) = n + 1 + Len(rest) /\ Len(rest) \in Nat
      /\ \A i \in 1..n : T[i] = s[i]
      /\ T[n + 1] = blank
      /\ \A i \in 1..Len(rest) : T[(n + 1) + i] = rest[i]
  <2>1. <<blank>> \in Seq(TokenType) /\ Len(<<blank>>) = 1 /\ <<blank>>[1] = blank
    OBVIOUS
  <2> DEFINE u == s \o <<blank>>
  <2>2. /\ u \in Seq(TokenType) /\ Len(u) = Len(s) + Len(<<blank>>)
        /\ \A i \in 1..Len(s) : u[i] = s[i]
        /\ \A i \in 1..Len(<<blank>>) : u[Len(s) + i] = <<blank>>[i]
    BY <1>1, <2>1, Joined
  <2>3. Len(u) = n + 1 /\ \A i \in 1..n : u[i] = s[i]
    BY <2>1, <2>2
  <2>4. u[n + 1] = blank
    BY <1>1, <2>1, <2>2
  <2> HIDE DEF u, n
  <2>5. /\ u \o rest \in Seq(TokenType) /\ Len(u \o rest) = Len(u) + Len(rest)
        /\ Len(rest) \in Nat
        /\ \A i \in 1..Len(u) : (u \o rest)[i] = u[i]
        /\ \A i \in 1..Len(rest) : (u \o rest)[Len(u) + i] = rest[i]
    <3>1. u \in Seq(TokenType) /\ rest \in Seq(TokenType)
      BY <2>2
    <3> QED
      BY ONLY <3>1, Joined
  <2>6. \A i \in 1..n : i \in 1..Len(u)
    BY <1>1, <2>3
  <2>7. n + 1 \in 1..Len(u)
    BY <1>1, <2>3
  <2> QED
    BY <2>3, <2>4, <2>5, <2>6, <2>7 DEF u
<1> HIDE DEF T
<1>3. {T[i] : i \in 2..((n + 1) - 1)} = F
  <2>1. (n + 1) - 1 = n /\ \A i \in 2..n : i \in 1..n
    BY <1>1
  <2> QED
    BY <1>1, <1>2, <2>1
<1>4. T[1] = first /\ n + 1 \in 2..Len(T)
  BY <1>1, <1>2
<1> QED
  BY <1>2, <1>3, <1>4 DEF T

\* The parts of a message that is not chunked make a frame.
LEMMA FrameOfBeginning ==
  ASSUME NEW s, NEW first, NEW F, Begins(s, first, F), first.kind = "start",
         NEW blank \in TokenType, blank.kind = "blank",
         NEW body \in Seq(TokenType), Len(body) \in 0..MaxBody,
         \A f \in F : /\ f.kind \in {"keep_alive", "length", "other"}
                      /\ f.kind = "length" => f.arg = Len(body),
         body # <<>> => \E f \in F : f.kind = "length"
  PROVE  Frame((s \o <<blank>>) \o body, Len(s) + 1, body, FALSE)
<1> DEFINE T == (s \o <<blank>>) \o body
           h == Len(s) + 1
<1>1. /\ T \in Seq(TokenType) /\ Len(T) = h + Len(body)
      /\ h \in 2..Len(T)
      /\ T[1] = first /\ T[h] = blank
      /\ {T[i] : i \in 2..(h - 1)} = F
      /\ \A i \in 1..Len(body) : T[h + i] = body[i]
  BY HeaderThen
<1> HIDE DEF T, h
<1>2. \A i \in 2..(h - 1) : T[i] \in F
  BY <1>1
<1>3. body # <<>> => \E i \in 2..(h - 1) : T[i].kind = "length"
  BY <1>1
<1>4. Frame(T, h, body, FALSE)
  BY <1>1, <1>2, <1>3 DEF Frame
<1> QED
  BY <1>4 DEF T, h

\* So do those of one with a chunk.
LEMMA FrameOfChunk ==
  ASSUME NEW s, NEW first, NEW F, Begins(s, first, F), first.kind = "start",
         NEW blank \in TokenType, blank.kind = "blank",
         NEW size \in TokenType, size.kind = "size",
         NEW last \in TokenType, last.kind = "size", last.arg = 0,
         NEW body \in Seq(TokenType), Len(body) \in 0..MaxBody, body # <<>>,
         size.arg = Len(body),
         \A f \in F : f.kind \in {"keep_alive", "chunked", "other"},
         \E f \in F : f.kind = "chunked"
  PROVE  Frame((((s \o <<blank>>) \o <<size>>) \o body) \o <<blank, last, blank>>,
               Len(s) + 1, body, TRUE)
<1> DEFINE end == <<blank, last, blank>>
           rest == (<<size>> \o body) \o end
           T == (s \o <<blank>>) \o rest
           h == Len(s) + 1
           b == Len(body)
<1>1. /\ <<size>> \in Seq(TokenType) /\ Len(<<size>>) = 1 /\ <<size>>[1] = size
      /\ end \in Seq(TokenType) /\ Len(end) = 3 /\ end[1] = blank /\ end[2] = last /\ end[3] = blank
  OBVIOUS
<1> HIDE DEF end
<1>2. /\ rest \in Seq(TokenType) /\ b \in Nat /\ Len(rest) = b + 4
      /\ rest[1] = size
      /\ \A i \in 1..b : rest[1 + i] = body[i]
      /\ rest[b + 2] = blank /\ rest[b + 3] = last /\ rest[b + 4] = blank
  <2> DEFINE u == <<size>> \o body
  <2>1. /\ u \in Seq(TokenType) /\ Len(u) = Len(<<size>>) + Len(body) /\ Len(body) \in Nat
        /\ \A i \in 1..Len(<<size>>) : u[i] = <<size>>[i]
        /\ \A i \in 1..Len(body) : u[Len(<<size>>) + i] = body[i]
    <3>1. <<size>> \in Seq(TokenType) /\ body \in Seq(TokenType)
      BY <1>1
    <3> QED
      BY ONLY <3>1, Joined
  <2>2. /\ Len(u) = b + 1 /\ b \in Nat /\ u[1] = size
        /\ \A i \in 1..b : u[1 + i] = body[i]
    BY <1>1, <2>1
  <2> HIDE DEF u, b
  <2>3. /\ u \o end \in Seq(TokenType) /\ Len(u \o end) = Len(u) + Len(end)
        /\ \A i \in 1..Len(u) : (u \o end)[i] = u[i]
        /\ \A i \in 1..Len(end) : (u \o end)[Len(u) + i] = end[i]
    <3>1. u \in Seq(TokenType) /\ end \in Seq(TokenType)
      BY <1>1, <2>1
    <3> QED
      BY ONLY <3>1, Joined
  <2> DEFINE v == u \o end
  <2>4. v = rest
    BY DEF u
  <2> HIDE DEF v, rest
  <2>5. /\ v \in Seq(TokenType) /\ Len(v) = b + 4
        /\ \A i \in 1..(b + 1) : v[i] = u[i]
        /\ v[b + 1 + 1] = end[1] /\ v[b + 1 + 2] = end[2] /\ v[b + 1 + 3] = end[3]
    BY <1>1, <2>2, <2>3 DEF v
  <2>6. b + 1 + 1 = b + 2 /\ b + 1 + 2 = b + 3 /\ b + 1 + 3 = b + 4
        /\ 1 \in 1..(b + 1) /\ \A i \in 1..b : 1 + i \in 1..(b + 1)
    BY <2>2
  <2> QED
    BY <1>1, <2>2, <2>4, <2>5, <2>6
<1> HIDE DEF rest, b
<1>3. /\ T \in Seq(TokenType) /\ Len(T) = h + Len(rest)
      /\ h \in 2..Len(T)
      /\ T[1] = first /\ T[h] = blank
      /\ {T[i] : i \in 2..(h - 1)} = F
      /\ \A i \in 1..Len(rest) : T[h + i] = rest[i]
  <2>1. rest \in Seq(TokenType) /\ Begins(s, first, F) /\ blank \in TokenType
    BY <1>2
  <2> QED
    BY ONLY <2>1, HeaderThen
<1>4. (((s \o <<blank>>) \o <<size>>) \o body) \o end = T
  <2>1. s \o <<blank>> \in Seq(TokenType)
    BY Joined DEF Begins
  <2> DEFINE u == s \o <<blank>>
  <2> HIDE DEF u
  <2>2. (u \o <<size>>) \o body = u \o (<<size>> \o body)
    BY <1>1, <2>1, ConcatAssociative DEF u
  <2>3. <<size>> \o body \in Seq(TokenType)
    BY <1>1, Joined
  <2>4. (u \o (<<size>> \o body)) \o end = u \o ((<<size>> \o body) \o end)
    <3> DEFINE a == <<size>> \o body
    <3>1. u \in Seq(TokenType) /\ a \in Seq(TokenType) /\ end \in Seq(TokenType)
      BY <1>1, <2>1, <2>3 DEF u
    <3> HIDE DEF a
    <3>2. (u \o a) \o end = u \o (a \o end)
      BY ONLY <3>1, ConcatAssociative
    <3> QED
      BY <3>2 DEF a
  <2> QED
    BY <2>2, <2>4 DEF u, rest
<1> HIDE DEF T, h
<1>5. \A i \in 2..(h - 1) : T[i] \in F
  BY <1>3
<1>6. \E i \in 2..(h - 1) : T[i].kind = "chunked"
  BY <1>3
<1>7. /\ Len(T) = h + b + 4 /\ T[h + 1] = size
      /\ \A i \in 1..b : T[h + 1 + i] = body[i]
      /\ T[h + b + 2] = blank /\ T[h + b + 3] = last /\ T[h + b + 4] = blank
  <2>1. h \in Nat
    BY <1>3
  <2>2. /\ 1 \in 1..Len(rest) /\ b + 2 \in 1..Len(rest) /\ b + 3 \in 1..Len(rest)
        /\ b + 4 \in 1..Len(rest)
        /\ h + b + 2 = h + (b + 2) /\ h + b + 3 = h + (b + 3) /\ h + b + 4 = h + (b + 4)
        /\ \A i \in 1..b : 1 + i \in 1..Len(rest) /\ h + 1 + i = h + (1 + i)
    BY <1>2, <2>1
  <2> QED
    BY <1>2, <1>3, <2>2
<1>8. Frame(T, h, body, TRUE)
  BY <1>3, <1>5, <1>6, <1>7 DEF Frame, b
<1> QED
  BY <1>4, <1>8 DEF h, end

\* The units of a body.
LEMMA BodyUnits ==
  ASSUME NEW e \in Ends, NEW n \in Nat, NEW size \in 0..MaxBody
  PROVE  /\ Body(e, n, size) \in Seq(TokenType)
         /\ Len(Body(e, n, size)) = size
         /\ Body(e, n, size) = <<>> <=> size = 0
BY ConnectionAssumption, EmptySeq DEF Body, Token, TokenType, Kinds

\* A line of a message.
LEMMA LineToken ==
  ASSUME NEW kind \in Kinds, NEW e \in Ends, NEW n \in Nat, NEW arg \in Nat
  PROVE  /\ Token(kind, e, n, arg) \in TokenType
         /\ Token(kind, e, n, arg).kind = kind /\ Token(kind, e, n, arg).arg = arg
BY DEF Token, TokenType

\* The answer of the server is framed.
LEMMA ResponseFrame ==
  ASSUME NEW n \in Nat, NEW size \in 0..MaxBody, NEW keep_alive \in BOOLEAN
  PROVE  \E h \in 2..Len(Response(n, size, keep_alive)) :
            Frame(Response(n, size, keep_alive), h, Body("server", n, size), FALSE)
<1> DEFINE line(kind, arg) == Token(kind, "server", n, arg)
           body == Body("server", n, size)
           long == size > 0
           s1 == <<line("start", 0), line("other", 0)>>
           s2 == s1 \o Option(keep_alive, line("keep_alive", 0))
           s3 == s2 \o Option(long, line("length", size))
           F2 == {line("other", 0)} \cup (IF keep_alive THEN {line("keep_alive", 0)} ELSE {})
           F == F2 \cup (IF long THEN {line("length", size)} ELSE {})
<1>1. /\ \A kind \in Kinds : line(kind, 0) \in TokenType /\ line(kind, 0).kind = kind
      /\ line("length", size) \in TokenType /\ line("length", size).kind = "length"
      /\ line("length", size).arg = size
  BY LineToken DEF Ends, Kinds
<1>2. body \in Seq(TokenType) /\ Len(body) = size /\ (body # <<>> <=> long)
  BY BodyUnits DEF Ends
<1>3. Response(n, size, keep_alive) = (s3 \o <<line("blank", 0)>>) \o body
  BY DEF Response
<1>4. long \in BOOLEAN
  OBVIOUS
<1> HIDE DEF line, body, long
<1>5. Begins(s3, line("start", 0), F)
  <2>1. Begins(s1, line("start", 0), {line("other", 0)})
    BY <1>1 DEF Begins, Kinds
  <2> HIDE DEF s1
  <2>2. Begins(s2, line("start", 0), F2)
    BY <1>1, <2>1, BeginsOption DEF Kinds
  <2> HIDE DEF s2, F2
  <2> QED
    BY <1>1, <1>4, <2>2, BeginsOption
<1>6. /\ \A f \in F : /\ f.kind \in {"keep_alive", "length", "other"}
                      /\ f.kind = "length" => f.arg = Len(body)
      /\ body # <<>> => \E f \in F : f.kind = "length"
  BY <1>1, <1>2 DEF Kinds
<1>7. line("start", 0) \in TokenType /\ line("start", 0).kind = "start"
      /\ line("blank", 0) \in TokenType /\ line("blank", 0).kind = "blank"
  BY <1>1 DEF Kinds
<1> HIDE DEF s3, F
<1> DEFINE T == (s3 \o <<line("blank", 0)>>) \o body
           h == Len(s3) + 1
<1>8. Frame(T, h, body, FALSE)
  BY <1>2, <1>5, <1>6, <1>7, FrameOfBeginning
<1>9. h \in 2..Len(T)
  BY <1>8 DEF Frame
<1>10. T = Response(n, size, keep_alive)
  BY <1>3
<1> HIDE DEF T, h
<1> QED
  BY <1>8, <1>9, <1>10 DEF body

\* The request of the client is framed; it says who it is and whether the
\* connection is kept alive.
LEMMA RequestFrame ==
  ASSUME NEW n \in Nat, NEW r \in Requests
  PROVE  \E h \in 2..Len(Request(n, r)) :
            /\ Frame(Request(n, r), h, Body("client", n, r.size), r.chunked)
            /\ Request(n, r)[1] = Token("start", "client", n, 0)
            /\ r.keep_alive <=> \E i \in 2..(h - 1) : Request(n, r)[i].kind = "keep_alive"
<1> DEFINE line(kind, arg) == Token(kind, "client", n, arg)
           body == Body("client", n, r.size)
           long == ~r.chunked /\ (r.size > 0 \/ r.declared)
           s1 == <<line("start", 0)>>
           s2 == s1 \o Option(r.keep_alive, line("keep_alive", 0))
           s3 == s2 \o Option(long, line("length", r.size))
           s4 == s3 \o Option(r.chunked, line("chunked", 0))
           F2 == {} \cup (IF r.keep_alive THEN {line("keep_alive", 0)} ELSE {})
           F3 == F2 \cup (IF long THEN {line("length", r.size)} ELSE {})
           F == F3 \cup (IF r.chunked THEN {line("chunked", 0)} ELSE {})
           header == s4 \o <<line("blank", 0)>>
<1>1. /\ r.size \in 0..MaxBody /\ r.size \in Nat
      /\ r.keep_alive \in BOOLEAN /\ r.declared \in BOOLEAN /\ r.chunked \in BOOLEAN
      /\ r.chunked => r.size > 0
  BY ConnectionAssumption DEF Requests
<1>2. /\ \A kind \in Kinds : line(kind, 0) \in TokenType /\ line(kind, 0).kind = kind
                             /\ line(kind, 0).arg = 0
      /\ \A kind \in Kinds : line(kind, r.size) \in TokenType /\ line(kind, r.size).kind = kind
                             /\ line(kind, r.size).arg = r.size
  BY <1>1, LineToken DEF Ends, Kinds
<1>3. body \in Seq(TokenType) /\ Len(body) = r.size /\ (body # <<>> <=> r.size # 0)
  BY <1>1, BodyUnits DEF Ends
<1>4. Request(n, r) = IF r.chunked
                      THEN ((header \o <<line("size", r.size)>>) \o body)
                             \o <<line("blank", 0), line("size", 0), line("blank", 0)>>
                      ELSE header \o body
  BY DEF Request
<1>5. long \in BOOLEAN /\ (~r.chunked /\ r.size # 0 => long) /\ (r.chunked => ~long)
  BY <1>1
<1>6. line("start", 0) = Token("start", "client", n, 0)
  OBVIOUS
<1> HIDE DEF line, body, long
<1>7. Begins(s4, line("start", 0), F)
  <2>1. Begins(s1, line("start", 0), {})
    BY <1>2, BeginsWithStart DEF Kinds
  <2> HIDE DEF s1
  <2>2. Begins(s2, line("start", 0), F2)
    BY <1>1, <1>2, <2>1, BeginsOption DEF Kinds
  <2> HIDE DEF s2, F2
  <2>3. Begins(s3, line("start", 0), F3)
    BY <1>2, <1>5, <2>2, BeginsOption DEF Kinds
  <2> HIDE DEF s3, F3
  <2> QED
    BY <1>1, <1>2, <2>3, BeginsOption DEF Kinds
<1>8. /\ \A f \in F : /\ f.kind \in {"keep_alive", "length", "chunked"}
                      /\ f.kind = "length" => f.arg = Len(body) /\ long
                      /\ f.kind = "chunked" => r.chunked
      /\ long => \E f \in F : f.kind = "length"
      /\ r.chunked => \E f \in F : f.kind = "chunked"
      /\ r.keep_alive <=> \E f \in F : f.kind = "keep_alive"
  BY <1>1, <1>2, <1>3 DEF Kinds
<1>9. /\ \A kind \in {"start", "blank", "size"} :
            line(kind, 0) \in TokenType /\ line(kind, 0).kind = kind /\ line(kind, 0).arg = 0
      /\ line("size", r.size) \in TokenType /\ line("size", r.size).kind = "size"
      /\ line("size", r.size).arg = Len(body)
  BY <1>2, <1>3 DEF Kinds
<1> DEFINE T == Request(n, r)
           h == Len(s4) + 1
<1> HIDE DEF s4, F
<1>10. Frame(T, h, body, r.chunked)
  <2>1. CASE r.chunked
    <3>1. /\ \A f \in F : f.kind \in {"keep_alive", "chunked", "other"}
          /\ \E f \in F : f.kind = "chunked"
          /\ body # <<>> /\ Len(body) \in 0..MaxBody
      BY <1>1, <1>3, <1>5, <1>8, <2>1
    <3>2. Frame((((s4 \o <<line("blank", 0)>>) \o <<line("size", r.size)>>) \o body)
                  \o <<line("blank", 0), line("size", 0), line("blank", 0)>>, Len(s4) + 1, body, TRUE)
      BY <1>3, <1>7, <1>9, <3>1, FrameOfChunk
    <3> QED
      BY <1>1, <1>4, <2>1, <3>2
  <2>2. CASE ~r.chunked
    <3>1. /\ \A f \in F : /\ f.kind \in {"keep_alive", "length", "other"}
                          /\ f.kind = "length" => f.arg = Len(body)
          /\ body # <<>> => \E f \in F : f.kind = "length"
          /\ Len(body) \in 0..MaxBody
      BY <1>1, <1>3, <1>5, <1>8, <2>2
    <3>2. Frame((s4 \o <<line("blank", 0)>>) \o body, Len(s4) + 1, body, FALSE)
      BY <1>3, <1>7, <1>9, <3>1, FrameOfBeginning
    <3> QED
      BY <1>1, <1>4, <2>2, <3>2
  <2> QED
    BY <2>1, <2>2
<1>11. h \in 2..Len(T)
  BY <1>10 DEF Frame
<1>12. T[1] = line("start", 0) /\ {T[i] : i \in 2..(h - 1)} = F
  <2> DEFINE end == <<line("blank", 0), line("size", 0), line("blank", 0)>>
  <2>1. \E rest \in Seq(TokenType) : T = (s4 \o <<line("blank", 0)>>) \o rest
    <3>1. CASE r.chunked
      <4> DEFINE size == <<line("size", r.size)>>
                 rest == (size \o body) \o end
                 u == s4 \o <<line("blank", 0)>>
      <4>1. u \in Seq(TokenType) /\ size \in Seq(TokenType) /\ end \in Seq(TokenType)
        BY <1>7, <1>9, Joined DEF Begins
      <4>2. T = ((u \o size) \o body) \o end
        BY <1>4, <3>1
      <4> HIDE DEF u, size, end, T
      <4>3. (u \o size) \o body = u \o (size \o body) /\ size \o body \in Seq(TokenType)
        BY <1>3, <4>1, ConcatAssociative, Joined
      <4> DEFINE a == size \o body
      <4>4. a \in Seq(TokenType) /\ T = (u \o a) \o end
        BY <4>2, <4>3
      <4> HIDE DEF a
      <4>5. (u \o a) \o end = u \o (a \o end) /\ a \o end \in Seq(TokenType)
        BY <4>1, <4>4, ConcatAssociative, Joined
      <4> QED
        BY <4>4, <4>5 DEF u
    <3>2. CASE ~r.chunked
      BY <1>3, <1>4, <3>2
    <3> QED
      BY <3>1, <3>2
  <2>2. PICK rest \in Seq(TokenType) : T = (s4 \o <<line("blank", 0)>>) \o rest
    BY <2>1
  <2>3. Begins(s4, line("start", 0), F) /\ line("blank", 0) \in TokenType /\ rest \in Seq(TokenType)
    BY <1>7, <1>9
  <2> DEFINE U == (s4 \o <<line("blank", 0)>>) \o rest
  <2>4. U[1] = line("start", 0) /\ {U[i] : i \in 2..((Len(s4) + 1) - 1)} = F
    BY ONLY <2>3, HeaderThen
  <2> HIDE DEF T, U
  <2>5. T = U
    BY <2>2 DEF U
  <2> QED
    BY <2>4, <2>5
<1> HIDE DEF T, h
<1>13. r.keep_alive <=> \E i \in 2..(h - 1) : T[i].kind = "keep_alive"
  BY <1>8, <1>12
<1> QED
  BY <1>6, <1>10, <1>11, <1>12, <1>13 DEF T, body

\* A message has one end of its header.
LEMMA OneFrame ==
  ASSUME NEW T, NEW h, NEW k, NEW body, NEW chunked, NEW body2, NEW chunked2,
         Frame(T, h, body, chunked), Frame(T, k, body2, chunked2)
  PROVE  h = k
<1>1. h \in 2..Len(T) /\ k \in 2..Len(T) /\ Len(T) \in Nat
  BY LenProperties DEF Frame
<1>2. ~(h < k)
  <2> SUFFICES ASSUME h < k PROVE FALSE
    OBVIOUS
  <2>1. h \in 2..(k - 1)
    BY <1>1
  <2> QED
    BY <2>1 DEF Frame
<1>3. ~(k < h)
  <2> SUFFICES ASSUME k < h PROVE FALSE
    OBVIOUS
  <2>1. k \in 2..(h - 1)
    BY <1>1
  <2> QED
    BY <2>1 DEF Frame
<1> QED
  BY <1>1, <1>2, <1>3

-----------------------------------------------------------------------------
(* Receiving a part of a message *)

\* getline takes the next token of the message.
LEMMA TakesALine ==
  ASSUME ConnectionTypes, NEW e \in Ends, NEW T, NEW c, NEW all, NEW kinds,
         Len(T) \in Nat, Reads(e, T, c, all), Getline(e, kinds)
  PROVE  /\ c \in Nat /\ c + 1 \in 1..Len(T)
         /\ Head(wire[e]) = T[c + 1] /\ T[c + 1].kind \in kinds /\ Head(wire[e]) \in TokenType
         /\ Reads(e, T, c + 1, all)'
         /\ wire' \in [Ends -> Seq(TokenType)]
<1> DEFINE w == wire[e]
           v == wire'[e]
<1>1. w \in Seq(TokenType) /\ wire \in [Ends -> Seq(TokenType)]
  BY DEF ConnectionTypes, TypeOK
<1>2. w # <<>> /\ wire' = [wire EXCEPT ![e] = Tail(w)] /\ Head(w).kind \in kinds
  BY DEF Getline
<1>3. v = Tail(w)
  BY <1>1, <1>2
<1>4. /\ Head(w) = w[1] /\ Head(w) \in TokenType
      /\ Len(w) \in Nat \ {0}
      /\ v \in Seq(TokenType) /\ Len(v) = Len(w) - 1
      /\ \A i \in 1..(Len(w) - 1) : v[i] = w[i + 1]
  BY <1>1, <1>2, <1>3, TookOne
<1>5. wire' \in [Ends -> Seq(TokenType)]
  BY <1>1, <1>2, <1>3, <1>4
<1>6. /\ c \in 0..Len(T) /\ c + Len(w) <= Len(T)
      /\ \A i \in 1..Len(w) : w[i] = T[c + i]
      /\ all => c + Len(w) = Len(T)
  BY DEF Reads
<1> HIDE DEF w, v
<1>7. c + 1 \in 1..Len(T) /\ c \in Nat
  BY <1>4, <1>6
<1>8. w[1] = T[c + 1]
  BY <1>4, <1>6
<1>9. \A i \in 1..Len(v) : v[i] = T[(c + 1) + i]
  <2> TAKE i \in 1..Len(v)
  <2>1. i + 1 \in 1..Len(w) /\ c + (i + 1) = (c + 1) + i /\ i \in 1..(Len(w) - 1)
    BY <1>4, <1>7
  <2> QED
    BY <1>4, <1>6, <2>1
<1>10. (c + 1) + Len(v) <= Len(T) /\ (all => (c + 1) + Len(v) = Len(T)) /\ c + 1 \in 0..Len(T)
  <2>1. (c + 1) + Len(v) = c + Len(w) /\ c + 1 \in 0..Len(T)
    BY <1>4, <1>6, <1>7
  <2> QED
    BY <1>6, <2>1
<1>11. Reads(e, T, c + 1, all)'
  BY <1>9, <1>10 DEF Reads, v
<1> QED
  BY <1>2, <1>4, <1>5, <1>7, <1>8, <1>11 DEF w

\* The tokens of body follow the first c of T.
Follows(T, c, body) == \A i \in 1..Len(body) : T[c + i] = body[i]

\* read takes as many tokens of the message as are left: a body of that length.
LEMMA TakesUnits ==
  ASSUME ConnectionTypes, NEW e \in Ends, NEW T, NEW c, NEW all, NEW l \in Nat, l = left[e],
         NEW body \in Seq(TokenType), Len(body) = l, Follows(T, c, body),
         msg[e].content = <<>>, Len(T) \in Nat, Reads(e, T, c, all), Read(e)
  PROVE  /\ c + l \in 0..Len(T)
         /\ Reads(e, T, c + l, all)'
         /\ wire' \in [Ends -> Seq(TokenType)]
         /\ left' = [left EXCEPT ![e] = 0]
         /\ msg' \in [Ends -> MessageType]
         /\ msg'[e].start = msg[e].start /\ msg'[e].fields = msg[e].fields
         /\ msg'[e].content = body
<1> DEFINE w == wire[e]
           v == wire'[e]
           s == SubSeq(w, 1, l)
<1>1. w \in Seq(TokenType) /\ wire \in [Ends -> Seq(TokenType)]
  BY DEF ConnectionTypes, TypeOK
<1>2. /\ Len(w) >= l /\ left' = [left EXCEPT ![e] = 0]
      /\ wire' = [wire EXCEPT ![e] = SubSeq(w, l + 1, Len(w))]
      /\ msg' = [msg EXCEPT ![e].content = @ \o s]
  BY DEF Read
<1>3. Len(w) \in Nat /\ l \in 0..Len(w)
  BY <1>1, <1>2, LenProperties
<1>4. v = SubSeq(w, l + 1, Len(w))
  BY <1>1, <1>2
<1>5. /\ s \in Seq(TokenType) /\ Len(s) = l
      /\ \A i \in 1..l : s[i] = w[i]
      /\ v \in Seq(TokenType) /\ Len(v) = Len(w) - l
      /\ \A i \in 1..(Len(w) - l) : v[i] = w[l + i]
  <2>1. w \in Seq(TokenType) /\ l \in 0..Len(w) /\ v = SubSeq(w, l + 1, Len(w)) /\ s = SubSeq(w, 1, l)
    BY <1>1, <1>3, <1>4
  <2> HIDE DEF w, v, s
  <2>2. /\ SubSeq(w, 1, l) \in Seq(TokenType) /\ Len(SubSeq(w, 1, l)) = l
        /\ \A i \in 1..l : SubSeq(w, 1, l)[i] = w[i]
        /\ SubSeq(w, l + 1, Len(w)) \in Seq(TokenType)
        /\ Len(SubSeq(w, l + 1, Len(w))) = Len(w) - l
        /\ \A i \in 1..(Len(w) - l) : SubSeq(w, l + 1, Len(w))[i] = w[l + i]
    BY ONLY <2>1, Parts
  <2> QED
    BY <2>1, <2>2
<1>6. /\ c \in 0..Len(T) /\ c + Len(w) <= Len(T)
      /\ \A i \in 1..Len(w) : w[i] = T[c + i]
      /\ all => c + Len(w) = Len(T)
  BY DEF Reads
<1>7. wire' \in [Ends -> Seq(TokenType)]
  BY <1>1, <1>2, <1>4, <1>5
<1> HIDE DEF w, v, s
<1>8. \A i \in 1..Len(v) : v[i] = T[(c + l) + i]
  <2> TAKE i \in 1..Len(v)
  <2> DEFINE n == Len(w)
  <2>1. n \in Nat /\ l \in 0..n /\ c \in Nat /\ i \in 1..(n - l)
    BY <1>3, <1>5, <1>6
  <2> HIDE DEF n
  <2>2. l + i \in 1..n /\ c + (l + i) = (c + l) + i
    BY ONLY <2>1
  <2>3. l + i \in 1..Len(w) /\ c + (l + i) = (c + l) + i /\ i \in 1..(Len(w) - l)
    BY <2>1, <2>2 DEF n
  <2> QED
    BY <1>5, <1>6, <2>3
<1>9. (c + l) + Len(v) <= Len(T) /\ (all => (c + l) + Len(v) = Len(T)) /\ c + l \in 0..Len(T)
  <2>1. (c + l) + Len(v) = c + Len(w) /\ c + l \in 0..Len(T)
    BY ONLY <1>3, <1>5, <1>6, l \in Nat
  <2> QED
    BY <1>6, <2>1
<1>10. \A i \in 1..l : s[i] = T[c + i]
  BY <1>3, <1>5, <1>6
<1>11. Reads(e, T, c + l, all)'
  BY <1>8, <1>9 DEF Reads, v
<1>12. s = body
  BY <1>5, <1>10, SameElements DEF Follows
<1>13. /\ msg' \in [Ends -> MessageType]
       /\ msg'[e].start = msg[e].start /\ msg'[e].fields = msg[e].fields
       /\ msg'[e].content = body
  <2>1. msg \in [Ends -> MessageType] /\ msg[e] \in MessageType
    BY DEF ConnectionTypes
  <2>2. <<>> \o body = body
    OBVIOUS
  <2>3. msg' = [msg EXCEPT ![e].content = body]
    BY <1>2, <1>12, <2>2
  <2>4. msg'[e] = [msg[e] EXCEPT !.content = body]
    BY <2>1, <2>3
  <2>5. /\ msg'[e].start = msg[e].start /\ msg'[e].fields = msg[e].fields
        /\ msg'[e].content = body /\ msg'[e] \in MessageType
    BY <2>1, <2>4 DEF MessageType
  <2>6. msg' \in [Ends -> MessageType]
    BY <2>1, <2>3, <2>5
  <2> QED
    BY <2>5, <2>6
<1> QED
  BY <1>2, <1>7, <1>9, <1>11, <1>13
\* What an end in a message has.
LEMMA EndTypes ==
  ASSUME ConnectionTypes, NEW e \in Ends
  PROVE  /\ pc[e] \in Receiving \cup {"idle", "have", "closed"}
         /\ msg[e] \in MessageType
         /\ left[e] \in 0..MaxBody /\ left[e] \in Nat /\ MaxBody \in Nat
         /\ DOMAIN pc = Ends /\ DOMAIN msg = Ends /\ DOMAIN left = Ends /\ DOMAIN wire = Ends
BY ConnectionAssumption DEF ConnectionTypes, TypeOK

\* The steps of RecvBody and of the header that take tokens.
Takes(e) ==
  \/ RecvStartLine(e) \/ RecvHeader(e) \/ RecvBlank(e) \/ RecvBody(e)
  \/ RecvSize(e) \/ RecvChunk(e) \/ RecvChunkEnd(e)

\* The types of an end that receives.
EndTyped(e) ==
  /\ wire' \in [Ends -> Seq(TokenType)]
  /\ pc' \in [Ends -> Receiving \cup {"idle", "have", "closed"}]
  /\ msg' \in [Ends -> MessageType]
  /\ left' \in [Ends -> 0..MaxBody]
  /\ pc'[e] \in Receiving \cup {"have"} /\ (e = "server" => pc'[e] # "until_close")

\* The header of a message is read line by line, and the empty line tells how to
\* go on.
LEMMA HeaderStep ==
  ASSUME ConnectionTypes, NEW e \in Ends, NEW T, NEW h, NEW body, NEW chunked \in BOOLEAN, NEW c,
         NEW all, Frame(T, h, body, chunked), Reads(e, T, c, all),
         Parsed(e, T, h, body, chunked, c),
         RecvStartLine(e) \/ RecvHeader(e) \/ RecvBlank(e)
  PROVE  /\ c + 1 \in 0..Len(T)
         /\ Reads(e, T, c + 1, all)' /\ Parsed(e, T, h, body, chunked, c + 1)'
         /\ EndTyped(e)
<1>1. /\ pc[e] \in Receiving \cup {"idle", "have", "closed"}
      /\ msg[e] \in MessageType /\ left[e] \in 0..MaxBody /\ MaxBody \in Nat
      /\ pc \in [Ends -> Receiving \cup {"idle", "have", "closed"}]
      /\ msg \in [Ends -> MessageType] /\ left \in [Ends -> 0..MaxBody]
      /\ e = "server" => pc[e] # "until_close"
  BY EndTypes DEF ConnectionTypes, TypeOK, Receiving
<1>2. PICK kinds : Getline(e, kinds)
  BY DEF RecvStartLine, RecvHeader, RecvBlank
<1>3. T \in Seq(TokenType) /\ Len(T) \in Nat /\ h \in 2..Len(T)
  BY LenProperties DEF Frame
<1>4. /\ c \in Nat /\ c + 1 \in 1..Len(T)
      /\ Head(wire[e]) = T[c + 1] /\ Head(wire[e]) \in TokenType
      /\ Reads(e, T, c + 1, all)' /\ wire' \in [Ends -> Seq(TokenType)]
  BY <1>2, <1>3, TakesALine
<1>5. c + 1 \in 0..Len(T)
  BY <1>3, <1>4
<1>6. CASE RecvStartLine(e)
  <2>1. c = 0 /\ msg[e] = NewMessage
    BY <1>6 DEF RecvStartLine, Parsed
  <2>2. /\ pc' = [pc EXCEPT ![e] = "headers"]
        /\ msg' = [msg EXCEPT ![e].start = <<Head(wire[e])>>] /\ UNCHANGED left
    BY <1>6 DEF RecvStartLine
  <2>3. msg[e].fields = {} /\ msg[e].content = <<>>
    BY <2>1 DEF NewMessage
  <2>4. /\ pc'[e] = "headers" /\ msg'[e] \in MessageType
        /\ msg'[e].start = <<T[1]>> /\ msg'[e].fields = {} /\ msg'[e].content = <<>>
    <3>1. Head(wire[e]) = T[1] /\ T[1] \in TokenType
      BY <1>3, <1>4, <2>1
    <3>2. msg'[e] = [msg[e] EXCEPT !.start = <<T[1]>>] /\ pc'[e] = "headers"
      BY <1>1, <2>2, <3>1
    <3>3. <<T[1]>> \in Seq(TokenType)
      BY <3>1
    <3> QED
      BY <1>1, <2>3, <3>2, <3>3 DEF MessageType
  <2>5. {T[i] : i \in 2..(c + 1)} = {} /\ c + 1 \in 1..(h - 1)
    BY <1>3, <2>1
  <2>6. Parsed(e, T, h, body, chunked, c + 1)'
    BY <2>4, <2>5 DEF Parsed, Receiving
  <2>7. pc' \in [Ends -> Receiving \cup {"idle", "have", "closed"}] /\ msg' \in [Ends -> MessageType]
    BY <1>1, <2>2, <2>4 DEF Receiving
  <2> QED
    BY <1>1, <1>4, <1>5, <2>2, <2>4, <2>6, <2>7 DEF EndTyped, Receiving
<1>7. CASE RecvHeader(e)
  <2>1. /\ pc[e] = "headers" /\ c \in 1..(h - 1)
        /\ msg[e].start = <<T[1]>> /\ msg[e].fields = {T[i] : i \in 2..c} /\ msg[e].content = <<>>
    BY <1>7 DEF RecvHeader, Parsed
  <2>2. /\ UNCHANGED <<pc, left>> /\ T[c + 1].kind # "blank"
        /\ msg' = [msg EXCEPT ![e].fields = @ \cup {Head(wire[e])}]
    BY <1>4, <1>7 DEF RecvHeader, Getline, Lines
  <2>3. msg'[e] = [msg[e] EXCEPT !.fields = {T[i] : i \in 2..c} \cup {T[c + 1]}]
    BY <1>1, <1>4, <2>1, <2>2
  <2>4. c + 1 # h
    BY <2>2 DEF Frame
  <2>5. {T[i] : i \in 2..c} \cup {T[c + 1]} = {T[i] : i \in 2..(c + 1)} /\ c + 1 \in 1..(h - 1)
    <3>1. c \in 1..(h - 1) /\ h \in Nat /\ c \in Nat
      BY <1>3, <1>4, <2>1
    <3>2. \A i : i \in 2..(c + 1) <=> i \in 2..c \/ i = c + 1
      BY <3>1
    <3>3. c + 1 \in 1..(h - 1)
      BY <2>4, <3>1
    <3> QED
      BY <3>2, <3>3
  <2>6. /\ msg'[e].fields = {T[i] : i \in 2..(c + 1)} /\ msg'[e].start = <<T[1]>>
        /\ msg'[e].content = <<>> /\ msg'[e] \in MessageType
    <3>1. msg[e].fields \cup {Head(wire[e])} \in SUBSET TokenType
      BY <1>1, <1>4 DEF MessageType
    <3> QED
      BY <1>1, <1>4, <2>1, <2>3, <2>5, <3>1 DEF MessageType
  <2>7. Parsed(e, T, h, body, chunked, c + 1)'
    BY <2>1, <2>2, <2>5, <2>6 DEF Parsed, Receiving
  <2>8. msg' \in [Ends -> MessageType]
    BY <1>1, <2>2, <2>6
  <2> QED
    BY <1>1, <1>4, <1>5, <2>1, <2>2, <2>7, <2>8 DEF EndTyped, Receiving
<1>8. CASE RecvBlank(e)
  <2>1. /\ pc[e] = "headers" /\ c \in 1..(h - 1)
        /\ msg[e].start = <<T[1]>> /\ msg[e].fields = {T[i] : i \in 2..c} /\ msg[e].content = <<>>
    BY <1>8 DEF RecvBlank, Parsed
  <2>2. /\ T[c + 1].kind = "blank" /\ UNCHANGED msg
        /\ pc' = [pc EXCEPT ![e] = BodyKind(e, msg[e])]
        /\ left' = [left EXCEPT ![e] =
              IF Has(msg[e], "length")
              THEN (CHOOSE f \in msg[e].fields : f.kind = "length").arg ELSE 0]
    BY <1>4, <1>8 DEF RecvBlank, Getline
  <2>3. c + 1 = h
    <3>1. ~(c + 1 \in 2..(h - 1))
      <4> SUFFICES ASSUME c + 1 \in 2..(h - 1) PROVE FALSE
        OBVIOUS
      <4>1. T[c + 1].kind \in {"keep_alive", "length", "chunked", "other"}
        BY DEF Frame
      <4> QED
        BY <2>2, <4>1
    <3> QED
      BY <1>3, <1>4, <2>1, <3>1
  <2>4. msg[e].fields = {T[i] : i \in 2..(h - 1)} /\ c = h - 1
    BY <1>3, <1>4, <2>1, <2>3
  <2>5. /\ Has(msg[e], "chunked") <=> chunked
        /\ Has(msg[e], "length") => \A f \in msg[e].fields : f.kind = "length" => f.arg = Len(body)
        /\ ~chunked /\ body # <<>> => Has(msg[e], "length")
    <3>1. \A kind : Has(msg[e], kind) <=> \E i \in 2..(h - 1) : T[i].kind = kind
      BY <2>4 DEF Has
    <3>2. \A f \in msg[e].fields : \E i \in 2..(h - 1) : f = T[i]
      BY <2>4
    <3>3. Has(msg[e], "chunked") <=> chunked
      <4>1. chunked <=> \E i \in 2..(h - 1) : T[i].kind = "chunked"
        BY DEF Frame
      <4> QED
        BY ONLY <3>1, <4>1
    <3>4. \A i \in 2..(h - 1) : T[i].kind = "length" => T[i].arg = Len(body)
      BY DEF Frame
    <3>5. Has(msg[e], "length") => \A f \in msg[e].fields : f.kind = "length" => f.arg = Len(body)
      BY ONLY <3>2, <3>4
    <3>6. ~chunked /\ body # <<>> => Has(msg[e], "length")
      <4>1. ~chunked /\ body # <<>> => \E i \in 2..(h - 1) : T[i].kind = "length"
        BY DEF Frame
      <4> QED
        BY ONLY <3>1, <4>1
    <3> QED
      BY <3>3, <3>5, <3>6
  <2>6. left'[e] = IF Has(msg[e], "length") THEN Len(body) ELSE 0
    BY <1>1, <2>2, <2>5 DEF Has
  <2>7. Len(body) \in 0..MaxBody /\ body \in Seq(TokenType) /\ (Len(body) = 0 <=> body = <<>>)
    BY EmptySeq DEF Frame
  <2>8. pc'[e] = IF chunked THEN "size" ELSE IF Has(msg[e], "length") THEN "body"
                 ELSE IF e = "client" THEN "until_close" ELSE "have"
    BY <1>1, <2>2, <2>5 DEF BodyKind
  <2>9. ~chunked => Len(T) = h + Len(body)
    BY DEF Frame
  <2>10. Parsed(e, T, h, body, chunked, h)'
    <3>1. CASE chunked
      BY <2>1, <2>2, <2>4, <2>8, <3>1 DEF Parsed, Receiving
    <3>2. CASE ~chunked /\ Has(msg[e], "length")
      BY <2>1, <2>2, <2>4, <2>6, <2>8, <3>2 DEF Parsed, Receiving
    <3>3. CASE ~chunked /\ ~Has(msg[e], "length")
      <4>1. body = <<>> /\ h = Len(T)
        BY <1>3, <2>5, <2>7, <2>9, <3>3
      <4> QED
        BY <2>1, <2>2, <2>4, <2>8, <3>3, <4>1 DEF Parsed, Receiving
    <3> QED
      BY <3>1, <3>2, <3>3
  <2>11. left' \in [Ends -> 0..MaxBody]
    BY <1>1, <2>2, <2>6, <2>7
  <2>12. pc' \in [Ends -> Receiving \cup {"idle", "have", "closed"}]
    BY <1>1, <2>2, <2>8 DEF Receiving
  <2>13. pc'[e] \in Receiving \cup {"have"} /\ (e = "server" => pc'[e] # "until_close")
    BY <2>8 DEF Receiving
  <2> QED
    BY <1>1, <1>4, <1>5, <2>2, <2>3, <2>10, <2>11, <2>12, <2>13 DEF EndTyped
<1> QED
  BY <1>6, <1>7, <1>8

\* The body is read whole, or chunk by chunk.
LEMMA BodyStep ==
  ASSUME ConnectionTypes, NEW e \in Ends, NEW T, NEW h, NEW body, NEW chunked \in BOOLEAN, NEW c,
         NEW all, Frame(T, h, body, chunked), Reads(e, T, c, all),
         Parsed(e, T, h, body, chunked, c),
         RecvBody(e) \/ RecvSize(e) \/ RecvChunk(e) \/ RecvChunkEnd(e)
  PROVE  /\ EndTyped(e)
         /\ \E d \in 0..Len(T) :
              Reads(e, T, d, all)' /\ Parsed(e, T, h, body, chunked, d)'
<1>1. /\ pc[e] \in Receiving \cup {"idle", "have", "closed"}
      /\ msg[e] \in MessageType /\ left[e] \in 0..MaxBody /\ left[e] \in Nat /\ MaxBody \in Nat
      /\ pc \in [Ends -> Receiving \cup {"idle", "have", "closed"}]
      /\ msg \in [Ends -> MessageType] /\ left \in [Ends -> 0..MaxBody]
      /\ e = "server" => pc[e] # "until_close"
  BY EndTypes DEF ConnectionTypes, TypeOK, Receiving
<1>2. T \in Seq(TokenType) /\ Len(T) \in Nat /\ h \in 2..Len(T) /\ h \in Nat
  BY LenProperties DEF Frame
<1>3. /\ body \in Seq(TokenType) /\ Len(body) \in 0..MaxBody /\ Len(body) \in Nat
      /\ body # <<>> => Len(body) > 0
  BY <1>1, EmptySeq DEF Frame
<1> DEFINE b == Len(body)
<1>4. chunked => Len(T) = h + b + 4 /\ b > 0 /\ T[h + 1].kind = "size" /\ T[h + 1].arg = b
                 /\ T[h + b + 2].kind = "blank"
                 /\ T[h + b + 3].kind = "size" /\ T[h + b + 3].arg = 0
  BY <1>3 DEF Frame
<1>5. ~chunked => Len(T) = h + b
  BY DEF Frame
<1>6. c \in Nat
  BY DEF Reads
\* A read into an empty content that makes it the body.
<1>7. ASSUME NEW from \in Nat, c = from, left[e] = b, msg[e].content = <<>>, Read(e),
             Follows(T, from, body)
      PROVE  /\ from + b \in 0..Len(T) /\ Reads(e, T, from + b, all)'
             /\ wire' \in [Ends -> Seq(TokenType)]
             /\ left' \in [Ends -> 0..MaxBody] /\ left'[e] = 0
             /\ msg' \in [Ends -> MessageType]
             /\ msg'[e].start = msg[e].start /\ msg'[e].fields = msg[e].fields
             /\ msg'[e].content = body
  <2>1. PICK l \in Nat : l = b
    BY <1>3
  <2>2. /\ ConnectionTypes /\ e \in Ends /\ l = left[e] /\ Len(T) \in Nat
        /\ body \in Seq(TokenType) /\ Len(body) = l /\ Follows(T, from, body)
        /\ msg[e].content = <<>> /\ Reads(e, T, from, all) /\ Read(e)
    BY <1>2, <1>3, <1>7, <2>1
  <2>3. /\ from + l \in 0..Len(T)
        /\ Reads(e, T, from + l, all)'
        /\ wire' \in [Ends -> Seq(TokenType)]
        /\ left' = [left EXCEPT ![e] = 0]
        /\ msg' \in [Ends -> MessageType]
        /\ msg'[e].start = msg[e].start /\ msg'[e].fields = msg[e].fields
        /\ msg'[e].content = body
    <3>1. ConnectionTypes /\ e \in Ends /\ l = left[e] /\ l \in Nat /\ Len(T) \in Nat
      BY ONLY <2>1, <2>2
    <3>2. body \in Seq(TokenType) /\ Len(body) = l /\ Follows(T, from, body)
      BY ONLY <2>1, <2>2
    <3>3. msg[e].content = <<>> /\ Reads(e, T, from, all) /\ Read(e)
      BY ONLY <2>1, <2>2
    <3>4. msg'[e].content = body
      BY ONLY <3>1, <3>2, <3>3, TakesUnits
    <3>5. from + l \in 0..Len(T)
      BY ONLY <3>1, <3>2, <3>3, TakesUnits
    <3>6. Reads(e, T, from + l, all)'
      BY ONLY <3>1, <3>2, <3>3, TakesUnits
    <3>7. /\ wire' \in [Ends -> Seq(TokenType)]
          /\ left' = [left EXCEPT ![e] = 0]
          /\ msg' \in [Ends -> MessageType]
          /\ msg'[e].start = msg[e].start /\ msg'[e].fields = msg[e].fields
      BY ONLY <3>1, <3>2, <3>3, TakesUnits
    <3> QED
      BY ONLY <3>4, <3>5, <3>6, <3>7
  <2>4. left' \in [Ends -> 0..MaxBody] /\ left'[e] = 0
    BY <1>1, <2>3
  <2>5. from + b \in 0..Len(T) /\ Reads(e, T, from + b, all)'
    BY ONLY <2>1, <2>3
  <2> QED
    BY <2>3, <2>4, <2>5
\* A line that is taken changes no message.
<1>8. ASSUME NEW kinds, Getline(e, kinds)
      PROVE  /\ c + 1 \in 1..Len(T) /\ c + 1 \in 0..Len(T) /\ Head(wire[e]) = T[c + 1]
             /\ Reads(e, T, c + 1, all)' /\ wire' \in [Ends -> Seq(TokenType)]
  <2>1. /\ c + 1 \in 1..Len(T) /\ Head(wire[e]) = T[c + 1]
        /\ Reads(e, T, c + 1, all)' /\ wire' \in [Ends -> Seq(TokenType)]
    BY <1>2, <1>8, TakesALine
  <2> QED
    BY <1>2, <2>1
<1>9. CASE RecvBody(e)
  <2>1. /\ pc[e] = "body" /\ ~chunked /\ c = h /\ left[e] = b /\ msg[e].content = <<>>
        /\ msg[e].start = <<T[1]>> /\ msg[e].fields = {T[i] : i \in 2..(h - 1)}
        /\ Read(e) /\ pc' = [pc EXCEPT ![e] = "have"]
    BY <1>9 DEF RecvBody, Parsed
  <2>2. Follows(T, h, body)
    BY <2>1 DEF Frame, Follows
  <2>3. /\ h + b \in 0..Len(T) /\ Reads(e, T, h + b, all)'
        /\ wire' \in [Ends -> Seq(TokenType)]
        /\ left' \in [Ends -> 0..MaxBody] /\ left'[e] = 0
        /\ msg' \in [Ends -> MessageType]
        /\ msg'[e].start = msg[e].start /\ msg'[e].fields = msg[e].fields
        /\ msg'[e].content = body
    BY <1>2, <1>7, <2>1, <2>2
  <2>4. pc' \in [Ends -> Receiving \cup {"idle", "have", "closed"}] /\ pc'[e] = "have"
    BY <1>1, <2>1
  <2>5. Parsed(e, T, h, body, chunked, h + b)'
    BY <1>5, <2>1, <2>3, <2>4 DEF Parsed
  <2> QED
    BY <2>3, <2>4, <2>5 DEF EndTyped
<1>10. CASE RecvSize(e)
  <2> DEFINE size == IF Head(wire[e]).kind = "size" THEN Head(wire[e]).arg ELSE 0
  <2>1. /\ pc[e] = "size" /\ chunked
        /\ msg[e].start = <<T[1]>> /\ msg[e].fields = {T[i] : i \in 2..(h - 1)}
        /\ \/ c = h /\ msg[e].content = <<>>
           \/ c = h + b + 2 /\ msg[e].content = body
    BY <1>10 DEF RecvSize, Parsed
  <2>2. /\ pc' = [pc EXCEPT ![e] = IF size > 0 THEN "chunk" ELSE "have"]
        /\ left' = [left EXCEPT ![e] = size] /\ UNCHANGED msg
        /\ Getline(e, Lines)
    BY <1>10 DEF RecvSize
  <2>3. /\ c + 1 \in 0..Len(T) /\ Head(wire[e]) = T[c + 1]
        /\ Reads(e, T, c + 1, all)' /\ wire' \in [Ends -> Seq(TokenType)]
    BY <1>8, <2>2
  <2>4. CASE c = h /\ msg[e].content = <<>>
    <3>1. size = b
      BY <1>4, <2>1, <2>3, <2>4
    <3>2. /\ pc'[e] = "chunk" /\ left'[e] = b
          /\ pc' \in [Ends -> Receiving \cup {"idle", "have", "closed"}]
          /\ left' \in [Ends -> 0..MaxBody]
      BY <1>1, <1>3, <1>4, <2>1, <2>2, <3>1 DEF Receiving
    <3>3. Parsed(e, T, h, body, chunked, c + 1)'
      BY <2>1, <2>2, <2>4, <3>2 DEF Parsed, Receiving
    <3> QED
      BY <1>1, <2>2, <2>3, <3>2, <3>3 DEF EndTyped, Receiving
  <2>5. CASE c = h + b + 2 /\ msg[e].content = body
    <3>1. c + 1 = h + b + 3
      BY <1>2, <1>3, <2>5
    <3>2. size = 0
      BY <1>4, <2>1, <2>3, <3>1
    <3>3. /\ pc'[e] = "have" /\ left'[e] = 0
          /\ pc' \in [Ends -> Receiving \cup {"idle", "have", "closed"}]
          /\ left' \in [Ends -> 0..MaxBody]
      BY <1>1, <2>1, <2>2, <3>2 DEF Receiving
    <3>4. Parsed(e, T, h, body, chunked, c + 1)'
      BY <2>1, <2>2, <2>5, <3>3 DEF Parsed, Receiving
    <3> QED
      BY <1>1, <2>2, <2>3, <3>3, <3>4 DEF EndTyped, Receiving
  <2> QED
    BY <2>1, <2>4, <2>5
<1>11. CASE RecvChunk(e)
  <2>1. /\ pc[e] = "chunk" /\ chunked /\ c = h + 1 /\ left[e] = b /\ msg[e].content = <<>>
        /\ msg[e].start = <<T[1]>> /\ msg[e].fields = {T[i] : i \in 2..(h - 1)}
        /\ Read(e) /\ UNCHANGED pc
    BY <1>11 DEF RecvChunk, Parsed
  <2>2. Follows(T, h + 1, body)
    BY <2>1 DEF Frame, Follows
  <2>3. /\ (h + 1) + b \in 0..Len(T) /\ Reads(e, T, (h + 1) + b, all)'
        /\ wire' \in [Ends -> Seq(TokenType)]
        /\ left' \in [Ends -> 0..MaxBody] /\ left'[e] = 0
        /\ msg' \in [Ends -> MessageType]
        /\ msg'[e].start = msg[e].start /\ msg'[e].fields = msg[e].fields
        /\ msg'[e].content = body
    <3>1. h + 1 \in Nat
      BY <1>2
    <3> QED
      BY <1>7, <2>1, <2>2, <3>1
  <2>4. Parsed(e, T, h, body, chunked, (h + 1) + b)'
    BY <2>1, <2>3 DEF Parsed, Receiving
  <2> QED
    BY <1>1, <2>1, <2>3, <2>4 DEF EndTyped, Receiving
<1>12. CASE RecvChunkEnd(e)
  <2>1. /\ pc[e] = "chunk" /\ chunked /\ left[e] = 0
        /\ msg[e].start = <<T[1]>> /\ msg[e].fields = {T[i] : i \in 2..(h - 1)}
        /\ c = h + 1 + b /\ msg[e].content = body
    BY <1>4, <1>12 DEF RecvChunkEnd, Parsed
  <2>2. /\ pc' = [pc EXCEPT ![e] = "size"] /\ UNCHANGED <<msg, left>> /\ Getline(e, Lines)
    BY <1>12 DEF RecvChunkEnd
  <2>3. /\ c + 1 \in 0..Len(T)
        /\ Reads(e, T, c + 1, all)' /\ wire' \in [Ends -> Seq(TokenType)]
    BY <1>8, <2>2
  <2>4. c + 1 = h + b + 2
    BY <1>2, <1>3, <2>1
  <2>5. /\ pc'[e] = "size" /\ pc' \in [Ends -> Receiving \cup {"idle", "have", "closed"}]
    BY <1>1, <2>2 DEF Receiving
  <2>6. Parsed(e, T, h, body, chunked, c + 1)'
    BY <2>1, <2>2, <2>4, <2>5 DEF Parsed, Receiving
  <2> QED
    BY <1>1, <2>2, <2>3, <2>5, <2>6 DEF EndTyped, Receiving
<1> QED
  BY <1>9, <1>10, <1>11, <1>12

\* A step that takes tokens of a message leaves its end in that message, and the
\* other end as it was.
LEMMA MessageStep ==
  ASSUME ConnectionTypes, NEW e \in Ends, NEW T, NEW body, NEW chunked \in BOOLEAN,
         NEW all \in BOOLEAN, InMessage(e, T, body, chunked, all), Takes(e)
  PROVE  InMessage(e, T, body, chunked, all)' /\ EndTyped(e)
<1>1. PICK h \in 2..Len(T), c \in 0..Len(T) :
         Frame(T, h, body, chunked) /\ Reads(e, T, c, all) /\ Parsed(e, T, h, body, chunked, c)
  BY DEF InMessage
<1>2. CASE RecvStartLine(e) \/ RecvHeader(e) \/ RecvBlank(e)
  BY <1>1, <1>2, HeaderStep DEF InMessage
<1>3. CASE RecvBody(e) \/ RecvSize(e) \/ RecvChunk(e) \/ RecvChunkEnd(e)
  BY <1>1, <1>3, BodyStep DEF InMessage
<1> QED
  BY <1>2, <1>3 DEF Takes

\* What the steps that take tokens leave alone.
LEMMA TakesElsewhere ==
  ASSUME ConnectionTypes, NEW e \in Ends, Takes(e)
  PROVE  /\ UNCHANGED <<failed, calls, results, handled, answers>>
         /\ \A d \in Ends : d # e =>
               pc'[d] = pc[d] /\ msg'[d] = msg[d] /\ left'[d] = left[d] /\ wire'[d] = wire[d]
         /\ pc[e] \in Receiving \ {"until_close"}
<1>1. DOMAIN pc = Ends /\ DOMAIN msg = Ends /\ DOMAIN left = Ends /\ DOMAIN wire = Ends
  BY EndTypes
<1> QED
  BY <1>1 DEF Takes, RecvStartLine, RecvHeader, RecvBlank, RecvBody, RecvSize, RecvChunk,
     RecvChunkEnd, Getline, Read, historyVars, Receiving, ConnectionTypes, TypeOK


\* What is unchanged of an end stays what it was.
LEMMA InMessageStays ==
  ASSUME NEW e \in Ends, NEW T, NEW body, NEW chunked, NEW all \in BOOLEAN, NEW still \in BOOLEAN,
         InMessage(e, T, body, chunked, all), still => all,
         pc'[e] = pc[e], msg'[e] = msg[e], left'[e] = left[e], wire'[e] = wire[e]
  PROVE  InMessage(e, T, body, chunked, still)'
<1>1. PICK h \in 2..Len(T), c \in 0..Len(T) :
         Frame(T, h, body, chunked) /\ Reads(e, T, c, all) /\ Parsed(e, T, h, body, chunked, c)
  BY DEF InMessage
<1>2. Reads(e, T, c, still)'
  BY <1>1 DEF Reads
<1>3. Parsed(e, T, h, body, chunked, c)'
  BY <1>1 DEF Parsed
<1> QED
  BY <1>1, <1>2, <1>3 DEF InMessage

\* A message, or its beginning, that is sent to an end that waits for one.
LEMMA Begun ==
  ASSUME NEW e \in Ends, NEW T, NEW h, NEW body, NEW chunked, NEW all, NEW k \in 0..Len(T),
         Frame(T, h, body, chunked), wire'[e] = SubSeq(T, 1, k), all => k = Len(T),
         pc'[e] = "start", msg'[e] = NewMessage
  PROVE  InMessage(e, T, body, chunked, all)'
<1>1. T \in Seq(TokenType) /\ h \in 2..Len(T)
  BY DEF Frame
<1>2. /\ Len(T) \in Nat /\ Len(SubSeq(T, 1, k)) = k
      /\ \A i \in 1..k : SubSeq(T, 1, k)[i] = T[i]
  BY ONLY <1>1, k \in 0..Len(T), Parts
<1> DEFINE v == wire'[e]
<1>3. Len(v) = k /\ \A i \in 1..k : v[i] = T[i]
  BY <1>2
<1> HIDE DEF v
<1>4. \A i \in 1..k : 0 + i = i
  BY <1>2
<1>5. 0 \in 0..Len(T) /\ 0 + k = k /\ k <= Len(T)
  BY <1>2
<1>6. Reads(e, T, 0, all)'
  BY <1>3, <1>4, <1>5 DEF Reads, v
<1>7. Parsed(e, T, h, body, chunked, 0)'
  BY DEF Parsed, Receiving
<1> QED
  BY <1>1, <1>5, <1>6, <1>7 DEF InMessage

\* An end that has all of a message to itself does not block before its end.
LEMMA BlocksAtTheEnd ==
  ASSUME ConnectionTypes, NEW e \in Ends, NEW T, NEW body, NEW chunked,
         InMessage(e, T, body, chunked, TRUE), Blocked(e)
  PROVE  pc[e] = "until_close" /\ body \in Seq(TokenType) /\ Len(body) = 0
<1>1. PICK h \in 2..Len(T), c \in 0..Len(T) :
         Frame(T, h, body, chunked) /\ Reads(e, T, c, TRUE) /\ Parsed(e, T, h, body, chunked, c)
  BY DEF InMessage
<1> DEFINE w == Len(wire[e])
           t == Len(T)
           b == Len(body)
<1>2. /\ t \in Nat /\ h \in 2..t /\ c \in 0..t /\ b \in Nat /\ w \in Nat
      /\ wire[e] = <<>> => w = 0
  <2>1. T \in Seq(TokenType) /\ body \in Seq(TokenType) /\ wire[e] \in Seq(TokenType)
    BY <1>1 DEF Frame, ConnectionTypes, TypeOK
  <2> QED
    BY <2>1, LenProperties
<1>3. c + w = t
  BY <1>1 DEF Reads
<1>4. (~chunked => t = h + b) /\ (chunked => t = h + b + 4 /\ b # 0)
  <2>1. chunked => body # <<>>
    BY <1>1 DEF Frame
  <2>2. body \in Seq(TokenType) /\ (body # <<>> => b # 0)
    BY <1>1, EmptySeq DEF Frame
  <2> QED
    BY <1>1, <2>1, <2>2 DEF Frame
<1>5. pc[e] \in Receiving /\ IF pc[e] = "body" \/ (pc[e] = "chunk" /\ left[e] > 0)
                             THEN w < left[e] ELSE wire[e] = <<>>
  BY DEF Blocked
<1> HIDE DEF w, t, b
<1>6. pc[e] # "start"
  <2> SUFFICES ASSUME pc[e] = "start" PROVE FALSE
    OBVIOUS
  <2>1. c = 0
    BY <1>1 DEF Parsed
  <2> QED
    BY <1>2, <1>3, <1>5, <2>1
<1>7. pc[e] # "headers"
  <2> SUFFICES ASSUME pc[e] = "headers" PROVE FALSE
    OBVIOUS
  <2>1. c \in 1..(h - 1)
    BY <1>1 DEF Parsed
  <2> QED
    BY <1>2, <1>3, <1>5, <2>1
<1>8. pc[e] # "body"
  <2> SUFFICES ASSUME pc[e] = "body" PROVE FALSE
    OBVIOUS
  <2>1. ~chunked /\ c = h /\ left[e] = b
    BY <1>1 DEF Parsed, b
  <2> QED
    BY <1>2, <1>3, <1>4, <1>5, <2>1
<1>9. pc[e] # "size"
  <2> SUFFICES ASSUME pc[e] = "size" PROVE FALSE
    OBVIOUS
  <2>1. chunked /\ (c = h \/ c = h + b + 2)
    BY <1>1 DEF Parsed, b
  <2> QED
    BY <1>2, <1>3, <1>4, <1>5, <2>1
<1>10. pc[e] # "chunk"
  <2> SUFFICES ASSUME pc[e] = "chunk" PROVE FALSE
    OBVIOUS
  <2>1. chunked /\ ((c = h + 1 /\ left[e] = b) \/ (c = h + 1 + b /\ left[e] = 0))
    BY <1>1 DEF Parsed, b
  <2>2. CASE c = h + 1 /\ left[e] = b
    BY <1>2, <1>3, <1>4, <1>5, <2>1, <2>2
  <2>3. CASE c = h + 1 + b /\ left[e] = 0
    BY <1>2, <1>3, <1>4, <1>5, <2>1, <2>3
  <2> QED
    BY <2>1, <2>2, <2>3
<1>11. pc[e] = "until_close"
  BY <1>5, <1>6, <1>7, <1>8, <1>9, <1>10 DEF Receiving
<1>12. body \in Seq(TokenType) /\ body = <<>>
  BY <1>1, <1>11 DEF Parsed, Frame
<1> QED
  BY <1>11, <1>12

-----------------------------------------------------------------------------
(* The ends *)

\* The server that takes tokens takes them from the request after those it has
\* handled.
LEMMA ServerTakes ==
  ASSUME ConnectionTypes, ServerReads, Takes("server")
  PROVE  ServerReads' /\ EndTyped("server") /\ pc.server # "closed"
<1> DEFINE n == Len(handled) + 1
<1>1. /\ UNCHANGED <<failed, calls, results, handled, answers>>
      /\ pc.server \in Receiving \ {"until_close"}
  BY TakesElsewhere DEF Ends
<1>2. pc.server # "closed"
  BY <1>1 DEF Receiving
<1>3. ~(pc.server = "start" /\ wire.server = <<>>)
  BY DEF Takes, RecvStartLine, RecvHeader, RecvBlank, RecvBody, RecvSize, RecvChunk,
     RecvChunkEnd, Getline
<1>4. /\ n <= Len(calls) /\ (~failed.client => Len(calls) = n)
      /\ InMessage("server", Request(n, calls[n]), Body("client", n, calls[n].size),
                   calls[n].chunked, ~failed.client)
  BY <1>2, <1>3 DEF ServerReads
<1>5. calls[n].chunked \in BOOLEAN /\ (~failed.client) \in BOOLEAN
  <2>1. n \in 1..Len(calls) /\ calls \in Seq(Requests)
    <3>1. handled \in Seq(MessageType) /\ calls \in Seq(Requests)
      BY DEF ConnectionTypes, TypeOK
    <3>2. Len(handled) \in Nat /\ Len(calls) \in Nat
      BY <3>1, LenProperties
    <3> QED
      BY <1>4, <3>1, <3>2
  <2>2. calls[n] \in Requests
    BY <2>1, ElementOfSeq
  <2> QED
    BY <2>2 DEF Requests
<1>6a. PICK T : T = Request(n, calls[n])
  OBVIOUS
<1>6b. PICK body : body = Body("client", n, calls[n].size)
  OBVIOUS
<1>6c. PICK chunked \in BOOLEAN : chunked = calls[n].chunked
  BY <1>5
<1>6d. PICK all \in BOOLEAN : all = ~failed.client
  BY <1>5
<1>6. /\ T = Request(n, calls[n]) /\ body = Body("client", n, calls[n].size)
      /\ chunked = calls[n].chunked /\ all = ~failed.client
  BY <1>6a, <1>6b, <1>6c, <1>6d
<1>7. InMessage("server", T, body, chunked, all)
  BY <1>4, <1>6
<1>8. InMessage("server", T, body, chunked, all)' /\ EndTyped("server")
  BY <1>7, MessageStep DEF Ends
<1>9. /\ T = Request(n, calls[n])' /\ body = Body("client", n, calls[n].size)'
      /\ chunked = calls[n].chunked' /\ all = (~failed.client)' /\ n' = n
  BY <1>1, <1>6
<1>10. ServerReads'
  BY <1>1, <1>4, <1>8, <1>9 DEF ServerReads
<1> QED
  BY <1>2, <1>8, <1>10

\* The lengths of the histories.
LEMMA Lengths ==
  ASSUME ConnectionTypes
  PROVE  /\ Len(calls) \in Nat /\ Len(handled) \in Nat /\ Len(answers) = Len(handled)
         /\ Len(results) \in Nat
         /\ \A n \in 1..Len(calls) : calls[n] \in Requests
<1>1. /\ calls \in Seq(Requests) /\ handled \in Seq(MessageType) /\ results \in Seq(Result)
      /\ Len(answers) = Len(handled)
  BY DEF ConnectionTypes, TypeOK
<1>2. \A n \in 1..Len(calls) : calls[n] \in Requests
  BY <1>1, ElementOfSeq
<1> QED
  BY <1>1, <1>2, LenProperties

\* Nothing that the client does afterwards takes a request from the server.
LEMMA ServerStays ==
  ASSUME ConnectionTypes, ServerReads, handled' = handled, Len(calls') \in Nat,
         Len(calls') >= Len(calls), \A n \in 1..Len(calls) : calls'[n] = calls[n],
         ~failed'.client => ~failed.client /\ calls' = calls,
         pc'.server = pc.server, msg'.server = msg.server, left'.server = left.server,
         wire'.server = wire.server
  PROVE  ServerReads'
<1> DEFINE n == Len(handled) + 1
<1> SUFFICES ASSUME pc.server # "closed" PROVE ServerReads'
  BY DEF ServerReads
<1>1. /\ Len(calls) \in Nat /\ n \in Nat \ {0}
      /\ \A i \in 1..Len(calls) : calls[i] \in Requests
  BY Lengths
<1>2. CASE /\ pc.server = "start" /\ msg.server = NewMessage /\ wire.server = <<>>
           /\ ~failed.client => Len(calls) = Len(handled)
  BY <1>2 DEF ServerReads
<1>3. CASE /\ n <= Len(calls) /\ (~failed.client => Len(calls) = n)
           /\ InMessage("server", Request(n, calls[n]), Body("client", n, calls[n].size),
                        calls[n].chunked, ~failed.client)
  <2>1. n \in 1..Len(calls) /\ calls'[n] = calls[n] /\ n <= Len(calls') /\ n' = n
    BY <1>1, <1>3
  <2>2. PICK T : T = Request(n, calls[n])
    OBVIOUS
  <2>3. PICK body : body = Body("client", n, calls[n].size)
    OBVIOUS
  <2>4. PICK chunked : chunked = calls[n].chunked
    OBVIOUS
  <2>5. failed \in [Ends -> BOOLEAN]
    BY DEF ConnectionTypes, TypeOK
  <2>6. PICK all \in BOOLEAN : all = ~failed.client
    BY <2>5 DEF Ends
  <2>7. PICK still \in BOOLEAN : still = ~failed'.client
    OBVIOUS
  <2>8. InMessage("server", T, body, chunked, all)
    BY <1>3, <2>2, <2>3, <2>4, <2>6
  <2>9. still => all
    BY <2>6, <2>7
  <2>10. InMessage("server", T, body, chunked, still)'
    BY <2>8, <2>9, InMessageStays DEF Ends
  <2>11. /\ T = Request(n, calls[n])' /\ body = Body("client", n, calls[n].size)'
         /\ chunked = calls[n].chunked' /\ still = (~failed.client)'
    BY <2>1, <2>2, <2>3, <2>4, <2>7
  <2>12. (~failed.client => Len(calls) = n)'
    BY <1>3, <2>1
  <2> QED
    BY <2>1, <2>10, <2>11, <2>12 DEF ServerReads
<1> QED
  BY <1>2, <1>3 DEF ServerReads

\* Nothing that the server does without answering takes the answer from the client.
LEMMA ClientStays ==
  ASSUME ConnectionTypes, ClientReads, UNCHANGED <<calls, handled, answers>>,
         failed'.client = failed.client, pc'.server # "closed" => pc.server # "closed",
         pc'.client = pc.client, msg'.client = msg.client, left'.client = left.client,
         wire'.client = wire.client
  PROVE  ClientReads'
<1> DEFINE n == Len(calls)
<1> SUFFICES ASSUME ~failed.client PROVE ClientReads'
  BY DEF ClientReads
<1>1. CASE pc.client = "idle" /\ wire.client = <<>> /\ Len(handled) = n
  BY <1>1 DEF ClientReads
<1>2. CASE /\ pc.client = "start" /\ msg.client = NewMessage /\ wire.client = <<>>
           /\ Len(handled) = n - 1
  BY <1>2 DEF ClientReads
<1>3. CASE /\ n > 0 /\ Len(handled) = n
           /\ \E size \in 0..MaxBody, keep_alive \in BOOLEAN :
                /\ answers[n] = Body("server", n, size)
                /\ InMessage("client", Response(n, size, keep_alive), answers[n], FALSE,
                             pc.server # "closed")
  <2>1. PICK size \in 0..MaxBody, keep_alive \in BOOLEAN :
                /\ answers[n] = Body("server", n, size)
                /\ InMessage("client", Response(n, size, keep_alive), answers[n], FALSE,
                             pc.server # "closed")
    BY <1>3
  <2>2. PICK T : T = Response(n, size, keep_alive)
    OBVIOUS
  <2>3. PICK body : body = answers[n]
    OBVIOUS
  <2>4. PICK all \in BOOLEAN : all = (pc.server # "closed")
    OBVIOUS
  <2>5. PICK still \in BOOLEAN : still = (pc'.server # "closed")
    OBVIOUS
  <2>6. InMessage("client", T, body, FALSE, all)
    BY <2>1, <2>2, <2>3, <2>4
  <2>7. still => all
    BY <2>4, <2>5
  <2>8. InMessage("client", T, body, FALSE, still)'
    BY <2>6, <2>7, InMessageStays DEF Ends
  <2>9. /\ T = Response(n, size, keep_alive)' /\ body = answers[n]'
        /\ still = (pc.server # "closed")' /\ n' = n
    BY <2>2, <2>3, <2>5
  <2> QED
    BY <1>3, <2>1, <2>8, <2>9 DEF ClientReads
<1> QED
  BY <1>1, <1>2, <1>3 DEF ClientReads

\* The client that takes tokens takes them from the answer to its call.
LEMMA ClientTakes ==
  ASSUME ConnectionTypes, CallsInv, ClientReads, Takes("client")
  PROVE  /\ ClientReads' /\ EndTyped("client") /\ pc.client \in Receiving
         /\ pc'.client = "have" =>
              Len(calls) \in 1..Len(answers) /\ msg'.client.content = answers[Len(calls)]
<1> DEFINE n == Len(calls)
<1>1. /\ UNCHANGED <<failed, calls, results, handled, answers>>
      /\ pc.client \in Receiving \ {"until_close"} /\ pc'.server = pc.server
  BY TakesElsewhere DEF Ends
<1>2. ~failed.client
  BY <1>1 DEF CallsInv
<1>3. ~(pc.client = "start" /\ wire.client = <<>>) /\ pc.client # "idle"
  BY DEF Takes, RecvStartLine, RecvHeader, RecvBlank, RecvBody, RecvSize, RecvChunk,
     RecvChunkEnd, Getline
<1>4. PICK size \in 0..MaxBody, keep_alive \in BOOLEAN :
        /\ n > 0 /\ Len(handled) = n
        /\ answers[n] = Body("server", n, size)
        /\ InMessage("client", Response(n, size, keep_alive), answers[n], FALSE,
                     pc.server # "closed")
  BY <1>2, <1>3 DEF ClientReads
<1>5. PICK T : T = Response(n, size, keep_alive)
  OBVIOUS
<1>6. PICK body : body = answers[n]
  OBVIOUS
<1>7. PICK all \in BOOLEAN : all = (pc.server # "closed")
  OBVIOUS
<1>8. InMessage("client", T, body, FALSE, all)
  BY <1>4, <1>5, <1>6, <1>7
<1>9. InMessage("client", T, body, FALSE, all)' /\ EndTyped("client")
  BY <1>8, MessageStep DEF Ends
<1>10. /\ T = Response(n, size, keep_alive)' /\ body = answers[n]'
       /\ all = (pc.server # "closed")' /\ n' = n
  BY <1>1, <1>5, <1>6, <1>7
<1>11. ClientReads'
  BY <1>1, <1>4, <1>9, <1>10 DEF ClientReads
<1>12. pc'.client = "have" => msg'.client.content = body
  BY <1>9 DEF InMessage, Parsed
<1>13. n \in 1..Len(answers)
  BY <1>4, Lengths
<1> QED
  BY <1>1, <1>6, <1>9, <1>11, <1>12, <1>13

-----------------------------------------------------------------------------
(* The steps *)

\* What is said of the histories alone.
LEMMA HistoriesStay ==
  ASSUME HInv, UNCHANGED <<calls, results, handled, answers>>, TypeOK'
  PROVE  RequestsIntact' /\ AnswersMatch'
BY DEF HInv, RequestsIntact, AnswersMatch, Has

\* A step that takes tokens.
LEMMA TakesStep ==
  ASSUME HInv, NEW e \in Ends, Takes(e)
  PROVE  HInv'
<1>1. ConnectionTypes /\ CallsInv /\ ServerReads /\ ClientReads
  BY DEF HInv
<1>2. /\ UNCHANGED <<failed, calls, results, handled, answers>>
      /\ \A d \in Ends : d # e =>
            pc'[d] = pc[d] /\ msg'[d] = msg[d] /\ left'[d] = left[d] /\ wire'[d] = wire[d]
  BY <1>1, TakesElsewhere
<1>3. EndTyped(e)
  BY <1>1, ServerTakes, ClientTakes DEF Ends
<1>4. TypeOK'
  <2>1. /\ pc'.client \in Receiving \cup {"idle", "have"}
        /\ pc'.server \in (Receiving \ {"until_close"}) \cup {"have", "closed"}
    BY <1>1, <1>2, <1>3 DEF EndTyped, ConnectionTypes, TypeOK, Ends, Receiving
  <2> QED
    BY <1>1, <1>2, <1>3, <2>1 DEF EndTyped, ConnectionTypes, TypeOK
<1>5. ConnectionTypes'
  BY <1>1, <1>2, <1>3, <1>4 DEF EndTyped, ConnectionTypes
<1>6. RequestsIntact' /\ AnswersMatch'
  BY <1>2, <1>4, HistoriesStay
<1>7. CASE e = "server"
  <2>1. /\ ServerReads' /\ pc.server # "closed"
    BY <1>1, <1>7, ServerTakes
  <2>2. /\ pc'.client = pc.client /\ msg'.client = msg.client /\ left'.client = left.client
        /\ wire'.client = wire.client
    BY <1>2, <1>7 DEF Ends
  <2>3. ClientReads'
    BY <1>1, <1>2, <2>1, <2>2, ClientStays
  <2>4. CallsInv'
    BY <1>1, <1>2, <2>2 DEF CallsInv
  <2> QED
    BY <1>5, <1>6, <2>1, <2>3, <2>4 DEF HInv
<1>8. CASE e = "client"
  <2>1. /\ ClientReads' /\ EndTyped("client") /\ pc.client \in Receiving
        /\ pc'.client = "have" =>
              Len(calls) \in 1..Len(answers) /\ msg'.client.content = answers[Len(calls)]
    BY <1>1, <1>8, ClientTakes
  <2>2. /\ pc'.server = pc.server /\ msg'.server = msg.server /\ left'.server = left.server
        /\ wire'.server = wire.server
    BY <1>2, <1>8 DEF Ends
  <2>3. ServerReads'
    BY <1>1, <1>2, <2>2, Lengths, ServerStays
  <2>4. pc.client # "idle" /\ pc'.client # "idle" /\ ~failed.client
    BY <1>1, <2>1 DEF EndTyped, Receiving, CallsInv
  <2>5. CallsInv'
    BY <1>1, <1>2, <2>1, <2>4 DEF CallsInv
  <2> QED
    BY <1>5, <1>6, <2>1, <2>3, <2>5 DEF HInv
<1> QED
  BY <1>7, <1>8 DEF Ends

\* The server fails to receive, or refuses the request, and closes.
LEMMA ServerCloses ==
  ASSUME HInv, RecvFails("server") \/ Refuse
  PROVE  HInv'
<1>1. ConnectionTypes /\ CallsInv /\ ClientReads
  BY DEF HInv
<1>2. /\ UNCHANGED <<wire, msg, left, calls, results, handled, answers>>
      /\ pc' = [pc EXCEPT !["server"] = "closed"]
      /\ failed' = [failed EXCEPT !["server"] = failed'["server"]]
      /\ failed' \in [Ends -> BOOLEAN] /\ failed'.client = failed.client
  <2>1. failed \in [Ends -> BOOLEAN]
    BY <1>1 DEF ConnectionTypes, TypeOK
  <2> QED
    BY <2>1 DEF RecvFails, Refuse, historyVars, Ends
<1>3. /\ pc'.server = "closed" /\ pc'.client = pc.client
      /\ pc' \in [Ends -> Receiving \cup {"idle", "have", "closed"}]
  BY <1>1, <1>2 DEF ConnectionTypes, Ends
<1>4. TypeOK'
  BY <1>1, <1>2, <1>3 DEF ConnectionTypes, TypeOK
<1>5. ConnectionTypes'
  BY <1>1, <1>2, <1>3, <1>4 DEF ConnectionTypes
<1>6. RequestsIntact' /\ AnswersMatch'
  BY <1>2, <1>4, HistoriesStay
<1>7. ServerReads'
  BY <1>3 DEF ServerReads
<1>8. ClientReads'
  BY <1>1, <1>2, <1>3, ClientStays
<1>9. CallsInv'
  BY <1>1, <1>2, <1>3 DEF CallsInv
<1> QED
  BY <1>5, <1>6, <1>7, <1>8, <1>9 DEF HInv

\* One more result.
LEMMA OneMoreResult ==
  ASSUME ConnectionTypes, NEW r \in Result, results' = Append(results, r)
  PROVE  /\ results' \in Seq(Result) /\ Len(results') = Len(results) + 1
         /\ \A n \in 1..Len(results) : results'[n] = results[n]
         /\ results'[Len(results) + 1] = r
<1>1. results \in Seq(Result)
  BY DEF ConnectionTypes
<1> QED
  BY <1>1, AppendProperties

\* The client fails to receive: its call fails and its stream is of no use.
LEMMA ClientFails ==
  ASSUME HInv, RecvFails("client")
  PROVE  HInv'
<1>1. ConnectionTypes /\ CallsInv /\ ServerReads
  BY DEF HInv
<1>2. /\ UNCHANGED <<wire, msg, left, calls, handled, answers>>
      /\ pc.client \in Receiving
      /\ pc' = [pc EXCEPT !["client"] = "idle"]
      /\ failed' = [failed EXCEPT !["client"] = TRUE]
      /\ results' = Append(results, [ok |-> FALSE])
  BY DEF RecvFails
<1>3. /\ pc'.client = "idle" /\ pc'.server = pc.server
      /\ pc' \in [Ends -> Receiving \cup {"idle", "have", "closed"}]
      /\ failed' \in [Ends -> BOOLEAN] /\ failed'.client
  BY <1>1, <1>2 DEF ConnectionTypes, TypeOK, Ends
<1>4. [ok |-> FALSE] \in Result /\ ~[ok |-> FALSE].ok
  BY DEF Result
<1>5. PICK r \in Result : r = [ok |-> FALSE]
  BY <1>4
<1>6. /\ results' \in Seq(Result) /\ Len(results') = Len(results) + 1
      /\ \A n \in 1..Len(results) : results'[n] = results[n]
      /\ results'[Len(results) + 1] = r
  BY <1>1, <1>2, <1>5, OneMoreResult
<1>7. /\ Len(calls) \in Nat /\ Len(results) \in Nat /\ Len(results') = Len(calls)
  BY <1>1, <1>2, <1>6, Lengths DEF CallsInv, Receiving
<1>8. TypeOK'
  BY <1>1, <1>2, <1>3, <1>7 DEF ConnectionTypes, TypeOK
<1>9. ConnectionTypes'
  BY <1>1, <1>2, <1>3, <1>6, <1>8 DEF ConnectionTypes
<1>10. RequestsIntact'
  BY <1>2 DEF HInv, RequestsIntact, Has
<1>11. AnswersMatch'
  <2>1. SUFFICES ASSUME NEW n \in 1..Len(results'), results'[n].ok
                 PROVE  n <= Len(answers) /\ results'[n].content = answers[n]
    BY <1>2, <1>8 DEF AnswersMatch
  <2>2. n # Len(results) + 1
    BY <1>4, <1>5, <1>6, <2>1
  <2>3. n \in 1..Len(results) /\ results'[n] = results[n]
    BY <1>6, <1>7, <2>2
  <2> QED
    BY <2>1, <2>3 DEF HInv, AnswersMatch
<1>12. ServerReads'
  <2>1. pc'.server = pc.server /\ msg'.server = msg.server /\ left'.server = left.server
        /\ wire'.server = wire.server /\ Len(calls') \in Nat /\ Len(calls') >= Len(calls)
    BY <1>2, <1>3, <1>7
  <2> QED
    BY <1>1, <1>2, <1>3, <2>1, ServerStays
<1>13. ClientReads'
  BY <1>3 DEF ClientReads
<1>14. CallsInv'
  BY <1>1, <1>2, <1>3, <1>7 DEF CallsInv, Receiving
<1> QED
  BY <1>9, <1>10, <1>11, <1>12, <1>13, <1>14 DEF HInv

\* Read until close ends, by the close or by a failure.  The answer is empty, so
\* there is nothing to read.
LEMMA UntilClose ==
  ASSUME HInv, ReadUntilClose("client")
  PROVE  HInv'
<1> DEFINE n == Len(calls)
<1>1. ConnectionTypes /\ CallsInv /\ ServerReads /\ ClientReads
  BY DEF HInv
<1>2. /\ UNCHANGED <<left, calls, results, handled, answers>>
      /\ pc.client = "until_close"
      /\ pc' = [pc EXCEPT !["client"] = "have"]
      /\ failed' = [failed EXCEPT !["client"] = TRUE]
  BY DEF ReadUntilClose, historyVars
<1>3. PICK k \in 0..Len(wire.client) :
       /\ msg' = [msg EXCEPT !["client"].content = @ \o SubSeq(wire.client, 1, k)]
       /\ wire' = [wire EXCEPT !["client"] = SubSeq(@, k + 1, Len(@))]
  BY DEF ReadUntilClose
<1>4. ~failed.client /\ pc.client \in Receiving
  BY <1>1, <1>2 DEF CallsInv, Receiving
<1>5. PICK size \in 0..MaxBody, keep_alive \in BOOLEAN :
        /\ n > 0 /\ Len(handled) = n
        /\ answers[n] = Body("server", n, size)
        /\ InMessage("client", Response(n, size, keep_alive), answers[n], FALSE,
                     pc.server # "closed")
  BY <1>1, <1>2, <1>4 DEF ClientReads
<1>6. PICK T, h, c :
        /\ T \in Seq(TokenType) /\ Reads("client", T, c, pc.server # "closed")
        /\ Parsed("client", T, h, answers[n], FALSE, c)
  BY <1>5 DEF InMessage, Frame
<1>7. c = Len(T) /\ answers[n] = <<>> /\ msg.client.content = <<>>
  BY <1>2, <1>6 DEF Parsed
<1>8. wire.client = <<>>
  <2>1. wire.client \in Seq(TokenType)
    BY <1>1 DEF ConnectionTypes, TypeOK, Ends
  <2>2. Len(wire.client) \in Nat /\ Len(T) \in Nat
    BY <1>6, <2>1, LenProperties
  <2>3. c + Len(wire.client) <= Len(T)
    BY <1>6 DEF Reads
  <2> QED
    BY <1>7, <2>1, <2>2, <2>3, EmptySeq
<1>9. k = 0 /\ SubSeq(wire.client, 1, k) = <<>> /\ SubSeq(wire.client, k + 1, Len(wire.client)) = <<>>
  <2>1. Len(<<>>) = 0 /\ k = 0
    BY <1>3, <1>8
  <2> QED
    BY <1>8, <2>1
<1>10. msg' = msg /\ wire' = wire
  <2>1. wire \in [Ends -> Seq(TokenType)] /\ msg \in [Ends -> MessageType]
    BY <1>1 DEF ConnectionTypes, TypeOK
  <2>2. msg' = [msg EXCEPT !["client"].content = <<>>]
    <3>1. msg.client.content \o SubSeq(wire.client, 1, k) = <<>>
      BY <1>7, <1>9
    <3> QED
      BY <1>3, <3>1
  <2>3. msg.client \in MessageType
    BY <2>1 DEF Ends
  <2>4. [msg.client EXCEPT !.content = <<>>] = msg.client
    BY <1>7, <2>3 DEF MessageType
  <2>5. msg' = [msg EXCEPT !["client"] = msg.client]
    BY <2>2, <2>4
  <2>6. msg' = msg
    BY <2>1, <2>5 DEF Ends
  <2>7. wire' = [wire EXCEPT !["client"] = wire.client]
    BY <1>3, <1>8, <1>9
  <2>8. wire' = wire
    BY <2>1, <2>7 DEF Ends
  <2> QED
    BY <2>6, <2>8
<1>11. /\ pc'.client = "have" /\ pc'.server = pc.server
       /\ pc' \in [Ends -> Receiving \cup {"idle", "have", "closed"}]
       /\ failed' \in [Ends -> BOOLEAN] /\ failed'.client
  BY <1>1, <1>2 DEF ConnectionTypes, TypeOK, Ends
<1>12. TypeOK'
  BY <1>1, <1>2, <1>10, <1>11 DEF ConnectionTypes, TypeOK
<1>13. ConnectionTypes'
  BY <1>1, <1>2, <1>10, <1>11, <1>12 DEF ConnectionTypes
<1>14. RequestsIntact' /\ AnswersMatch'
  BY <1>2, <1>12, HistoriesStay
<1>15. ServerReads'
  <2>1. Len(calls') \in Nat /\ Len(calls') >= Len(calls)
    BY <1>1, <1>2, Lengths
  <2> QED
    BY <1>1, <1>2, <1>10, <1>11, <2>1, ServerStays
<1>16. ClientReads'
  BY <1>11 DEF ClientReads
<1>17. CallsInv'
  <2>1. n \in 1..Len(answers)
    BY <1>1, <1>5, Lengths
  <2> QED
    BY <1>1, <1>2, <1>7, <1>10, <1>11, <2>1 DEF CallsInv, Receiving
<1> QED
  BY <1>13, <1>14, <1>15, <1>16, <1>17 DEF HInv

\* The server never reads until close.
LEMMA ServerNeverReadsUntilClose ==
  ASSUME HInv
  PROVE  ~ReadUntilClose("server")
BY DEF HInv, ConnectionTypes, TypeOK, ReadUntilClose, Receiving

\* The call returns what the client has.
LEMMA ReturnStep ==
  ASSUME HInv, Return
  PROVE  HInv'
<1> DEFINE n == Len(calls)
<1>1. ConnectionTypes /\ CallsInv /\ ServerReads /\ ClientReads
  BY DEF HInv
<1>2. /\ UNCHANGED <<wire, msg, left, failed, calls, handled, answers>>
      /\ pc.client = "have"
      /\ pc' = [pc EXCEPT !["client"] = "idle"]
      /\ results' = Append(results, [ok |-> TRUE, content |-> msg.client.content])
  BY DEF Return
<1>3. /\ pc'.client = "idle" /\ pc'.server = pc.server
      /\ pc' \in [Ends -> Receiving \cup {"idle", "have", "closed"}]
  BY <1>1, <1>2 DEF ConnectionTypes, Ends
<1>4. msg.client.content \in Seq(TokenType)
  BY <1>1 DEF ConnectionTypes, MessageType, Ends
<1>5. PICK r \in Result : r = [ok |-> TRUE, content |-> msg.client.content]
  BY <1>4 DEF Result
<1>6. /\ results' \in Seq(Result) /\ Len(results') = Len(results) + 1
      /\ \A i \in 1..Len(results) : results'[i] = results[i]
      /\ results'[Len(results) + 1] = r
  BY <1>1, <1>2, <1>5, OneMoreResult
<1>7. /\ n \in Nat /\ Len(results) \in Nat /\ Len(results') = n /\ Len(results) = n - 1
      /\ Len(answers) \in Nat /\ Len(handled) \in Nat
      /\ n \in 1..Len(answers) /\ msg.client.content = answers[n]
  BY <1>1, <1>2, <1>6, Lengths DEF CallsInv, Receiving
<1>8. TypeOK'
  BY <1>1, <1>2, <1>3, <1>7 DEF ConnectionTypes, TypeOK
<1>9. ConnectionTypes'
  BY <1>1, <1>2, <1>3, <1>6, <1>8 DEF ConnectionTypes
<1>10. RequestsIntact'
  BY <1>2 DEF HInv, RequestsIntact, Has
<1>11. AnswersMatch'
  <2>1. SUFFICES ASSUME NEW i \in 1..Len(results'), results'[i].ok
                 PROVE  i <= Len(answers) /\ results'[i].content = answers[i]
    BY <1>2, <1>8 DEF AnswersMatch
  <2>2. CASE i = n
    BY <1>5, <1>6, <1>7, <2>2
  <2>3. CASE i # n
    <3>1. i \in 1..Len(results) /\ results'[i] = results[i]
      BY <1>6, <1>7, <2>3
    <3> QED
      BY <2>1, <3>1 DEF HInv, AnswersMatch
  <2> QED
    BY <2>2, <2>3
<1>12. ServerReads'
  <2>1. pc'.server = pc.server /\ msg'.server = msg.server /\ left'.server = left.server
        /\ wire'.server = wire.server /\ Len(calls') \in Nat /\ Len(calls') >= Len(calls)
    BY <1>2, <1>3, <1>7
  <2> QED
    BY <1>1, <1>2, <1>3, <2>1, ServerStays
<1>13. ~failed.client => wire.client = <<>> /\ Len(handled) = n
  <2> SUFFICES ASSUME ~failed.client PROVE wire.client = <<>> /\ Len(handled) = n
    OBVIOUS
  <2>1. PICK size \in 0..MaxBody, keep_alive \in BOOLEAN :
          /\ n > 0 /\ Len(handled) = n
          /\ InMessage("client", Response(n, size, keep_alive), answers[n], FALSE,
                       pc.server # "closed")
    BY <1>1, <1>2 DEF ClientReads
  <2>2. PICK T, h, c :
          /\ T \in Seq(TokenType) /\ Reads("client", T, c, pc.server # "closed")
          /\ Parsed("client", T, h, answers[n], FALSE, c)
    BY <2>1 DEF InMessage, Frame
  <2>3. c = Len(T)
    BY <1>2, <2>2 DEF Parsed
  <2>4. wire.client \in Seq(TokenType)
    BY <1>1 DEF ConnectionTypes, TypeOK, Ends
  <2>5. Len(wire.client) \in Nat /\ Len(T) \in Nat
    BY <2>2, <2>4, LenProperties
  <2>6. c + Len(wire.client) <= Len(T)
    BY <2>2 DEF Reads
  <2>7. wire.client = <<>>
    BY <2>3, <2>4, <2>5, <2>6, EmptySeq
  <2> QED
    BY <2>1, <2>7
<1>14. ClientReads'
  BY <1>2, <1>3, <1>13 DEF ClientReads
<1>15. CallsInv'
  BY <1>1, <1>2, <1>3, <1>7 DEF CallsInv, Receiving
<1> QED
  BY <1>9, <1>10, <1>11, <1>12, <1>14, <1>15 DEF HInv

\* One more request, and what it leaves of the histories.
LEMMA OneMoreRequest ==
  ASSUME HInv, NEW r \in Requests, calls' = Append(calls, r), handled' = handled
  PROVE  /\ calls' \in Seq(Requests) /\ Len(calls') = Len(calls) + 1 /\ Len(calls) \in Nat
         /\ \A n \in 1..Len(calls) : calls'[n] = calls[n]
         /\ calls'[Len(calls) + 1] = r
         /\ RequestsIntact'
<1>1. ConnectionTypes /\ calls \in Seq(Requests) /\ RequestsIntact
  BY DEF HInv, ConnectionTypes, TypeOK
<1>2. /\ calls' \in Seq(Requests) /\ Len(calls') = Len(calls) + 1 /\ Len(calls) \in Nat
      /\ \A n \in 1..Len(calls) : calls'[n] = calls[n]
      /\ calls'[Len(calls) + 1] = r
  BY <1>1, Lengths, AppendProperties
<1>3. Len(handled) \in Nat /\ \A n \in 1..Len(handled) : n \in 1..Len(calls)
  BY <1>1, <1>2, Lengths DEF RequestsIntact
<1>4. RequestsIntact'
  BY <1>1, <1>2, <1>3 DEF RequestsIntact, Has
<1> QED
  BY <1>2, <1>4

\* All of the request is on its way to the server, which waits for it.
LEMMA CallSent ==
  ASSUME HInv, NEW r \in Requests, ~failed.client, pc.client = "idle",
         calls' = Append(calls, r), UNCHANGED <<failed, left, results, handled, answers>>,
         Send("client", Request(Len(calls) + 1, r), Len(Request(Len(calls) + 1, r))),
         pc' = [pc EXCEPT !.client = "start"], msg' = [msg EXCEPT !.client = NewMessage]
  PROVE  HInv'
<1> DEFINE n == Len(calls) + 1
<1>1. ConnectionTypes /\ CallsInv /\ ServerReads /\ ClientReads /\ AnswersMatch
  BY DEF HInv
<1>2. /\ calls' \in Seq(Requests) /\ Len(calls') = n /\ Len(calls) \in Nat
      /\ \A i \in 1..Len(calls) : calls'[i] = calls[i]
      /\ calls'[n] = r /\ RequestsIntact'
  BY OneMoreRequest
<1>3. wire.client = <<>> /\ Len(handled) = Len(calls)
  <2>1. \A T, body, all : ~InMessage("client", T, body, FALSE, all)
    <3> SUFFICES ASSUME NEW T, NEW body, NEW all, InMessage("client", T, body, FALSE, all)
                 PROVE  FALSE
      OBVIOUS
    <3>1. PICK h, c : Parsed("client", T, h, body, FALSE, c)
      BY DEF InMessage
    <3>2. pc.client \in Receiving \cup {"have"}
      BY <3>1 DEF Parsed
    <3> QED
      BY <3>2 DEF Receiving
  <2> QED
    BY <1>1, <2>1 DEF ClientReads
<1>4. PICK T : T = Request(n, r)
  OBVIOUS
<1>5. PICK body : body = Body("client", n, r.size)
  OBVIOUS
<1>6. PICK h : /\ Frame(T, h, body, r.chunked)
  <2>1. n \in Nat
    BY <1>2
  <2>2. \E h \in 2..Len(Request(n, r)) :
          Frame(Request(n, r), h, Body("client", n, r.size), r.chunked)
    <3>1. PICK m \in Nat : m = n
      BY <2>1
    <3>2. \E h \in 2..Len(Request(m, r)) :
            Frame(Request(m, r), h, Body("client", m, r.size), r.chunked)
      BY RequestFrame
    <3> QED
      BY <3>1, <3>2
  <2> QED
    BY <1>4, <1>5, <2>2
<1>7. T \in Seq(TokenType) /\ Len(T) \in Nat
  BY <1>6, LenProperties DEF Frame
<1>8. wire' = [wire EXCEPT !["server"] = wire.server \o SubSeq(T, 1, Len(T))]
  BY <1>4 DEF Send, Other
<1>9. /\ wire.server \o SubSeq(T, 1, Len(T)) \in Seq(TokenType)
      /\ wire \in [Ends -> Seq(TokenType)]
  <2>1. wire.server \in Seq(TokenType) /\ SubSeq(T, 1, Len(T)) \in Seq(TokenType)
    BY <1>1, <1>7 DEF ConnectionTypes, TypeOK, Ends
  <2> QED
    BY <1>1, <2>1, ConcatProperties DEF ConnectionTypes, TypeOK
<1>10. /\ wire' \in [Ends -> Seq(TokenType)] /\ wire'.client = <<>>
       /\ wire'.server = wire.server \o SubSeq(T, 1, Len(T))
  BY <1>3, <1>8, <1>9 DEF Ends
<1>11. /\ pc'.client = "start" /\ pc'.server = pc.server
       /\ pc' \in [Ends -> Receiving \cup {"idle", "have", "closed"}]
       /\ msg'.client = NewMessage /\ msg'.server = msg.server
       /\ msg' \in [Ends -> MessageType]
  <2>1. NewMessage \in MessageType
    BY DEF NewMessage, MessageType
  <2> QED
    BY <1>1, <2>1 DEF ConnectionTypes, Ends, Receiving
<1>12. Len(results) = Len(calls) /\ Len(results) = Len(calls') - 1
  BY <1>1, <1>2 DEF CallsInv
<1>13. TypeOK'
  BY <1>1, <1>2, <1>10, <1>11, <1>12 DEF ConnectionTypes, TypeOK, Receiving
<1>14. ConnectionTypes'
  BY <1>1, <1>11, <1>13 DEF ConnectionTypes
<1>15. AnswersMatch'
  BY <1>1, <1>13 DEF AnswersMatch
<1>16. ServerReads'
  <2> SUFFICES ASSUME pc.server # "closed" PROVE ServerReads'
    BY <1>11 DEF ServerReads
  <2>1. pc.server = "start" /\ msg.server = NewMessage /\ wire.server = <<>>
    BY <1>1, <1>2, <1>3 DEF ServerReads
  <2>2. wire'.server = SubSeq(T, 1, Len(T))
    <3>1. SubSeq(T, 1, Len(T)) \in Seq(TokenType)
      BY <1>7
    <3>2. <<>> \o SubSeq(T, 1, Len(T)) = SubSeq(T, 1, Len(T))
      BY <3>1, ConcatEmptySeq
    <3> QED
      BY <1>10, <2>1, <3>2
  <2>3. PICK all \in BOOLEAN : all = ~failed.client
    OBVIOUS
  <2>4. PICK chunked : chunked = r.chunked
    OBVIOUS
  <2>5. InMessage("server", T, body, chunked, all)'
    <3>1. PICK k \in 0..Len(T) : k = Len(T)
      BY <1>7
    <3>2. wire'["server"] = SubSeq(T, 1, k) /\ pc'["server"] = "start"
          /\ msg'["server"] = NewMessage /\ (all => k = Len(T))
      BY <1>11, <2>1, <2>2, <3>1
    <3>3. Frame(T, h, body, chunked)
      BY <1>6, <2>4
    <3> QED
      BY <3>2, <3>3, Begun DEF Ends
  <2>6. /\ (Len(handled) + 1)' = n
        /\ T = Request(n, calls'[n]) /\ body = Body("client", n, calls'[n].size)
        /\ chunked = calls'[n].chunked /\ all = (~failed.client)' /\ n <= Len(calls')
    BY <1>2, <1>3, <1>4, <1>5, <2>3, <2>4
  <2>7. (~failed.client => Len(calls) = Len(handled) + 1)'
    BY <1>2, <1>3
  <2>8. handled' = handled /\ Len(handled) + 1 = n
    BY <1>3
  <2> QED
    BY <1>2, <2>5, <2>6, <2>7, <2>8 DEF ServerReads
<1>17. ClientReads'
  BY <1>2, <1>3, <1>10, <1>11 DEF ClientReads
<1>18. CallsInv'
  <2>1. Len(handled') <= Len(calls')
    BY <1>2, <1>3
  <2> QED
    BY <1>11, <1>12, <2>1 DEF CallsInv
<1> QED
  BY <1>2, <1>14, <1>15, <1>16, <1>17, <1>18 DEF HInv

\* None or a part of the request is on its way to the server, and no other will be.
LEMMA CallNotSent ==
  ASSUME HInv, NEW r \in Requests, pc.client = "idle",
         calls' = Append(calls, r), UNCHANGED <<pc, msg, left, handled, answers>>,
         IF failed.client THEN UNCHANGED wire
         ELSE \E k \in 0..(Len(Request(Len(calls) + 1, r)) - 1) :
                Send("client", Request(Len(calls) + 1, r), k),
         failed' = [failed EXCEPT !.client = TRUE],
         results' = Append(results, [ok |-> FALSE])
  PROVE  HInv'
<1> DEFINE n == Len(calls) + 1
<1>1. ConnectionTypes /\ CallsInv /\ ServerReads /\ ClientReads /\ AnswersMatch
  BY DEF HInv
<1>2. /\ calls' \in Seq(Requests) /\ Len(calls') = n /\ Len(calls) \in Nat
      /\ \A i \in 1..Len(calls) : calls'[i] = calls[i]
      /\ calls'[n] = r /\ RequestsIntact'
  BY OneMoreRequest
<1>3. failed' \in [Ends -> BOOLEAN] /\ failed'.client
  BY <1>1 DEF ConnectionTypes, TypeOK, Ends
<1>4. [ok |-> FALSE] \in Result /\ ~[ok |-> FALSE].ok
  BY DEF Result
<1>5. PICK one \in Result : one = [ok |-> FALSE]
  BY <1>4
<1>6. /\ results' \in Seq(Result) /\ Len(results') = Len(results) + 1
      /\ \A i \in 1..Len(results) : results'[i] = results[i]
      /\ results'[Len(results) + 1] = one
  BY <1>1, <1>5, OneMoreResult
<1>7. Len(results) = Len(calls) /\ Len(results') = n
  BY <1>1, <1>6 DEF CallsInv
<1>8. PICK T : T = Request(n, r)
  OBVIOUS
<1>9. PICK body : body = Body("client", n, r.size)
  OBVIOUS
<1>10. PICK h : /\ Frame(T, h, body, r.chunked)
  <2>1. PICK m \in Nat : m = n
    BY <1>2
  <2>2. \E h \in 2..Len(Request(m, r)) :
          Frame(Request(m, r), h, Body("client", m, r.size), r.chunked)
    BY RequestFrame
  <2> QED
    BY <1>8, <1>9, <2>1, <2>2
<1>11. T \in Seq(TokenType) /\ Len(T) \in Nat
  BY <1>10, LenProperties DEF Frame
<1>12. wire \in [Ends -> Seq(TokenType)]
  BY <1>1 DEF ConnectionTypes, TypeOK
<1>13. \/ wire' = wire
       \/ ~failed.client /\ \E k \in 0..Len(T) :
            /\ wire' \in [Ends -> Seq(TokenType)] /\ wire'.client = wire.client
            /\ wire'.server = wire.server \o SubSeq(T, 1, k)
  <2>1. CASE failed.client
    BY <2>1
  <2>2. CASE ~failed.client
    <3>1. PICK k \in 0..(Len(T) - 1) :
            wire' = [wire EXCEPT !["server"] = wire.server \o SubSeq(T, 1, k)]
      BY <1>8, <2>2 DEF Send, Other
    <3>2. k \in 0..Len(T)
      BY <1>11, <3>1
    <3>3. wire.server \o SubSeq(T, 1, k) \in Seq(TokenType)
      <4>1. wire.server \in Seq(TokenType)
        BY <1>12 DEF Ends
      <4>2. SubSeq(T, 1, k) \in Seq(TokenType)
        BY ONLY <1>11, <3>2, Parts
      <4> QED
        BY <4>1, <4>2, ConcatProperties
    <3>4. /\ wire' \in [Ends -> Seq(TokenType)] /\ wire'.client = wire.client
          /\ wire'.server = wire.server \o SubSeq(T, 1, k)
      BY <1>12, <3>1, <3>3 DEF Ends
    <3> QED
      BY <2>2, <3>2, <3>4
  <2> QED
    BY <2>1, <2>2
<1>14. wire' \in [Ends -> Seq(TokenType)]
  BY <1>12, <1>13
<1>15. TypeOK'
  BY <1>1, <1>2, <1>3, <1>7, <1>14 DEF ConnectionTypes, TypeOK
<1>16. ConnectionTypes'
  BY <1>1, <1>6, <1>15 DEF ConnectionTypes
<1>17. AnswersMatch'
  <2>1. SUFFICES ASSUME NEW i \in 1..Len(results'), results'[i].ok
                 PROVE  i <= Len(answers) /\ results'[i].content = answers[i]
    BY <1>15 DEF AnswersMatch
  <2>2. i # Len(results) + 1
    BY <1>4, <1>5, <1>6, <2>1
  <2>3. i \in 1..Len(results) /\ results'[i] = results[i]
    BY <1>2, <1>6, <1>7, <2>2
  <2> QED
    BY <1>1, <2>1, <2>3 DEF AnswersMatch
<1>18. ServerReads'
  <2>1. CASE wire' = wire
    <3>1. Len(calls') \in Nat /\ Len(calls') >= Len(calls) /\ wire'.server = wire.server
      BY <1>2, <2>1
    <3> QED
      BY <1>1, <1>2, <1>3, <3>1, ServerStays
  <2>2. CASE ~failed.client /\ \E k \in 0..Len(T) :
              /\ wire' \in [Ends -> Seq(TokenType)] /\ wire'.client = wire.client
              /\ wire'.server = wire.server \o SubSeq(T, 1, k)
    <3> SUFFICES ASSUME pc.server # "closed" PROVE ServerReads'
      BY DEF ServerReads
    <3>1. PICK k \in 0..Len(T) : wire'.server = wire.server \o SubSeq(T, 1, k)
      BY <2>2
    <3>2. Len(handled) = Len(calls)
      <4>1. ASSUME NEW U, NEW b, NEW all, InMessage("client", U, b, FALSE, all)
            PROVE  FALSE
        <5>1. PICK k2, c : Parsed("client", U, k2, b, FALSE, c)
          BY <4>1 DEF InMessage
        <5>2. pc.client \in Receiving \cup {"have"}
          BY <5>1 DEF Parsed
        <5> QED
          BY <5>2 DEF Receiving
      <4> QED
        BY <1>1, <2>2, <4>1 DEF ClientReads
    <3>3. pc.server = "start" /\ msg.server = NewMessage /\ wire.server = <<>>
      BY <1>1, <1>2, <2>2, <3>2 DEF ServerReads
    <3>4. wire'.server = SubSeq(T, 1, k)
      <4>1. SubSeq(T, 1, k) \in Seq(TokenType)
        BY ONLY <1>11, k \in 0..Len(T), Parts
      <4>2. <<>> \o SubSeq(T, 1, k) = SubSeq(T, 1, k)
        BY <4>1, ConcatEmptySeq
      <4> QED
        BY <3>1, <3>3, <4>2
    <3>5. PICK chunked : chunked = r.chunked
      OBVIOUS
    <3>6. InMessage("server", T, body, chunked, FALSE)'
      <4>1. wire'["server"] = SubSeq(T, 1, k) /\ pc'["server"] = "start"
            /\ msg'["server"] = NewMessage /\ (FALSE => k = Len(T))
        BY <3>3, <3>4
      <4>2. Frame(T, h, body, chunked)
        BY <1>10, <3>5
      <4> QED
        BY <4>1, <4>2, Begun DEF Ends
    <3>7. /\ (Len(handled) + 1)' = n
          /\ T = Request(n, calls'[n]) /\ body = Body("client", n, calls'[n].size)
          /\ chunked = calls'[n].chunked /\ n <= Len(calls')
          /\ handled' = handled /\ Len(handled) + 1 = n
      BY <1>2, <1>8, <1>9, <3>2, <3>5
    <3>8. (~failed.client)' = FALSE
      BY <1>3
    <3> QED
      BY <1>3, <3>6, <3>7, <3>8 DEF ServerReads
  <2> QED
    BY <1>13, <2>1, <2>2
<1>19. ClientReads'
  BY <1>3 DEF ClientReads
<1>20. CallsInv'
  <2>1. Len(handled') <= Len(calls')
    BY <1>1, <1>2, Lengths DEF CallsInv
  <2> QED
    BY <1>1, <1>2, <1>7, <2>1 DEF CallsInv, Receiving
<1> QED
  BY <1>2, <1>16, <1>17, <1>18, <1>19, <1>20 DEF HInv

\* A call.
LEMMA CallStep ==
  ASSUME HInv, NEW r \in Requests, Call(r)
  PROVE  HInv'
<1>1. /\ pc.client = "idle" /\ calls' = Append(calls, r)
      /\ UNCHANGED <<left, handled, answers>>
  BY DEF Call
<1>2. CASE /\ ~failed.client
           /\ Send("client", Request(Len(calls) + 1, r), Len(Request(Len(calls) + 1, r)))
           /\ pc' = [pc EXCEPT !.client = "start"]
           /\ msg' = [msg EXCEPT !.client = NewMessage]
           /\ UNCHANGED <<failed, results>>
  BY <1>1, <1>2, CallSent
<1>3. CASE /\ IF failed.client THEN UNCHANGED wire
              ELSE \E k \in 0..(Len(Request(Len(calls) + 1, r)) - 1) :
                     Send("client", Request(Len(calls) + 1, r), k)
           /\ failed' = [failed EXCEPT !.client = TRUE]
           /\ results' = Append(results, [ok |-> FALSE])
           /\ UNCHANGED <<pc, msg>>
  BY <1>1, <1>3, CallNotSent
<1> QED
  BY <1>2, <1>3 DEF Call

\* The request the server has is the one the client sent.
LEMMA RequestHad ==
  ASSUME HInv, ~ChunkedKeepAlive, pc.server = "have"
  PROVE  LET n == Len(handled) + 1 IN
         /\ n \in 1..Len(calls) /\ (~failed.client => Len(calls) = n)
         /\ msg.server.start = <<Token("start", "client", n, 0)>>
         /\ msg.server.content = Body("client", n, calls[n].size)
         /\ Has(msg.server, "keep_alive") <=> calls[n].keep_alive
         /\ Has(msg.server, "keep_alive") => wire.server = <<>>
<1> DEFINE n == Len(handled) + 1
<1>1. ConnectionTypes /\ ServerReads
  BY DEF HInv
<1>2. /\ n <= Len(calls) /\ (~failed.client => Len(calls) = n)
      /\ InMessage("server", Request(n, calls[n]), Body("client", n, calls[n].size),
                   calls[n].chunked, ~failed.client)
  BY <1>1 DEF ServerReads
<1>3. /\ n \in Nat /\ n \in 1..Len(calls) /\ calls[n] \in Requests
  BY <1>1, <1>2, Lengths
<1>4. PICK m \in Nat : m = n
  BY <1>3
<1>5. PICK r \in Requests : r = calls[n]
  BY <1>3
<1>6. PICK T : T = Request(m, r)
  OBVIOUS
<1>7. PICK h, c :
        /\ Frame(T, h, Body("client", m, r.size), r.chunked)
        /\ Reads("server", T, c, ~failed.client)
        /\ Parsed("server", T, h, Body("client", m, r.size), r.chunked, c)
  BY <1>2, <1>4, <1>5, <1>6 DEF InMessage
<1>8. /\ msg.server.start = <<T[1]>>
      /\ msg.server.fields = {T[i] : i \in 2..(h - 1)}
      /\ msg.server.content = Body("client", m, r.size)
      /\ r.chunked \/ c = Len(T)
  BY <1>7 DEF Parsed, Receiving
<1>9. PICK k :
        /\ Frame(T, k, Body("client", m, r.size), r.chunked)
        /\ T[1] = Token("start", "client", m, 0)
        /\ r.keep_alive <=> \E i \in 2..(k - 1) : T[i].kind = "keep_alive"
  BY <1>6, RequestFrame
<1>10. h = k
  BY <1>7, <1>9, OneFrame
<1>11. Has(msg.server, "keep_alive") <=> r.keep_alive
  BY <1>8, <1>9, <1>10 DEF Has
<1>12. r.keep_alive => ~r.chunked
  BY DEF Requests
<1>13. c = Len(T) => wire.server = <<>>
  <2>1. T \in Seq(TokenType) /\ wire.server \in Seq(TokenType)
    BY <1>1, <1>7 DEF Frame, ConnectionTypes, TypeOK, Ends
  <2>2. Len(T) \in Nat /\ Len(wire.server) \in Nat
    BY <2>1, LenProperties
  <2>3. c + Len(wire.server) <= Len(T)
    BY <1>7 DEF Reads
  <2> QED
    BY <2>1, <2>2, <2>3, EmptySeq
<1>14. Has(msg.server, "keep_alive") => wire.server = <<>>
  BY <1>8, <1>11, <1>12, <1>13
<1> QED
  BY <1>2, <1>3, <1>4, <1>5, <1>8, <1>9, <1>11, <1>14

\* The server answers: the answer, or a part of it, is on its way to the client.
LEMMA AnswerStep ==
  ASSUME HInv, ~ChunkedKeepAlive, NEW size \in 0..MaxBody, Answer(size)
  PROVE  HInv'
<1> DEFINE n == Len(handled) + 1
<1>1. ConnectionTypes /\ CallsInv /\ ServerReads /\ ClientReads /\ RequestsIntact /\ AnswersMatch
  BY DEF HInv
<1>2. PICK keep_alive \in BOOLEAN : keep_alive <=> Has(msg.server, "keep_alive")
  OBVIOUS
<1>3. PICK m \in Nat : m = n
  BY <1>1, Lengths
<1>4. PICK T : T = Response(m, size, keep_alive)
  OBVIOUS
<1>5. T = Response(n, size, Has(msg.server, "keep_alive"))
  BY <1>2, <1>3, <1>4 DEF Has
<1>6. /\ pc.server = "have" /\ handled' = Append(handled, msg.server)
      /\ answers' = Append(answers, Body("server", n, size))
      /\ msg' = [msg EXCEPT !.server = NewMessage]
      /\ UNCHANGED <<left, failed, calls, results>>
  BY DEF Answer
<1>7. PICK k \in 0..Len(T) :
         /\ wire' = [wire EXCEPT !["client"] = wire.client \o SubSeq(T, 1, k)]
         /\ pc' = [pc EXCEPT !.server = IF keep_alive /\ k = Len(T) THEN "start" ELSE "closed"]
  BY <1>2, <1>5 DEF Answer, Send, Other
<1>8. /\ m \in 1..Len(calls) /\ (~failed.client => Len(calls) = m)
      /\ msg.server.start = <<Token("start", "client", m, 0)>>
      /\ msg.server.content = Body("client", m, calls[m].size)
      /\ keep_alive <=> calls[m].keep_alive
      /\ keep_alive => wire.server = <<>>
  BY <1>2, <1>3, <1>6, RequestHad
<1>9. PICK body \in Seq(TokenType) : body = Body("server", m, size)
  BY BodyUnits DEF Ends
<1>10. PICK h : Frame(T, h, body, FALSE)
  BY <1>4, <1>9, ResponseFrame
<1>11. T \in Seq(TokenType) /\ Len(T) \in Nat
  BY <1>10, LenProperties DEF Frame
<1>12. /\ handled' \in Seq(MessageType) /\ Len(handled') = m /\ Len(handled) = m - 1
       /\ \A i \in 1..Len(handled) : handled'[i] = handled[i]
       /\ handled'[m] = msg.server
  <2>1. handled \in Seq(MessageType) /\ msg.server \in MessageType
    BY <1>1 DEF ConnectionTypes, Ends
  <2> QED
    BY <1>1, <1>3, <1>6, <2>1, Lengths, AppendProperties
<1>13. /\ answers' \in Seq(Seq(TokenType)) /\ Len(answers') = m /\ Len(answers) = m - 1
       /\ \A i \in 1..Len(answers) : answers'[i] = answers[i]
       /\ answers'[m] = body
  <2>1. answers \in Seq(Seq(TokenType)) /\ Len(answers) = Len(handled)
    BY <1>1 DEF ConnectionTypes, TypeOK
  <2> QED
    BY <1>3, <1>6, <1>9, <1>12, <2>1, AppendProperties
<1>14. /\ wire' \in [Ends -> Seq(TokenType)] /\ wire'.server = wire.server
       /\ wire'.client = wire.client \o SubSeq(T, 1, k)
       /\ SubSeq(T, 1, k) \in Seq(TokenType)
  <2>1. wire \in [Ends -> Seq(TokenType)] /\ wire.client \in Seq(TokenType)
    BY <1>1 DEF ConnectionTypes, TypeOK, Ends
  <2>2. SubSeq(T, 1, k) \in Seq(TokenType)
    BY ONLY <1>11, k \in 0..Len(T), Parts
  <2>3. wire.client \o SubSeq(T, 1, k) \in Seq(TokenType)
    BY <2>1, <2>2, ConcatProperties
  <2> QED
    BY <1>7, <2>1, <2>2, <2>3 DEF Ends
<1>15. /\ pc'.client = pc.client /\ pc'.server \in {"start", "closed"}
       /\ pc'.server # "closed" => keep_alive /\ k = Len(T)
       /\ pc' \in [Ends -> Receiving \cup {"idle", "have", "closed"}]
       /\ msg'.client = msg.client /\ msg'.server = NewMessage
       /\ msg' \in [Ends -> MessageType]
  <2>1. NewMessage \in MessageType
    BY DEF NewMessage, MessageType
  <2> QED
    BY <1>1, <1>6, <1>7, <2>1 DEF ConnectionTypes, Ends, Receiving
<1>16. TypeOK'
  BY <1>1, <1>6, <1>12, <1>13, <1>14, <1>15 DEF ConnectionTypes, TypeOK, Receiving
<1>17. ConnectionTypes'
  BY <1>1, <1>6, <1>12, <1>13, <1>15, <1>16 DEF ConnectionTypes
<1>18. RequestsIntact'
  <2> SUFFICES ASSUME NEW i \in 1..Len(handled')
               PROVE  /\ i <= Len(calls)
                      /\ handled'[i].start = <<Token("start", "client", i, 0)>>
                      /\ handled'[i].content = Body("client", i, calls[i].size)
                      /\ Has(handled'[i], "keep_alive") <=> calls[i].keep_alive
    BY <1>6 DEF RequestsIntact, Has
  <2>1. CASE i = m
    BY <1>2, <1>8, <1>12, <2>1 DEF Has
  <2>2. CASE i # m
    <3>1. i \in 1..Len(handled) /\ handled'[i] = handled[i]
      BY <1>12, <2>2
    <3> QED
      BY <1>1, <3>1 DEF RequestsIntact, Has
  <2> QED
    BY <2>1, <2>2
<1>19. AnswersMatch'
  <2> SUFFICES ASSUME NEW i \in 1..Len(results), results[i].ok
               PROVE  i <= Len(answers') /\ results[i].content = answers'[i]
    BY <1>6, <1>16 DEF AnswersMatch
  <2>1. i <= Len(answers) /\ results[i].content = answers[i]
    BY <1>1 DEF AnswersMatch
  <2>2. i \in 1..Len(answers)
    BY <1>13, <2>1
  <2> QED
    BY <1>13, <2>1, <2>2
<1>20. ServerReads'
  <2> SUFFICES ASSUME pc'.server # "closed" PROVE ServerReads'
    BY DEF ServerReads
  <2>1. pc'.server = "start" /\ msg'.server = NewMessage /\ wire'.server = <<>>
    BY <1>8, <1>14, <1>15
  <2>2. ~failed'.client => Len(calls') = Len(handled')
    BY <1>6, <1>8, <1>12
  <2> QED
    BY <2>1, <2>2 DEF ServerReads
<1>21. ClientReads'
  <2> SUFFICES ASSUME ~failed.client PROVE ClientReads'
    BY <1>6 DEF ClientReads
  <2>1. Len(calls) = m /\ m > 0
    BY <1>8
  <2>2. pc.client = "start" /\ msg.client = NewMessage /\ wire.client = <<>>
    <3>1. Len(handled) # Len(calls)
      BY <1>12, <2>1
    <3> QED
      BY <1>1, <3>1 DEF ClientReads
  <2>3. wire'.client = SubSeq(T, 1, k)
    <3>1. <<>> \o SubSeq(T, 1, k) = SubSeq(T, 1, k)
      BY <1>14, ConcatEmptySeq
    <3> QED
      BY <1>14, <2>2, <3>1
  <2>4. PICK all \in BOOLEAN : all = (pc'.server # "closed")
    OBVIOUS
  <2>5. InMessage("client", T, body, FALSE, all)'
    <3>1. wire'["client"] = SubSeq(T, 1, k) /\ pc'["client"] = "start"
          /\ msg'["client"] = NewMessage /\ (all => k = Len(T))
      BY <1>15, <2>2, <2>3, <2>4
    <3> QED
      BY <1>10, <3>1, Begun DEF Ends
  <2>6. Len(calls') = m /\ Len(handled') = m /\ answers'[m] = body
    BY <1>6, <1>12, <1>13, <2>1
  <2> QED
    BY <1>4, <1>9, <2>1, <2>4, <2>5, <2>6 DEF ClientReads
<1>22. CallsInv'
  <2>1. pc.client = "have" => Len(calls) \in 1..Len(answers) /\ msg.client.content = answers[Len(calls)]
    BY <1>1 DEF CallsInv
  <2>2. pc.client = "have" => Len(calls) \in 1..Len(answers') /\ msg.client.content = answers'[Len(calls)]
    BY <1>13, <2>1
  <2>3. Len(handled') <= Len(calls)
    BY <1>8, <1>12
  <2> QED
    BY <1>1, <1>6, <1>15, <2>2, <2>3 DEF CallsInv
<1> QED
  BY <1>17, <1>18, <1>19, <1>20, <1>21, <1>22 DEF HInv

-----------------------------------------------------------------------------
(* The theorems *)

\* Init holds the invariant.
LEMMA InitHolds == Init => HInv
<1> SUFFICES ASSUME Init PROVE HInv
  OBVIOUS
<1>1. /\ wire = [e \in Ends |-> <<>>] /\ pc = [client |-> "idle", server |-> "start"]
      /\ msg = [e \in Ends |-> NewMessage] /\ left = [e \in Ends |-> 0]
      /\ failed = [e \in Ends |-> FALSE]
      /\ calls = <<>> /\ results = <<>> /\ handled = <<>> /\ answers = <<>>
  BY DEF Init
<1>2. NewMessage \in MessageType
  BY DEF NewMessage, MessageType
<1>3. pc \in [Ends -> Receiving \cup {"idle", "have", "closed"}]
  BY <1>1 DEF Ends, Receiving
<1>4. Len(calls) = 0 /\ Len(results) = 0 /\ Len(handled) = 0 /\ Len(answers) = 0
  BY <1>1
<1>5. TypeOK
  BY <1>1, <1>4, ConnectionAssumption DEF TypeOK, Receiving
<1>6. ConnectionTypes
  BY <1>1, <1>2, <1>3, <1>5 DEF ConnectionTypes
<1>7. CallsInv
  BY <1>1, <1>4 DEF CallsInv, Receiving
<1>8. ServerReads /\ ClientReads
  BY <1>1, <1>4 DEF ServerReads, ClientReads, Ends
<1>9. RequestsIntact /\ AnswersMatch
  BY <1>4, <1>5 DEF RequestsIntact, AnswersMatch
<1> QED
  BY <1>6, <1>7, <1>8, <1>9 DEF HInv

\* Every step keeps it.
LEMMA StepHolds ==
  ASSUME ~ChunkedKeepAlive
  PROVE  HInv /\ [Next]_vars => HInv'
<1> SUFFICES ASSUME HInv, [Next]_vars PROVE HInv'
  OBVIOUS
<1>1. CASE UNCHANGED vars
  <2>1. ConnectionTypes /\ CallsInv /\ ServerReads /\ ClientReads
    BY DEF HInv
  <2>2. UNCHANGED <<wire, pc, msg, left, failed, calls, results, handled, answers>>
    BY <1>1 DEF vars, receiveVars, historyVars
  <2>3. TypeOK' /\ ConnectionTypes'
    BY <2>1, <2>2 DEF ConnectionTypes, TypeOK
  <2>4. RequestsIntact' /\ AnswersMatch'
    BY <2>2, <2>3, HistoriesStay
  <2>5. ServerReads'
    <3>1. Len(calls') \in Nat /\ Len(calls') >= Len(calls)
      BY <2>1, <2>2, Lengths
    <3> QED
      BY <2>1, <2>2, <3>1, ServerStays
  <2>6. ClientReads'
    BY <2>1, <2>2, ClientStays
  <2>7. CallsInv'
    BY <2>1, <2>2 DEF CallsInv
  <2> QED
    BY <2>3, <2>4, <2>5, <2>6, <2>7 DEF HInv
<1>2. ASSUME NEW e \in Ends, Receive(e)
      PROVE  HInv'
  <2>1. CASE Takes(e)
    BY <2>1, TakesStep
  <2>2. CASE RecvFails(e)
    BY <2>2, ServerCloses, ClientFails DEF Ends
  <2>3. CASE ReadUntilClose(e)
    BY <2>3, UntilClose, ServerNeverReadsUntilClose DEF Ends
  <2> QED
    BY <1>2, <2>1, <2>2, <2>3 DEF Receive, Takes
<1>3. ASSUME NEW r \in Requests, Call(r)
      PROVE  HInv'
  BY <1>3, CallStep
<1>4. CASE Return
  BY <1>4, ReturnStep
<1>5. CASE Refuse
  BY <1>5, ServerCloses
<1>6. ASSUME NEW size \in 0..MaxBody, Answer(size)
      PROVE  HInv'
  BY <1>6, AnswerStep
<1> QED
  BY <1>1, <1>2, <1>3, <1>4, <1>5, <1>6 DEF Next

\* As long as no client keeps the connection after a request sent in chunks, which
\* the client of this repository never does, either end always knows which message
\* it reads and how far it has read it.
LEMMA ConnectionInv ==
  ASSUME ~ChunkedKeepAlive
  PROVE  Spec => []HInv
<1>1. Init => HInv
  BY InitHolds
<1>2. HInv /\ [Next]_vars => HInv'
  BY StepHolds
<1> QED
  BY <1>1, <1>2, PTL DEF Spec

\* IOFunc handles the requests of a connection in their order, each at most once and
\* as it was sent, however many there are and however long their bodies: what
\* http_proto.cpp reads of one is never taken for a part of another, also when a
\* flush fails in the middle.
THEOREM RequestsArriveIntact ==
  ASSUME ~ChunkedKeepAlive
  PROVE  Spec => []RequestsIntact
<1>1. HInv => RequestsIntact
  BY DEF HInv
<1> QED
  BY <1>1, ConnectionInv, PTL

\* A call of HttpClient that returns 0 returns the answer to its own request, all of
\* it, also on a connection whose earlier calls failed or timed out.
THEOREM CallsGetTheirAnswers ==
  ASSUME ~ChunkedKeepAlive
  PROVE  Spec => []AnswersMatch
<1>1. HInv => AnswersMatch
  BY DEF HInv
<1> QED
  BY <1>1, ConnectionInv, PTL

\* Both ends wait for the other only after an empty answer to a request that keeps
\* the connection alive, which the client reads until close.
THEOREM StallsNeedAnEmptyAnswer ==
  ASSUME ~ChunkedKeepAlive
  PROVE  Spec => []OnlyEmptyAnswersStall
<1>1. HInv => OnlyEmptyAnswersStall
  <2> SUFFICES ASSUME HInv, Blocked("client"), Blocked("server")
               PROVE  pc.client = "until_close" /\ answers[Len(answers)] = <<>>
    BY DEF OnlyEmptyAnswersStall
  <2> DEFINE n == Len(calls)
             m == Len(handled) + 1
  <2>1. ConnectionTypes /\ CallsInv /\ ServerReads /\ ClientReads
    BY DEF HInv
  <2>2. pc.client \in Receiving /\ pc.server \in Receiving
    BY DEF Blocked
  <2>3. ~failed.client /\ pc.client # "idle" /\ pc.server # "closed" /\ pc.server # "until_close"
    BY <2>1, <2>2 DEF CallsInv, ConnectionTypes, TypeOK, Receiving
  <2>4. n \in Nat /\ Len(handled) \in Nat /\ Len(answers) = Len(handled)
        /\ \A i \in 1..n : calls[i] \in Requests
    BY <2>1, Lengths
  <2>5. ~(m <= n /\ InMessage("server", Request(m, calls[m]), Body("client", m, calls[m].size),
                              calls[m].chunked, ~failed.client))
    <3> SUFFICES ASSUME m <= n,
                        InMessage("server", Request(m, calls[m]), Body("client", m, calls[m].size),
                                  calls[m].chunked, ~failed.client)
                 PROVE  FALSE
      OBVIOUS
    <3>1. calls[m].chunked \in BOOLEAN
      BY <2>4 DEF Requests
    <3>2. PICK T : T = Request(m, calls[m])
      OBVIOUS
    <3>3. PICK body : body = Body("client", m, calls[m].size)
      OBVIOUS
    <3>4. PICK chunked \in BOOLEAN : chunked = calls[m].chunked
      BY <3>1
    <3>5. (~failed.client) = TRUE
      BY <2>3
    <3>6. InMessage("server", T, body, chunked, TRUE)
      BY <3>2, <3>3, <3>4, <3>5
    <3>7. pc["server"] = "until_close"
      BY <2>1, <3>6, BlocksAtTheEnd DEF Ends
    <3> QED
      BY <2>3, <3>7
  <2>6. n = Len(handled)
    BY <2>1, <2>3, <2>5 DEF ServerReads
  <2>7. PICK size \in 0..MaxBody, keep_alive \in BOOLEAN :
          InMessage("client", Response(n, size, keep_alive), answers[n], FALSE, pc.server # "closed")
    <3>1. Len(handled) # n - 1
      BY <2>4, <2>6
    <3> QED
      BY <2>1, <2>3, <3>1 DEF ClientReads
  <2>8. PICK T : T = Response(n, size, keep_alive)
    OBVIOUS
  <2>9. PICK body : body = answers[n]
    OBVIOUS
  <2>10. (pc.server # "closed") = TRUE
    BY <2>3
  <2>11. InMessage("client", T, body, FALSE, TRUE)
    BY <2>7, <2>8, <2>9, <2>10
  <2>12. pc["client"] = "until_close" /\ body = <<>>
    <3>1. "client" \in Ends /\ Blocked("client") /\ ConnectionTypes
      BY <2>1 DEF Ends
    <3>2. PICK chunked \in BOOLEAN : chunked = FALSE
      OBVIOUS
    <3>3. InMessage("client", T, body, chunked, TRUE)
      BY <2>11, <3>2
    <3>4. pc["client"] = "until_close" /\ body \in Seq(TokenType) /\ Len(body) = 0
      BY ONLY <3>1, <3>3, BlocksAtTheEnd
    <3> QED
      BY <3>4, EmptySeq
  <2> QED
    BY <2>4, <2>6, <2>9, <2>12
<1> QED
  BY <1>1, ConnectionInv, PTL
=============================================================================
