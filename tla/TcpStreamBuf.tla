---------------------------- MODULE TcpStreamBuf ----------------------------
(***************************************************************************)
(* BaseTcpStreamBuf of network/socket_stream_base.cpp: the put area of the *)
(* stream at one end of a connection and the get area of the stream at the *)
(* other.  UThreadTcpStreamBuf and BlockTcpStreamBuf differ in how psend   *)
(* and precv wait; both may take or deliver only a part, or fail.          *)
(*                                                                         *)
(* sync sends the put area in pieces and empties it only when all is sent; *)
(* when a piece fails the put area stays as it was, although its first     *)
(* pieces are on the wire.  What keeps them from being sent again is that  *)
(* the stream is bad() from then on, and no longer writes or flushes: a    *)
(* flush() of the standard library that calls sync on a bad() stream too,  *)
(* as those before LWG issue 581 did, would send them twice.               *)
(***************************************************************************)
EXTENDS Integers, Sequences

CONSTANTS
  Byte,
  None,         \* no byte
  buf_size_,    \* size of each area
  MaxWritten    \* bound of the model: bytes written

ASSUME StreamAssumption ==
  /\ None \notin Byte
  /\ buf_size_ \in Nat \ {0}
  /\ MaxWritten \in Nat

VARIABLES
  put,       \* the bytes from pbase() to pptr()
  sync_pc,   \* idle, or in sync: called by flush or by overflow
  sent,      \* sent of sync
  pending,   \* the argument of overflow, or None
  bad,       \* the writing stream is bad()
  net,       \* the bytes on the wire
  get,       \* the bytes from gptr() to egptr()
  ended,     \* the reading stream is at eof()
  written,   \* history: the bytes the writer has put into its stream
  flushed,   \* history: how many of them flush has reported as sent
  got        \* history: the bytes the reader has taken from its stream

writerVars == <<put, sync_pc, sent, pending, bad, written, flushed>>
readerVars == <<get, ended, got>>
bufVars == <<writerVars, net, readerVars>>

BufInit ==
  /\ put = <<>>
  /\ sync_pc = "idle"
  /\ sent = 0
  /\ pending = None
  /\ bad = FALSE
  /\ net = <<>>
  /\ get = <<>>
  /\ ended = FALSE
  /\ written = <<>>
  /\ flushed = 0
  /\ got = <<>>

-----------------------------------------------------------------------------
(* The writing stream *)

\* Mutant of Write: overflow is called one byte too late.
WriteBeyond(c) ==
  /\ ~bad
  /\ sync_pc = "idle"
  /\ Len(put) <= buf_size_
  /\ Len(written) < MaxWritten
  /\ put' = Append(put, c)
  /\ written' = Append(written, c)
  /\ UNCHANGED <<sync_pc, sent, pending, bad, flushed, net, readerVars>>

Write(c) ==
  /\ ~bad
  /\ sync_pc = "idle"
  /\ Len(put) < buf_size_
  /\ Len(written) < MaxWritten
  /\ put' = Append(put, c)
  /\ written' = Append(written, c)
  /\ UNCHANGED <<sync_pc, sent, pending, bad, flushed, net, readerVars>>

\* The put area is full: overflow(c) calls sync first.
Overflow(c) ==
  /\ ~bad
  /\ sync_pc = "idle"
  /\ Len(put) = buf_size_
  /\ Len(written) < MaxWritten
  /\ sync_pc' = "overflow"
  /\ pending' = c
  /\ sent' = 0
  /\ UNCHANGED <<put, bad, written, flushed, net, readerVars>>

Flush ==
  /\ ~bad
  /\ sync_pc = "idle"
  /\ sync_pc' = "flush"
  /\ sent' = 0
  /\ UNCHANGED <<put, pending, bad, written, flushed, net, readerVars>>

\* Mutant of PSend: the next piece starts at pbase() again.
PSendFromStart(ret) ==
  /\ sync_pc # "idle"
  /\ ret \in 1..(Len(put) - sent)
  /\ net' = net \o SubSeq(put, 1, ret)
  /\ sent' = sent + ret
  /\ UNCHANGED <<put, sync_pc, pending, bad, written, flushed, readerVars>>

\* psend(pbase() + sent, total - sent) takes ret bytes.
PSend(ret) ==
  /\ sync_pc # "idle"
  /\ ret \in 1..(Len(put) - sent)
  /\ net' = net \o SubSeq(put, sent + 1, sent + ret)
  /\ sent' = sent + ret
  /\ UNCHANGED <<put, sync_pc, pending, bad, written, flushed, readerVars>>

\* Mutant of PSendFails: flush does not report the failure.
PSendFailsSilently ==
  /\ sync_pc # "idle"
  /\ sent < Len(put)
  /\ sync_pc' = "idle"
  /\ flushed' = IF sync_pc = "flush" THEN Len(written) ELSE flushed
  /\ pending' = None
  /\ UNCHANGED <<put, sent, bad, written, net, readerVars>>

\* A timeout or a reset: sync returns -1, overflow eof.
PSendFails ==
  /\ sync_pc # "idle"
  /\ sent < Len(put)
  /\ sync_pc' = "idle"
  /\ bad' = TRUE
  /\ pending' = None
  /\ UNCHANGED <<put, sent, written, flushed, net, readerVars>>

\* The put area is emptied; overflow puts its argument into it.
SyncDone ==
  /\ sync_pc # "idle"
  /\ sent = Len(put)
  /\ sync_pc' = "idle"
  /\ sent' = 0
  /\ pending' = None
  /\ IF sync_pc = "overflow"
     THEN /\ put' = <<pending>>
          /\ written' = Append(written, pending)
          /\ UNCHANGED flushed
     ELSE /\ put' = <<>>
          /\ flushed' = Len(written)
          /\ UNCHANGED written
  /\ UNCHANGED <<bad, net, readerVars>>

-----------------------------------------------------------------------------
(* The reading stream *)

ReadByte ==
  /\ get # <<>>
  /\ got' = Append(got, Head(get))
  /\ get' = Tail(get)
  /\ UNCHANGED <<writerVars, net, ended>>

\* precv fills the get area from its beginning.
Underflow(ret) ==
  /\ ~ended
  /\ get = <<>>
  /\ ret \in 1..Len(net)
  /\ ret <= buf_size_
  /\ get' = SubSeq(net, 1, ret)
  /\ net' = SubSeq(net, ret + 1, Len(net))
  /\ UNCHANGED <<writerVars, ended, got>>

\* A timeout, a reset or the end of the connection.
UnderflowFails ==
  /\ ~ended
  /\ get = <<>>
  /\ ended' = TRUE
  /\ UNCHANGED <<writerVars, net, get, got>>

BufNext ==
  \/ \E c \in Byte : Write(c) \/ Overflow(c)
  \/ Flush
  \/ \E ret \in 1..buf_size_ : PSend(ret)
  \/ PSendFails
  \/ SyncDone
  \/ ReadByte
  \/ \E ret \in 1..buf_size_ : Underflow(ret)
  \/ UnderflowFails

BufSpec == BufInit /\ [][BufNext]_bufVars

-----------------------------------------------------------------------------
(* Properties *)

BufTypeOK ==
  /\ put \in Seq(Byte)
  /\ Len(put) <= buf_size_
  /\ sync_pc \in {"idle", "flush", "overflow"}
  /\ sent \in 0..Len(put)
  /\ pending \in Byte \cup {None}
  /\ sync_pc = "overflow" <=> pending # None
  /\ bad \in BOOLEAN
  /\ net \in Seq(Byte)
  /\ get \in Seq(Byte)
  /\ Len(get) <= buf_size_
  /\ ended \in BOOLEAN
  /\ written \in Seq(Byte)
  /\ flushed \in 0..Len(written)
  /\ got \in Seq(Byte)

\* What the peer reads is what was written: the bytes taken, those in the get
\* area, those on the wire and the unsent rest of the put area are, in this
\* order, all the bytes that were written, also after pieces that failed.
NothingLostOrRepeated ==
  got \o get \o net \o SubSeq(put, sent + 1, Len(put)) = written

\* When flush has returned good() all that was written before is on the wire.
FlushedIsSent == flushed <= Len(got) + Len(get) + Len(net)
=============================================================================
