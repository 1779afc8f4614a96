--------------------------- MODULE HttpConnection ---------------------------
(***************************************************************************)
(* One connection between a client (http/http_client.cpp) and a server     *)
(* (IOFunc of rpc/hsha_server.cpp), with the framing of http/http_proto.cpp*)
(* on both ends: a message ends where its receiver thinks it ends, and what*)
(* is left on the wire is taken for the next one.                          *)
(*                                                                         *)
(* A wire carries tokens: the lines of a message and the units of its body.*)
(* A receiver takes one line with getline or a number of units with read;  *)
(* both fail, for good, on a timeout, a reset or the end of the stream: the*)
(* flags of std::iostream are never cleared.  What a flush that fails has  *)
(* sent is any part of the message from its beginning.                     *)
(***************************************************************************)
EXTENDS Integers, Sequences

CONSTANTS
  MaxCalls,        \* bound of the model: calls on the connection
  MaxBody,         \* bound of the model: units of a body
  ChunkedKeepAlive \* the client may send chunks and keep the connection

ASSUME ConnectionAssumption ==
  /\ MaxCalls \in Nat
  /\ MaxBody \in Nat
  /\ ChunkedKeepAlive \in BOOLEAN

VARIABLES
  wire,      \* what is on its way to each end
  pc,        \* what each end does
  msg,       \* the message each end receives
  left,      \* units RecvBody has still to read
  failed,    \* each end's stream is no longer good()
  calls,     \* history: the requests of the client
  results,   \* history: what the calls returned
  handled,   \* history: the requests the server handled
  answers    \* history: the bodies it answered them with

receiveVars == <<wire, pc, msg, left, failed>>
historyVars == <<calls, results, handled, answers>>
vars == <<receiveVars, historyVars>>

Ends == {"client", "server"}

Other(e) == IF e = "client" THEN "server" ELSE "client"

\* A token of the n-th message of an end.  arg is the value of a Content-Length
\* or of the size of a chunk, and the place of a unit in the body.
Token(kind, e, n, arg) == [kind |-> kind, from |-> e, number |-> n, arg |-> arg]

Kinds == {"start", "length", "keep_alive", "chunked", "other", "blank", "size", "unit"}

TokenType == [kind : Kinds, from : Ends, number : Nat, arg : Nat]

Lines == Kinds \ {"unit"}

Body(e, n, size) == [i \in 1..size |-> Token("unit", e, n, i)]

NewMessage == [start |-> <<>>, fields |-> {}, content |-> <<>>]

Receiving == {"start", "headers", "body", "size", "chunk", "until_close"}

\* idle: the client is not in a call; have: the message is complete.
Init ==
  /\ wire = [e \in Ends |-> <<>>]
  /\ pc = [client |-> "idle", server |-> "start"]
  /\ msg = [e \in Ends |-> NewMessage]
  /\ left = [e \in Ends |-> 0]
  /\ failed = [e \in Ends |-> FALSE]
  /\ calls = <<>>
  /\ results = <<>>
  /\ handled = <<>>
  /\ answers = <<>>

-----------------------------------------------------------------------------
(* HttpProto, receiving: the same code on both ends *)

\* getline: the next token, which is a line.
Getline(e, kinds) ==
  /\ wire[e] # <<>>
  /\ Head(wire[e]).kind \in kinds
  /\ wire' = [wire EXCEPT ![e] = Tail(@)]

\* RecvReqStartLine takes any line; RecvRespStartLine one that starts with HTTP
\* (another line makes the call fail; the server sends none).
RecvStartLine(e) ==
  /\ pc[e] = "start"
  /\ Getline(e, IF e = "client" THEN {"start"} ELSE Lines)
  /\ msg' = [msg EXCEPT ![e].start = <<Head(wire[e])>>]
  /\ pc' = [pc EXCEPT ![e] = "headers"]
  /\ UNCHANGED <<left, failed, historyVars>>

RecvHeader(e) ==
  /\ pc[e] = "headers"
  /\ Getline(e, Lines \ {"blank"})
  /\ msg' = [msg EXCEPT ![e].fields = @ \cup {Head(wire[e])}]
  /\ UNCHANGED <<pc, left, failed, historyVars>>

Has(m, kind) == \E f \in m.fields : f.kind = kind

\* How RecvBody finds the end of the body.
BodyKind(e, m) ==
  IF Has(m, "chunked") THEN "size"
  ELSE IF Has(m, "length") THEN "body"
  ELSE IF e = "client" THEN "until_close" ELSE "have"

\* The empty line ends the headers.
RecvBlank(e) ==
  /\ pc[e] = "headers"
  /\ Getline(e, {"blank"})
  /\ pc' = [pc EXCEPT ![e] = BodyKind(e, msg[e])]
  /\ left' = [left EXCEPT ![e] =
                IF Has(msg[e], "length")
                THEN (CHOOSE f \in msg[e].fields : f.kind = "length").arg ELSE 0]
  /\ UNCHANGED <<msg, failed, historyVars>>

\* Mutant of Read: a short read is taken for the whole.
ReadShort(e) ==
  LET n == IF Len(wire[e]) < left[e] THEN Len(wire[e]) ELSE left[e] IN
  /\ msg' = [msg EXCEPT ![e].content = @ \o SubSeq(wire[e], 1, n)]
  /\ wire' = [wire EXCEPT ![e] = SubSeq(@, n + 1, Len(@))]
  /\ left' = [left EXCEPT ![e] = 0]

\* read(buff, size) of all that is left, whatever it is.
Read(e) ==
  /\ Len(wire[e]) >= left[e]
  /\ msg' = [msg EXCEPT ![e].content = @ \o SubSeq(wire[e], 1, left[e])]
  /\ wire' = [wire EXCEPT ![e] = SubSeq(@, left[e] + 1, Len(@))]
  /\ left' = [left EXCEPT ![e] = 0]

RecvBody(e) ==
  /\ pc[e] = "body"
  /\ Read(e)
  /\ pc' = [pc EXCEPT ![e] = "have"]
  /\ UNCHANGED <<failed, historyVars>>

\* A line that is not a size counts as 0, and so does the last chunk: break.
\* What follows the last chunk stays on the wire.
RecvSize(e) ==
  LET size == IF Head(wire[e]).kind = "size" THEN Head(wire[e]).arg ELSE 0 IN
  /\ pc[e] = "size"
  /\ Getline(e, Lines)
  /\ pc' = [pc EXCEPT ![e] = IF size > 0 THEN "chunk" ELSE "have"]
  /\ left' = [left EXCEPT ![e] = size]
  /\ UNCHANGED <<msg, failed, historyVars>>

RecvChunk(e) ==
  /\ pc[e] = "chunk"
  /\ left[e] > 0
  /\ Read(e)
  /\ UNCHANGED <<pc, failed, historyVars>>

\* The line end after the chunk.
RecvChunkEnd(e) ==
  /\ pc[e] = "chunk"
  /\ left[e] = 0
  /\ Getline(e, Lines)
  /\ pc' = [pc EXCEPT ![e] = "size"]
  /\ UNCHANGED <<msg, left, failed, historyVars>>

\* Mutant of RecvFails: the client's stream can be used again.
RecvFailsForNow(e) ==
  /\ pc[e] \in Receiving
  /\ IF e = "server"
     THEN pc' = [pc EXCEPT ![e] = "closed"] /\ UNCHANGED results
     ELSE pc' = [pc EXCEPT ![e] = "idle"] /\ results' = Append(results, [ok |-> FALSE])
  /\ UNCHANGED <<wire, msg, left, failed, calls, handled, answers>>

\* A timeout, a reset, or the end of the stream.  The server closes; the call of
\* the client fails.
RecvFails(e) ==
  /\ pc[e] \in Receiving \ {"until_close"}
  /\ failed' = [failed EXCEPT ![e] = TRUE]
  /\ IF e = "server"
     THEN pc' = [pc EXCEPT ![e] = "closed"] /\ UNCHANGED results
     ELSE pc' = [pc EXCEPT ![e] = "idle"] /\ results' = Append(results, [ok |-> FALSE])
  /\ UNCHANGED <<wire, msg, left, calls, handled, answers>>

\* Read until close takes what comes and ends by the same events, which all are
\* eof() to the stream and make the message good.
ReadUntilClose(e) ==
  /\ pc[e] = "until_close"
  /\ failed' = [failed EXCEPT ![e] = TRUE]
  /\ pc' = [pc EXCEPT ![e] = "have"]
  /\ \E k \in 0..Len(wire[e]) :
       /\ msg' = [msg EXCEPT ![e].content = @ \o SubSeq(wire[e], 1, k)]
       /\ wire' = [wire EXCEPT ![e] = SubSeq(@, k + 1, Len(@))]
  /\ UNCHANGED <<left, historyVars>>

-----------------------------------------------------------------------------
(* Sending *)

\* The whole message, or a part of it when the flush fails.
Send(e, tokens, k) == wire' = [wire EXCEPT ![Other(e)] = @ \o SubSeq(tokens, 1, k)]

Option(condition, token) == IF condition THEN <<token>> ELSE <<>>

\* SendReqHeader and the content.  declared: HttpCaller adds Content-Length to
\* an empty body too.  Clients of other makes may send a chunk.
Request(n, r) ==
  LET line(kind, arg) == Token(kind, "client", n, arg)
      header == <<line("start", 0)>>
                \o Option(r.keep_alive, line("keep_alive", 0))
                \o Option(~r.chunked /\ (r.size > 0 \/ r.declared), line("length", r.size))
                \o Option(r.chunked, line("chunked", 0))
                \o <<line("blank", 0)>>
      body   == Body("client", n, r.size)
  IN  IF r.chunked
      THEN header \o <<line("size", r.size)>> \o body
             \o <<line("blank", 0), line("size", 0), line("blank", 0)>>
      ELSE header \o body

Requests ==
  {r \in [size : 0..MaxBody, keep_alive : BOOLEAN, declared : BOOLEAN, chunked : BOOLEAN] :
     r.chunked => r.size > 0 /\ ~r.declared /\ (r.keep_alive => ChunkedKeepAlive)}

\* Mutant of Response: Content-Length counts one unit too many.
ResponseTooLong(n, size, keep_alive) ==
  LET line(kind, arg) == Token(kind, "server", n, arg)
  IN  <<line("start", 0), line("other", 0)>>
      \o Option(keep_alive, line("keep_alive", 0))
      \o Option(size > 0, line("length", size + 1))
      \o <<line("blank", 0)>>
      \o Body("server", n, size)

\* FixRespHeaders and SendResp.
Response(n, size, keep_alive) ==
  LET line(kind, arg) == Token(kind, "server", n, arg)
  IN  <<line("start", 0), line("other", 0)>>
      \o Option(keep_alive, line("keep_alive", 0))
      \o Option(size > 0, line("length", size))
      \o <<line("blank", 0)>>
      \o Body("server", n, size)

\* HttpClient::Get or Post up to the flush.
Call(r) ==
  LET n == Len(calls) + 1
      tokens == Request(n, r)
  IN
  /\ pc.client = "idle"
  /\ n <= MaxCalls
  /\ calls' = Append(calls, r)
  /\ \/ /\ ~failed.client
        /\ Send("client", tokens, Len(tokens))
        /\ pc' = [pc EXCEPT !.client = "start"]
        /\ msg' = [msg EXCEPT !.client = NewMessage]
        /\ UNCHANGED <<failed, results>>
     \/ /\ IF failed.client THEN UNCHANGED wire
                            ELSE \E k \in 0..(Len(tokens) - 1) : Send("client", tokens, k)
        /\ failed' = [failed EXCEPT !.client = TRUE]
        /\ results' = Append(results, [ok |-> FALSE])
        /\ UNCHANGED <<pc, msg>>
  /\ UNCHANGED <<left, handled, answers>>

\* The call returns 0.
Return ==
  /\ pc.client = "have"
  /\ results' = Append(results, [ok |-> TRUE, content |-> msg.client.content])
  /\ pc' = [pc EXCEPT !.client = "idle"]
  /\ UNCHANGED <<wire, msg, left, failed, calls, handled, answers>>

\* IOFunc has a request and refuses it: the queue is full or CanEnqueue is false.
Refuse ==
  /\ pc.server = "have"
  /\ pc' = [pc EXCEPT !.server = "closed"]
  /\ UNCHANGED <<wire, msg, left, failed, historyVars>>

\* A worker answers it.  The answer is late, or sent; afterwards the connection
\* is closed unless it is kept alive and all of the answer went out.
Answer(size) ==
  LET n == Len(handled) + 1
      keep_alive == Has(msg.server, "keep_alive")
      tokens == Response(n, size, keep_alive)
  IN
  /\ pc.server = "have"
  /\ handled' = Append(handled, msg.server)
  /\ answers' = Append(answers, Body("server", n, size))
  /\ \E k \in 0..Len(tokens) :
       /\ Send("server", tokens, k)
       /\ pc' = [pc EXCEPT !.server =
                   IF keep_alive /\ k = Len(tokens) THEN "start" ELSE "closed"]
  /\ msg' = [msg EXCEPT !.server = NewMessage]
  /\ UNCHANGED <<left, failed, calls, results>>

-----------------------------------------------------------------------------

Receive(e) ==
  \/ RecvStartLine(e)
  \/ RecvHeader(e)
  \/ RecvBlank(e)
  \/ RecvBody(e)
  \/ RecvSize(e)
  \/ RecvChunk(e)
  \/ RecvChunkEnd(e)
  \/ RecvFails(e)
  \/ ReadUntilClose(e)

Next ==
  \/ \E e \in Ends : Receive(e)
  \/ \E r \in Requests : Call(r)
  \/ Return
  \/ Refuse
  \/ \E size \in 0..MaxBody : Answer(size)

Spec == Init /\ [][Next]_vars

-----------------------------------------------------------------------------
(* Properties *)

TypeOK ==
  /\ wire \in [Ends -> Seq(TokenType)]
  /\ pc.client \in Receiving \cup {"idle", "have"}
  /\ pc.server \in (Receiving \ {"until_close"}) \cup {"have", "closed"}
  /\ left \in [Ends -> 0..MaxBody]
  /\ failed \in [Ends -> BOOLEAN]
  /\ calls \in Seq(Requests)
  /\ Len(results) \in {Len(calls), Len(calls) - 1}
  /\ Len(answers) = Len(handled)

\* The server handles the requests of the client in their order, each at most
\* once and as it was sent: no part of one is taken for another.
RequestsIntact ==
  \A n \in 1..Len(handled) :
    /\ n <= Len(calls)
    /\ handled[n].start = <<Token("start", "client", n, 0)>>
    /\ handled[n].content = Body("client", n, calls[n].size)
    /\ Has(handled[n], "keep_alive") <=> calls[n].keep_alive

\* A call that returns 0 returns the answer to its own request, all of it, also
\* after calls that timed out and whose answers arrived later.
AnswersMatch ==
  /\ TypeOK
  /\ \A n \in 1..Len(results) :
       results[n].ok => n <= Len(answers) /\ results[n].content = answers[n]

\* The end blocks in recv: it needs more than has arrived.
Blocked(e) ==
  /\ pc[e] \in Receiving
  /\ IF pc[e] = "body" \/ (pc[e] = "chunk" /\ left[e] > 0)
     THEN Len(wire[e]) < left[e]
     ELSE wire[e] = <<>>

\* Client and server wait for each other only when the answer to a request that
\* keeps the connection alive is empty: it has no Content-Length and the client
\* reads until the server, which waits for the next request, closes.
OnlyEmptyAnswersStall ==
  Blocked("client") /\ Blocked("server") =>
    /\ pc.client = "until_close"
    /\ answers[Len(answers)] = <<>>
=============================================================================
