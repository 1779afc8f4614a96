---------------------------- MODULE ClientCalls ----------------------------
(***************************************************************************)
(* Calls of a client on the scheduler of UThreadEpoll: MultiCall of        *)
(* UThreadMultiCaller (rpc/uthread_caller.cpp), and the PhxBatchEcho that  *)
(* is generated into clients (codegen/client_template.cpp).  Every uthread *)
(* makes one call: UThreadTcpUtils::Open, HttpCaller::Call with its        *)
(* HttpClient::Post, then what its caller does with the result.  Calls     *)
(* wait in UThreadPoll only; every wait is a step of UThreadEpoll, and so  *)
(* is every resumption.                                                    *)
(*                                                                         *)
(* errno belongs to the thread, so to all the calls.  Of a request only    *)
(* matters whether it fits into the buffer of the stream and in how many   *)
(* pieces the socket takes it; an answer may come in any number of pieces. *)
(***************************************************************************)
EXTENDS UThreadEpoll

CONSTANTS
  Big,         \* the calls whose request does not fit into the buffer
  MaxPieces    \* bound of the model: pieces in which a socket takes a request

ASSUME CallsAssumption == Big \subseteq Tasks /\ MaxPieces \in Nat \ {0}

VARIABLES
  batch_echo,     \* PhxBatchEcho, or MultiCall
  endpoints,      \* the calls that have an endpoint: in PhxBatchEcho GetByIndex
                  \* may find none
  call_pc,        \* where each call is
  unsent,         \* what each call has still to send, in pieces
  waited_events,  \* what UThreadPoll finds in the socket of each call
  flag,           \* the argument of ResumeAll
  errno,          \* "zero", "timedout" (ETIMEDOUT) or "other"
  cause,          \* history: why each call failed
  call_ret,       \* the result of each call
  callbacks,      \* how often each call was called back
  response        \* whose answer each response message holds, and whether it
                  \* came with the result 0

callVars == <<batch_echo, endpoints, call_pc, unsent, waited_events, flag, errno, cause,
              call_ret, callbacks, response>>

\* Nothing was written to the response message.
Untouched == [by |-> {}, good |-> FALSE]

CallsInit ==
  /\ Init
  /\ batch_echo \in BOOLEAN
  /\ batch_echo => Len(todo_list_) = Cardinality(Tasks)
  /\ endpoints \in IF batch_echo THEN (SUBSET Tasks) \ {{}} ELSE {Tasks}
  /\ call_pc = [t \in Tasks |-> "open"]
  /\ unsent = [t \in Tasks |-> MaxPieces]
  /\ waited_events = [t \in Tasks |-> "none"]
  /\ flag = "none"
  /\ errno = "zero"
  /\ cause = [t \in Tasks |-> "none"]
  /\ call_ret = [t \in Tasks |-> -1]
  /\ callbacks = [t \in Tasks |-> 0]
  /\ response = [t \in Tasks |-> Untouched]

\* The calls of PhxBatchEcho share one response message.
ResponseOf(t) == IF batch_echo THEN CHOOSE u \in Tasks : TRUE ELSE t

-----------------------------------------------------------------------------
(* The scheduler *)

SchedulerGoesOn ==
  /\ \/ CreateTask \/ ResumeCreated \/ ConsumeDone \/ TestAllDone \/ EpollWait
     \/ EventsDone \/ ResumeAllDone \/ TimeoutsDone
  /\ UNCHANGED callVars

ResumesAll ==
  /\ \/ EpollError /\ flag' = "error"
     \/ EventsDoneClosed /\ flag' = "close"
  /\ UNCHANGED <<batch_echo, endpoints, call_pc, unsent, waited_events, errno, cause, call_ret,
                 callbacks, response>>

\* hup: an error of the socket without the event that was asked for.
ResumeWaiter(s) ==
  /\ ResumeNextOf(s)
  /\ \E e \in IF phase = "events" THEN {"ready", "hup"} ELSE {flag} :
       waited_events' = [waited_events EXCEPT ![s] = e]
  /\ UNCHANGED <<batch_echo, endpoints, call_pc, unsent, flag, errno, cause, call_ret, callbacks,
                 response>>

ResumeTimedOut(s) ==
  /\ PopTimeout(s)
  /\ waited_events' = [waited_events EXCEPT ![s] = "timeout"]
  /\ UNCHANGED <<batch_echo, endpoints, call_pc, unsent, flag, errno, cause, call_ret, callbacks,
                 response>>

StartCall(t) == Start(t) /\ UNCHANGED callVars

-----------------------------------------------------------------------------
(* A call.  Each step ends where the uthread waits or calls its caller. *)

\* UThreadTcpStream::LastError; SocketStreamError_Refused (EINVAL, ECONNREFUSED)
\* is a failure like any other here.
LastError(e) == CASE e = "timedout" -> -202
                  [] e = "zero"     -> -303
                  [] OTHER          -> -1

\* The system call returns EAGAIN or EINPROGRESS and the uthread waits.
Waits(t, at) ==
  /\ UThreadPoll(t, TRUE)
  /\ call_pc' = [call_pc EXCEPT ![t] = at]
  /\ errno' = "other"
  /\ UNCHANGED <<batch_echo, endpoints, unsent, waited_events, flag, cause, call_ret, callbacks,
                 response>>

\* The call has its result and has come to the callback.
Result(t, ret, why) ==
  /\ call_pc' = [call_pc EXCEPT ![t] = "callback"]
  /\ call_ret' = [call_ret EXCEPT ![t] = ret]
  /\ cause' = [cause EXCEPT ![t] = why]
  /\ UNCHANGED <<batch_echo, endpoints, unsent, waited_events, flag, callbacks>>

MovesTo(t, to) ==
  /\ call_pc' = [call_pc EXCEPT ![t] = to]
  /\ UNCHANGED <<batch_echo, endpoints, waited_events, flag, cause, call_ret, callbacks, response>>

Goes(t, to) == MovesTo(t, to) /\ UNCHANGED <<unsent, errno>>

\* The system call fails with an error of its own.
SyscallFails(t) ==
  /\ errno' = "other"
  /\ Result(t, -1, "syscall")
  /\ UNCHANGED response

\* The peer has closed the connection or does not speak HTTP: no system call
\* has failed, and LastError reads what errno happens to be.
PeerFails(t) ==
  /\ Result(t, LastError(errno), "peer")
  /\ UNCHANGED <<errno, response>>

\* What Call returns for an answer: whatever number its header has, also those
\* that LastError uses (-1 stands for the others), and -1 when it has none or the
\* content cannot be parsed.
Results == {0, -1, -202, -303}

\* The answer is complete: it is parsed into the response message, then the
\* result is read from its header.
Answered(t) ==
  \E ret \in Results :
    /\ response' = [response EXCEPT ![ResponseOf(t)] = [by |-> {t}, good |-> ret = 0]]
    /\ Result(t, ret, "answer")

OnCpuAt(t, at) == OnCpu(t) /\ task_pc[t] = "run" /\ call_pc[t] = at

\* PhxBatchEcho has no endpoint for this uthread.
NoEndpoint(t) ==
  /\ OnCpuAt(t, "open")
  /\ t \notin endpoints
  /\ Goes(t, "finish")
  /\ UNCHANGED vars

\* UThreadTcpUtils::Open up to the wait.
Open(t) ==
  /\ OnCpuAt(t, "open")
  /\ t \in endpoints
  /\ \/ Waits(t, "connecting")
     \/ /\ Goes(t, "send") \/ SyscallFails(t)
        /\ UNCHANGED vars

\* Sending fails.  If the request did not fit into the buffer the stream is bad
\* now, and the flush that follows does nothing or sends the buffer once more,
\* depending on the library; the call fails in both cases.
SendFails(t, error, why) ==
  /\ errno' = error
  /\ \/ Result(t, LastError(error), why) /\ UNCHANGED response
     \/ /\ t \in Big
        /\ MovesTo(t, "flush")
        /\ unsent' = [unsent EXCEPT ![t] = MaxPieces]

\* The socket took a piece, and not the last one.
SendsMore(t, at) ==
  /\ unsent[t] > 1
  /\ unsent' = [unsent EXCEPT ![t] = @ - 1]
  /\ MovesTo(t, at)
  /\ UNCHANGED errno

\* The request is in the buffer and is sent.
Send(t) ==
  /\ OnCpuAt(t, "send")
  /\ \/ Waits(t, "sending")
     \/ /\ Goes(t, "recv") \/ SendFails(t, "other", "syscall")
        /\ UNCHANGED vars

\* A part of the answer was received.  "rest": what follows the header when it
\* has no Content-Length, which is read until the connection is closed.
Receives(t) ==
  \/ Answered(t) /\ UNCHANGED errno
  \/ Goes(t, "rest")
  \/ PeerFails(t)
  \/ SyscallFails(t)

Recv(t) ==
  /\ OnCpuAt(t, "recv")
  /\ \/ Waits(t, "receiving")
     \/ Receives(t) /\ UNCHANGED vars

\* The read ends without an error whatever ends it: the peer has closed, or
\* recv fails.
RestEnds(t, error) == Answered(t) /\ errno' = error

RecvRest(t) ==
  /\ OnCpuAt(t, "rest")
  /\ \/ Waits(t, "receiving_rest")
     \/ /\ RestEnds(t, errno) \/ RestEnds(t, "other")
        /\ UNCHANGED vars

\* Mutant: Close leaves errno as a failure does.
PollErrnoOfError(events) == IF events = "timeout" THEN "timedout" ELSE "other"

\* What UThreadPoll leaves in errno when it does not return 1.
PollErrno(events) == CASE events = "timeout" -> "timedout"
                       [] events = "close"   -> "zero"
                       [] OTHER              -> "other"

\* Mutant: any event but a timeout is what was waited for.
PollReadyAfterAll(t) == waited_events[t] # "timeout"

PollReady(t) == waited_events[t] = "ready"

\* Open fails whatever the reason, and its caller returns -1.
Connected(t) ==
  /\ call_pc[t] = "connecting"
  /\ UThreadPollReturns(t)
  /\ IF PollReady(t) THEN Goes(t, "send")
     ELSE /\ errno' = PollErrno(waited_events[t])
          /\ Result(t, -1, "open")
          /\ UNCHANGED response

Sent(t) ==
  /\ call_pc[t] = "sending"
  /\ UThreadPollReturns(t)
  /\ IF PollReady(t)
     THEN SendsMore(t, "send") \/ Goes(t, "recv") \/ SendFails(t, "other", "syscall")
     ELSE SendFails(t, PollErrno(waited_events[t]), waited_events[t])

Flush(t) ==
  /\ OnCpuAt(t, "flush")
  /\ \/ Waits(t, "flushing")
     \/ /\ \/ Result(t, LastError(errno), "flush") /\ UNCHANGED <<errno, response>>
           \/ SyscallFails(t)
        /\ UNCHANGED vars

Flushed(t) ==
  /\ call_pc[t] = "flushing"
  /\ UThreadPollReturns(t)
  /\ IF PollReady(t)
     THEN \/ SendsMore(t, "flush")
          \/ Result(t, LastError(errno), "flush") /\ UNCHANGED <<errno, response>>
          \/ SyscallFails(t)
     ELSE /\ errno' = PollErrno(waited_events[t])
          /\ Result(t, LastError(errno'), "flush")
          /\ UNCHANGED response

Received(t) ==
  /\ call_pc[t] = "receiving"
  /\ UThreadPollReturns(t)
  /\ IF PollReady(t)
     THEN Goes(t, "recv") \/ Receives(t)
     ELSE /\ errno' = PollErrno(waited_events[t])
          /\ Result(t, LastError(errno'), waited_events[t])
          /\ UNCHANGED response

ReceivedRest(t) ==
  /\ call_pc[t] = "receiving_rest"
  /\ UThreadPollReturns(t)
  /\ IF PollReady(t)
     THEN Goes(t, "rest") \/ RestEnds(t, errno) \/ RestEnds(t, "other")
     ELSE RestEnds(t, PollErrno(waited_events[t]))

CalledBack(t) ==
  /\ call_pc' = [call_pc EXCEPT ![t] = "finish"]
  /\ callbacks' = [callbacks EXCEPT ![t] = @ + 1]
  /\ UNCHANGED <<batch_echo, endpoints, unsent, waited_events, flag, errno, cause, call_ret,
                 response>>

\* Mutant: there is no callback for a call that could not connect.
CallbackOfConnected(t) ==
  /\ OnCpuAt(t, "callback")
  /\ IF cause[t] = "open" THEN Goes(t, "finish") /\ UNCHANGED vars
     ELSE CalledBack(t) /\ (Close(t) \/ UNCHANGED vars)

\* MultiCall: the callback may call Close.  PhxBatchEcho: the first result of
\* 0 becomes its own, and Close is called.
Callback(t) ==
  /\ OnCpuAt(t, "callback")
  /\ CalledBack(t)
  /\ IF batch_echo THEN IF call_ret[t] = 0 THEN Close(t) ELSE UNCHANGED vars
                   ELSE Close(t) \/ UNCHANGED vars

\* The stream is destroyed and its socket closed.
CallReturns(t) ==
  /\ call_pc[t] = "finish"
  /\ Finish(t)
  /\ UNCHANGED callVars

\* UThreadMultiCaller again: AddCaller, MultiCall.  closed_ keeps its value.
MultiCallAgain ==
  /\ phase = "returned" /\ ~batch_echo
  /\ \E t \in Tasks :
       /\ task_pc[t] = "none"
       /\ todo_list_' = <<t>>
       /\ task_pc' = [task_pc EXCEPT ![t] = "todo"]
  /\ phase' = "consume0"
  /\ UNCHANGED <<runtimeVars, uthread_id, waitVars, created, batch, errors, closed_,
                 callVars>>

CallStep(t) ==
  \/ StartCall(t) \/ NoEndpoint(t) \/ Open(t) \/ Connected(t)
  \/ Send(t) \/ Sent(t) \/ Flush(t) \/ Flushed(t)
  \/ Recv(t) \/ Received(t) \/ RecvRest(t) \/ ReceivedRest(t)
  \/ Callback(t) \/ CallReturns(t)

SchedulerSteps == SchedulerGoesOn \/ ResumesAll \/ \E s \in Tasks : ResumeWaiter(s)

CallsNext ==
  \/ SchedulerSteps
  \/ \E s \in Tasks : ResumeTimedOut(s)
  \/ \E t \in Tasks : CallStep(t)
  \/ MultiCallAgain

\* As in UThreadEpoll; all the timeouts of calls are finite.
CallsFairness ==
  /\ WF_<<vars, callVars>>(SchedulerSteps)
  /\ \A t \in Tasks : WF_<<vars, callVars>>(CallStep(t)) /\ TimersRunOut(t)

CallsSpec == CallsInit /\ [][CallsNext]_<<vars, callVars>> /\ CallsFairness

-----------------------------------------------------------------------------
(* Properties *)

\* When MultiCall or PhxBatchEcho returns, also after Close or a failure of
\* epoll_wait, every call has ended and was called back exactly once.  The
\* exception is a call that waits a second time for the same failure: ResumeAll
\* resumes every socket once.
CalledBackOnce ==
  phase = "returned" =>
    \A t \in Tasks \ {u \in Tasks : task_pc[u] = "none"} :
      \/ task_pc[t] = "done" /\ (callbacks[t] = 1 \/ t \notin endpoints)
      \/ call_pc[t] = "flushing" /\ (closed_ \/ errors > 0)

\* The result of a call tells why it failed, although all calls share errno:
\* -202 is a timeout of this call, -303 is Close, and neither is given for
\* anything else, but by a call whose peer or whose second flush failed it, or by
\* an answer, whose header says what it likes.  A call that has the header of an
\* answer without Content-Length is answered, even if a timeout or Close ends it.
ResultTellsTheCause ==
  \A t \in Tasks :
    /\ cause[t] = "timeout" => call_ret[t] = -202
    /\ cause[t] = "close" => call_ret[t] = -303 /\ closed_
    /\ cause[t] \notin {"peer", "flush", "answer", "timeout", "close"} =>
         call_ret[t] \notin {-202, -303}

\* Once PhxBatchEcho has a good answer, the calls that Close ends do not touch
\* the response message they share with it.  Two kinds of calls do: one whose
\* answer was already reported by the same epoll_wait, or comes without a wait,
\* and one that waits for the rest of an answer without Content-Length.
EchoAnswerKept ==
  [][batch_echo /\ closed_ /\ response' # response =>
       \/ phase \in {"consume0", "events"}
       \/ \E t \in Tasks : OnCpu(t) /\ call_pc[t] = "receiving_rest"]_<<vars, callVars>>

\* The peer sends one more piece of its answer to t, which then waits anew.
PieceOfAnswer(t) ==
  \/ Received(t) /\ call_pc'[t] \in {"recv", "rest"}
  \/ ReceivedRest(t) /\ call_pc'[t] = "rest"

\* Every MultiCall and PhxBatchEcho returns, unless a peer sends its answer in
\* pieces without end, each of them within the timeout that the piece before it
\* has started anew.  Such a peer keeps no call but its own from ending.
CallsEnd ==
  /\ \/ []<>(phase = "returned")
     \/ \E t \in Tasks : []<><<PieceOfAnswer(t)>>_<<vars, callVars>>
  /\ \A t \in Tasks : \/ []<>(phase = "returned" \/ task_pc[t] \in {"none", "done"})
                      \/ []<><<PieceOfAnswer(t)>>_<<vars, callVars>>
=============================================================================
