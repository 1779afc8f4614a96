---------------------------- MODULE UThreadEpoll ----------------------------
(***************************************************************************)
(* UThreadEpollScheduler of network/uthread_epoll.cpp as a client uses it: *)
(* tasks are added, Run starts them as uthreads and returns when all have  *)
(* finished, when one of them has called Close, or when epoll_wait fails.  *)
(* It is composed with UThreadRuntime: every step of this module that      *)
(* creates, resumes, suspends or ends a uthread is a step of that one.     *)
(*                                                                         *)
(* A task waits with UThreadPoll, for one socket or for a list of sockets. *)
(* Its socket (for a list, the socket on the stack of UThreadPoll that     *)
(* stands for the list) bears the name of the task.  All that the          *)
(* scheduler has of a task that waits is that socket, in the epoll set and *)
(* in the timer heap, and the index stored in it.  The heap is used        *)
(* through its promise (TimerSet): the armed sockets, any of which may be  *)
(* due.                                                                    *)
(***************************************************************************)
EXTENDS UThreadRuntime

CONSTANT
  MaxErrors      \* bound of the model: failures of epoll_wait other than EINTR

ASSUME EpollAssumption == MaxErrors \in Nat

VARIABLES
  todo_list_,    \* the tasks AddTask has queued
  task_pc,       \* what each task does
  uthread_id,    \* uthread_id of the socket of each task
  registered,    \* the sockets in the epoll set
  timed,         \* the sockets in the timer heap with a deadline
  untimed,       \* the sockets in the timer heap without one (a timeout of -1)
  phase,         \* where Run is
  created,       \* ConsumeTodoList: the index to resume next, or 0
  batch,         \* the sockets Run or ResumeAll has still to resume
  closed_,       \* Close was called
  errors         \* failures of epoll_wait so far

taskVars  == <<task_pc, uthread_id>>
waitVars  == <<registered, timed, untimed>>
runVars   == <<phase, created, batch, errors>>
vars == <<runtimeVars, todo_list_, taskVars, waitVars, runVars, closed_>>

TaskPC == {"none", "todo", "start", "run", "poll", "poll_list", "done"}

\* consume0: ConsumeTodoList before the loop; test: the condition of the loop.
Phases == {"consume0", "test", "wait", "events", "consume", "timeouts",
           "resume_all", "returned"}

Armed == timed \cup untimed

Init ==
  /\ RuntimeInit
  /\ \E initial \in {s \in SUBSET Tasks : s # {} /\ IsFiniteSet(s)} :
       /\ todo_list_ \in {q \in [1..Cardinality(initial) -> initial] :
                            \A j, k \in DOMAIN q : q[j] = q[k] => j = k}
       /\ task_pc = [t \in Tasks |-> IF t \in initial THEN "todo" ELSE "none"]
  /\ uthread_id = [t \in Tasks |-> 0]
  /\ registered = {}
  /\ timed = {}
  /\ untimed = {}
  /\ phase = "consume0"
  /\ created = 0
  /\ batch = {}
  /\ closed_ = FALSE
  /\ errors = 0

-----------------------------------------------------------------------------
(* UThreadEpollScheduler::Run, on the stack of the thread *)

\* ConsumeTodoList: runtime_.Create, runtime_.Resume(id).  The task is taken off
\* the queue here; the code pops it when the uthread comes back, which only
\* ConsumeTodoList itself could tell.
CreateTask ==
  /\ phase \in {"consume0", "consume"}
  /\ created = 0
  /\ todo_list_ # <<>>
  /\ Create(Head(todo_list_))
  /\ created' = NewIndex
  /\ todo_list_' = Tail(todo_list_)
  /\ task_pc' = [task_pc EXCEPT ![Head(todo_list_)] = "start"]
  /\ UNCHANGED <<uthread_id, waitVars, phase, batch, errors, closed_>>

ResumeCreated ==
  /\ created > 0
  /\ Resume(created)
  /\ created' = 0
  /\ UNCHANGED <<todo_list_, taskVars, waitVars, phase, batch, errors, closed_>>

ConsumeDone ==
  /\ on_cpu = 0
  /\ phase \in {"consume0", "consume"}
  /\ created = 0
  /\ todo_list_ = <<>>
  /\ phase' = IF phase = "consume0" THEN "test" ELSE "timeouts"
  /\ UNCHANGED <<runtimeVars, todo_list_, taskVars, waitVars, created, batch, errors,
                 closed_>>

\* Mutant of TestAllDone: the loop ends when no task is queued.
TestNothingQueued ==
  /\ phase = "test"
  /\ phase' = IF todo_list_ = <<>> THEN "returned" ELSE "wait"
  /\ UNCHANGED <<runtimeVars, todo_list_, taskVars, waitVars, created, batch, errors,
                 closed_>>

\* for (; !runtime_.IsAllDone(); )
TestAllDone ==
  /\ phase = "test"
  /\ phase' = IF unfinished_item_count_ = 0 THEN "returned" ELSE "wait"
  /\ UNCHANGED <<runtimeVars, todo_list_, taskVars, waitVars, created, batch, errors,
                 closed_>>

\* epoll_wait reports some of the sockets in the epoll set.
EpollWait ==
  /\ phase = "wait"
  /\ phase' = "events"
  /\ batch' \in SUBSET registered
  /\ UNCHANGED <<runtimeVars, todo_list_, taskVars, waitVars, created, errors, closed_>>

\* ResumeAll walks the sockets that GetSocketList copies from the heap.
StartResumeAll ==
  /\ phase' = "resume_all"
  /\ batch' = Armed
  /\ UNCHANGED <<runtimeVars, todo_list_, taskVars, waitVars, created, closed_>>

EpollError ==
  /\ phase = "wait"
  /\ errors < MaxErrors
  /\ errors' = errors + 1
  /\ StartResumeAll

\* The loop over the events and the one of ResumeAll.
ResumeNextOf(s) ==
  /\ phase \in {"events", "resume_all"}
  /\ s \in batch
  /\ Resume(uthread_id[s])
  /\ batch' = batch \ {s}
  /\ UNCHANGED <<todo_list_, taskVars, waitVars, phase, created, errors, closed_>>

\* Mutant of EventsDone: without a queued task the rest of the iteration is skipped.
EventsDoneSkips ==
  /\ on_cpu = 0
  /\ phase = "events"
  /\ batch = {}
  /\ ~closed_
  /\ phase' = IF todo_list_ = <<>> THEN "test" ELSE "consume"
  /\ UNCHANGED <<runtimeVars, todo_list_, taskVars, waitVars, created, batch, errors,
                 closed_>>

EventsDone ==
  /\ on_cpu = 0
  /\ phase = "events"
  /\ batch = {}
  /\ ~closed_
  /\ phase' = "consume"
  /\ UNCHANGED <<runtimeVars, todo_list_, taskVars, waitVars, created, batch, errors,
                 closed_>>

\* if (closed_) { ResumeAll(UThreadEpollREvent_Close); break; }
EventsDoneClosed ==
  /\ on_cpu = 0
  /\ phase = "events"
  /\ batch = {}
  /\ closed_
  /\ StartResumeAll
  /\ UNCHANGED errors

ResumeAllDone ==
  /\ on_cpu = 0
  /\ phase = "resume_all"
  /\ batch = {}
  /\ phase' = "returned"
  /\ UNCHANGED <<runtimeVars, todo_list_, taskVars, waitVars, created, batch, errors,
                 closed_>>

\* DealwithTimeout: a due timer is popped and its uthread resumed.
PopTimeout(s) ==
  /\ phase = "timeouts"
  /\ s \in Armed
  /\ Resume(uthread_id[s])
  /\ timed' = timed \ {s}
  /\ untimed' = untimed \ {s}
  /\ UNCHANGED <<todo_list_, taskVars, registered, runVars, closed_>>

TimeoutsDone ==
  /\ on_cpu = 0
  /\ phase = "timeouts"
  /\ phase' = "test"
  /\ UNCHANGED <<runtimeVars, todo_list_, taskVars, waitVars, created, batch, errors,
                 closed_>>

-----------------------------------------------------------------------------
(* The uthread of task t *)

\* The thread is on the stack of t.
OnCpu(t) == on_cpu > 0 /\ context_list_[on_cpu].task = t

Start(t) ==
  /\ OnCpu(t)
  /\ task_pc[t] = "start"
  /\ task_pc' = [task_pc EXCEPT ![t] = "run"]
  /\ UNCHANGED <<runtimeVars, todo_list_, uthread_id, waitVars, runVars, closed_>>

\* Mutant of UThreadPoll: a timeout of -1 arms no timer.
UThreadPollUnarmed(t, finite) ==
  /\ OnCpu(t)
  /\ task_pc[t] = "run"
  /\ uthread_id' = [uthread_id EXCEPT ![t] = current_uthread_]
  /\ timed' = IF finite THEN timed \cup {t} ELSE timed \ {t}
  /\ registered' = registered \cup {t}
  /\ task_pc' = [task_pc EXCEPT ![t] = "poll"]
  /\ Yield
  /\ UNCHANGED <<todo_list_, untimed, runVars, closed_>>

\* UThreadPoll on one socket up to YieldTask: AddTimer, EPOLL_CTL_ADD.
UThreadPoll(t, finite) ==
  /\ OnCpu(t)
  /\ task_pc[t] = "run"
  /\ uthread_id' = [uthread_id EXCEPT ![t] = current_uthread_]
  /\ timed' = IF finite THEN timed \cup {t} ELSE timed \ {t}
  /\ untimed' = IF finite THEN untimed \ {t} ELSE untimed \cup {t}
  /\ registered' = registered \cup {t}
  /\ task_pc' = [task_pc EXCEPT ![t] = "poll"]
  /\ Yield
  /\ UNCHANGED <<todo_list_, runVars, closed_>>

\* Mutant of UThreadPollReturns: RemoveTimer is missing.
UThreadPollKeepsTimer(t) ==
  /\ OnCpu(t)
  /\ task_pc[t] = "poll"
  /\ registered' = registered \ {t}
  /\ task_pc' = [task_pc EXCEPT ![t] = "run"]
  /\ UNCHANGED <<runtimeVars, todo_list_, uthread_id, timed, untimed, runVars,
                 closed_>>

\* UThreadPoll after YieldTask: EPOLL_CTL_DEL, RemoveTimer.
UThreadPollReturns(t) ==
  /\ OnCpu(t)
  /\ task_pc[t] = "poll"
  /\ registered' = registered \ {t}
  /\ timed' = timed \ {t}
  /\ untimed' = untimed \ {t}
  /\ task_pc' = [task_pc EXCEPT ![t] = "run"]
  /\ UNCHANGED <<runtimeVars, todo_list_, uthread_id, runVars, closed_>>

\* UThreadPoll on a list: the timeout is ignored.
UThreadPollList(t) ==
  /\ OnCpu(t)
  /\ task_pc[t] = "run"
  /\ uthread_id' = [uthread_id EXCEPT ![t] = current_uthread_]
  /\ registered' = registered \cup {t}
  /\ task_pc' = [task_pc EXCEPT ![t] = "poll_list"]
  /\ Yield
  /\ UNCHANGED <<todo_list_, timed, untimed, runVars, closed_>>

\* close(epollfd) takes it out of the epoll set.
UThreadPollListReturns(t) ==
  /\ OnCpu(t)
  /\ task_pc[t] = "poll_list"
  /\ registered' = registered \ {t}
  /\ task_pc' = [task_pc EXCEPT ![t] = "run"]
  /\ UNCHANGED <<runtimeVars, todo_list_, uthread_id, timed, untimed, runVars,
                 closed_>>

AddTask(t, u) ==
  /\ OnCpu(t)
  /\ task_pc[t] = "run"
  /\ task_pc[u] = "none"
  /\ todo_list_' = Append(todo_list_, u)
  /\ task_pc' = [task_pc EXCEPT ![u] = "todo"]
  /\ UNCHANGED <<runtimeVars, uthread_id, waitVars, runVars, closed_>>

Close(t) ==
  /\ OnCpu(t)
  /\ task_pc[t] = "run"
  /\ closed_' = TRUE
  /\ UNCHANGED <<runtimeVars, todo_list_, taskVars, waitVars, runVars>>

\* The function returns; its socket was closed and freed.
Finish(t) ==
  /\ OnCpu(t)
  /\ task_pc[t] = "run"
  /\ task_pc' = [task_pc EXCEPT ![t] = "done"]
  /\ UThreadDoneCallback
  /\ UNCHANGED <<todo_list_, uthread_id, waitVars, runVars, closed_>>

-----------------------------------------------------------------------------

SchedulerStep ==
  \/ CreateTask
  \/ ResumeCreated
  \/ ConsumeDone
  \/ TestAllDone
  \/ EpollWait
  \/ EpollError
  \/ \E s \in Tasks : ResumeNextOf(s)
  \/ EventsDone
  \/ EventsDoneClosed
  \/ ResumeAllDone
  \/ TimeoutsDone

UThreadStep(t) ==
  \/ Start(t)
  \/ \E finite \in BOOLEAN : UThreadPoll(t, finite)
  \/ UThreadPollReturns(t)
  \/ UThreadPollList(t)
  \/ UThreadPollListReturns(t)
  \/ \E u \in Tasks : AddTask(t, u)
  \/ Close(t)
  \/ Finish(t)

Next ==
  \/ SchedulerStep
  \/ \E s \in Tasks : PopTimeout(s)
  \/ \E t \in Tasks : UThreadStep(t)

\* A timer with a deadline that stays armed becomes due, and DealwithTimeout pops
\* it when the loop comes there again.  Every wait arms the timer anew with the
\* whole timeout, so that of a uthread whose events always come in time is armed
\* whenever the loop comes there and is never due.
TimersRunOut(t) == []<>(phase = "timeouts") => []<>(t \notin timed)

\* The thread runs; a uthread that is on it waits, ends or calls one of these
\* functions again (Close does nothing new the second time).  Nothing is assumed
\* of the peers or of timers without a deadline.
Fairness ==
  /\ WF_vars(SchedulerStep)
  /\ \A t \in Tasks : WF_vars(UThreadStep(t)) /\ TimersRunOut(t)

Spec == Init /\ [][Next]_vars /\ Fairness

-----------------------------------------------------------------------------
(* Properties *)

TypeOK ==
  /\ RuntimeTypeOK
  /\ todo_list_ \in Seq(Tasks)
  /\ task_pc \in [Tasks -> TaskPC]
  /\ uthread_id \in [Tasks -> 0..Len(context_list_)]
  /\ registered \in SUBSET Tasks
  /\ timed \in SUBSET Tasks
  /\ untimed \in SUBSET Tasks
  /\ timed \cap untimed = {}
  /\ phase \in Phases
  /\ created \in 0..Len(context_list_)
  /\ batch \in SUBSET Tasks
  /\ closed_ \in BOOLEAN
  /\ errors \in 0..MaxErrors

\* The uthread whose index the socket s has is the one that waits on s.
NamesItsWaiter(s) ==
  /\ task_pc[s] \in {"poll", "poll_list"}
  /\ uthread_id[s] > 0
  /\ context_list_[uthread_id[s]] = [task |-> s, next_done_item |-> 0,
                                     status |-> "suspend"]

\* Whatever the scheduler may resume, an event or a copied list of sockets
\* reported before other uthreads ran included, is a socket that is still in
\* use, and its index still denotes the uthread that waits on it: indices of
\* finished uthreads are used again and nothing checks them.
ResumesTheWaiter ==
  /\ TypeOK
  /\ \A s \in registered \cup Armed \cup batch : NamesItsWaiter(s)

\* A uthread that waits can be resumed: its socket is in the epoll set.  One that
\* waits for a single socket has a timer as well.
WaitersReachable ==
  \A t \in Tasks :
    /\ task_pc[t] \in {"poll", "poll_list"} => t \in registered
    /\ task_pc[t] = "poll" /\ ~OnCpu(t) => t \in Armed

\* Run returns by itself only when every uthread it started has finished.
ReturnsWhenAllDone ==
  phase = "returned" /\ ~closed_ /\ errors = 0 =>
    \A t \in Tasks : task_pc[t] \in {"none", "todo", "done"}

\* A wait for one socket with a timeout ends, unless Run returns first.
TimedWaitsEnd ==
  \A t \in Tasks : task_pc[t] = "poll" /\ t \in timed
                     ~> task_pc[t] # "poll" \/ phase = "returned"
=============================================================================
