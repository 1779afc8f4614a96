--------------------------- MODULE HshaUnit_proofs ---------------------------
(***************************************************************************)
(* Safety of HshaUnit for any number of connections, cells, workers and    *)
(* requests, and any limits.  The invariant has four parts: who runs and   *)
(* what is in which list (RunInv), the count of connections (CountInv),    *)
(* where every request is and which cell answers to it (JobInv, NumInv,    *)
(* CellInv), and what is allocated (MsgInv, FdsAccounted).                 *)
(***************************************************************************)
EXTENDS HshaUnit, FiniteSetTheorems, TLAPS

\* How far the uthread of a connection is with its current request, as far as
\* the memory it uses is concerned.
Stage == [c \in Conns |->
  IF pc[c] \in {"new", "listed", "todo"} THEN "fresh"
  ELSE IF pc[c] \in {"recv", "recv_wait", "parsed", "admitted"} THEN "reading"
  ELSE IF pc[c] \in {"exit", "destroy", "done"} THEN "ended"
  ELSE IF pc[c] = "wait" \/ (pc[c] = "woken" /\ cell[socket[c]].args = None) THEN "waiting"
  ELSE "writing"]

\* The acceptor's connection is new until it is in the list.
AcceptInv ==
  /\ accept_pc = "idle" <=> accepted_fd = None
  /\ accept_pc \in {"check", "add"} => pc[accepted_fd] = "new"

\* One uthread runs at a time; a reported or listed connection is still where it
\* was reported or listed; the queue has room for a request that was admitted.
RunInv ==
  /\ \A c, d \in Running : c = d
  /\ phase # "events" => events = {}
  /\ \A c \in events : pc[c] \in {"recv_wait", "send_wait"}
  /\ IsInjective(accepted_fd_list) /\ \A c \in Range(accepted_fd_list) : pc[c] = "listed"
  /\ IsInjective(todo_list) /\ \A c \in Range(todo_list) : pc[c] = "todo"
  /\ \A c \in Conns : pc[c] = "admitted" => Len(in_queue) < MaxQueueLength

\* The count is exact but for the connection being counted, and what CanAccept
\* has read of it is still good when the connection is added.
CountInv ==
  /\ IsFiniteSet(InService)
  /\ HoldFdsExact
  /\ accept_pc = "add" => Cardinality(InService) < MaxConnections

\* The jobs a thread or a queue has, those included whose request is deleted
\* last.
Held == Pending \cup AtWorker({"delete"})

\* The jobs whose request, and those whose response, is still to be freed by
\* someone other than a uthread.
Asked == InQueue \cup AtWorker(WorkerPC \ {"pluck"})
Answered == OutQueue \cup AtWorker({"respond"})

\* No job is in two places before its response is taken, and no two jobs are for
\* the same request or use the same cell at the same time.
JobInv ==
  /\ IsInjective(in_queue) /\ IsInjective(out_queue)
  /\ InQueue \cap OutQueue = {}
  /\ \A w \in Workers :
       /\ worker[w].at # "pluck" => worker[w].job \notin InQueue
       /\ worker[w].at \in {"dispatch", "respond"} => worker[w].job \notin OutQueue
  /\ \A v, w \in Workers : worker[v].at # "pluck" /\ worker[v].job = worker[w].job => v = w
  /\ \A i, j \in Held : i.msg = j.msg => i = j
  /\ \A i, j \in Pending : i.sock = j.sock => i = j

\* A request that is held was read before, and before the one being read.
NumInv ==
  /\ \A c \in Conns : /\ Stage[c] = "fresh" => reqno[c] = 0
                      /\ Stage[c] \in {"reading", "waiting", "writing"} => reqno[c] > 0
  /\ \A job \in Held : /\ job.msg[2] <= reqno[job.msg[1]]
                       /\ Stage[job.msg[1]] = "reading" => job.msg[2] < reqno[job.msg[1]]

\* A cell is live as long as a stream owns it or a late response needs it.
CellInv ==
  /\ \A c \in Conns :
       /\ socket[c] # None => /\ cell[socket[c]].live /\ cell[socket[c]].conn = c
                              /\ ~cell[socket[c]].destroyed
       /\ Stage[c] \in {"reading", "waiting", "writing"} => socket[c] # None
       /\ Stage[c] = "fresh" => socket[c] = None
       /\ Stage[c] = "waiting" => /\ cell[socket[c]].args = None
                                  /\ [sock |-> socket[c], msg |-> Current(c)] \in Pending
       /\ Stage[c] = "writing" => cell[socket[c]].args = Current(c)
  /\ \A a \in Cells : cell[a].live => cell[a].destroyed \/ \E c \in Conns : socket[c] = a
  /\ \A a \in Cells : cell[a].destroyed =>
       /\ cell[a].live /\ cell[a].conn \in Conns
       /\ Stage[cell[a].conn] = "ended" /\ socket[cell[a].conn] = None
       /\ \E job \in Pending : job.sock = a
  /\ \A a, b \in Cells :
       cell[a].destroyed /\ cell[b].destroyed /\ cell[a].conn = cell[b].conn => a = b
  /\ \A job \in Pending :
       /\ cell[job.sock].live /\ cell[job.sock].conn = job.msg[1]
       /\ \/ cell[job.sock].destroyed
          \/ /\ Stage[job.msg[1]] = "waiting" /\ socket[job.msg[1]] = job.sock
             /\ job.msg = Current(job.msg[1])

\* The allocated requests and responses are those that something still frees.
MsgInv ==
  /\ requests = {Current(c) : c \in {d \in Conns : Stage[d] = "reading"}}
                \cup {job.msg : job \in Asked}
  /\ responses = {Current(c) : c \in {d \in Conns : Stage[d] = "writing"}}
                 \cup {job.msg : job \in Answered}

UInv == /\ TypeOK /\ AcceptInv /\ RunInv /\ CountInv
        /\ JobInv /\ NumInv /\ CellInv /\ MsgInv /\ FdsAccounted /\ QueueLimits
        /\ ConnectionLimit
-----------------------------------------------------------------------------
(* Sequences and the sets of their elements *)

\* What Append adds to the elements.
LEMMA AppendElements ==
  ASSUME NEW S, NEW q \in Seq(S), NEW e \in S
  PROVE  /\ Range(Append(q, e)) = Range(q) \cup {e}
         /\ IsInjective(q) /\ e \notin Range(q) => IsInjective(Append(q, e))
<1> DEFINE r == Append(q, e)
<1>1. /\ Len(q) \in Nat /\ DOMAIN q = 1..Len(q) /\ DOMAIN r = 1..(Len(q) + 1)
      /\ r[Len(q) + 1] = e /\ \A k \in 1..Len(q) : r[k] = q[k]
  OBVIOUS
<1> HIDE DEF r
<1>2. \A k \in DOMAIN r : k \in DOMAIN q \/ k = Len(q) + 1
  BY <1>1
<1>3. \A k \in DOMAIN q : k \in DOMAIN r /\ k # Len(q) + 1
  BY <1>1
<1>4. Len(q) + 1 \in DOMAIN r
  BY <1>1
<1>5. Range(r) = Range(q) \cup {e}
  BY <1>1, <1>2, <1>3, <1>4 DEF Range
<1>6. ASSUME IsInjective(q), e \notin Range(q) PROVE IsInjective(r)
  BY <1>1, <1>2, <1>6 DEF Range, IsInjective
<1> QED
  BY <1>5, <1>6 DEF r

\* What Tail takes from the elements.
LEMMA TailElements ==
  ASSUME NEW S, NEW q \in Seq(S), q # <<>>, IsInjective(q)
  PROVE  /\ Range(Tail(q)) = Range(q) \ {Head(q)}
         /\ Head(q) \in Range(q) /\ Head(q) \in S
         /\ IsInjective(Tail(q))
<1> DEFINE r == Tail(q)
<1>1. /\ Len(q) \in Nat /\ Len(q) >= 1 /\ DOMAIN q = 1..Len(q) /\ DOMAIN r = 1..(Len(q) - 1)
      /\ Head(q) = q[1] /\ q[1] \in S /\ \A k \in 1..(Len(q) - 1) : r[k] = q[k + 1]
  OBVIOUS
<1> HIDE DEF r
<1>2. \A k \in DOMAIN r : k + 1 \in DOMAIN q /\ k + 1 # 1 /\ r[k] = q[k + 1]
  BY <1>1
<1>3. \A k \in DOMAIN q : k = 1 \/ (k - 1 \in DOMAIN r /\ r[k - 1] = q[k])
  BY <1>1
<1>4. 1 \in DOMAIN q
  BY <1>1
<1>5. IsInjective(r)
  <2>1. ASSUME NEW j \in DOMAIN r, NEW k \in DOMAIN r, r[j] = r[k] PROVE j = k
    <3>1. j + 1 = k + 1
      BY <1>2, <2>1 DEF IsInjective
    <3> QED
      BY <1>1, <3>1
  <2> QED
    BY <2>1 DEF IsInjective
<1>6. \A x : x \in Range(r) => x \in Range(q) /\ x # q[1]
  BY <1>2, <1>4 DEF Range, IsInjective
<1>7. \A x : x \in Range(q) /\ x # q[1] => x \in Range(r)
  BY <1>3 DEF Range
<1> QED
  BY <1>1, <1>4, <1>5, <1>6, <1>7 DEF Range, r

\* The elements of a concatenation.
LEMMA ConcatElements ==
  ASSUME NEW S, NEW q \in Seq(S), NEW r \in Seq(S), IsInjective(q), IsInjective(r),
         Range(q) \cap Range(r) = {}
  PROVE  /\ Range(q \o r) = Range(q) \cup Range(r)
         /\ IsInjective(q \o r)
<1> DEFINE t == q \o r
<1>1. /\ Len(q) \in Nat /\ DOMAIN q = 1..Len(q) /\ Len(r) \in Nat /\ DOMAIN r = 1..Len(r)
      /\ DOMAIN t = 1..(Len(q) + Len(r))
      /\ \A k \in 1..(Len(q) + Len(r)) : t[k] = IF k <= Len(q) THEN q[k] ELSE r[k - Len(q)]
  OBVIOUS
<1> HIDE DEF t
<1>2. \A k \in DOMAIN t : \/ k \in DOMAIN q /\ t[k] = q[k]
                          \/ k - Len(q) \in DOMAIN r /\ t[k] = r[k - Len(q)]
  BY <1>1
<1>3. \A k \in DOMAIN q : k \in DOMAIN t /\ t[k] = q[k]
  BY <1>1
<1>4. \A k \in DOMAIN r : k + Len(q) \in DOMAIN t /\ t[k + Len(q)] = r[k]
  BY <1>1
<1>5. Range(t) = Range(q) \cup Range(r)
  BY <1>2, <1>3, <1>4 DEF Range
<1>6. ASSUME NEW j \in DOMAIN t, NEW k \in DOMAIN t, t[j] = t[k] PROVE j = k
  <2>1. CASE j \in DOMAIN q /\ t[j] = q[j] /\ k \in DOMAIN q /\ t[k] = q[k]
    BY <1>6, <2>1 DEF IsInjective
  <2>2. CASE /\ j - Len(q) \in DOMAIN r /\ t[j] = r[j - Len(q)]
             /\ k - Len(q) \in DOMAIN r /\ t[k] = r[k - Len(q)]
    <3>1. j - Len(q) = k - Len(q)
      BY <1>6, <2>2 DEF IsInjective
    <3> QED
      BY <1>1, <3>1
  <2> QED
    BY <1>2, <1>6, <2>1, <2>2 DEF Range
<1>7. IsInjective(t)
  BY <1>6 DEF IsInjective
<1> QED
  BY <1>5, <1>7 DEF t

\* The elements of a queue, as InQueue and OutQueue have them.
LEMMA QueueElements ==
  ASSUME NEW q \in Seq(Job)
  PROVE  {q[k] : k \in 1..Len(q)} = Range(q)
BY DEF Range

-----------------------------------------------------------------------------
(* The way of a job through the queues and the workers *)

\* What JobInv says of the sets alone.
JobSets ==
  /\ \A i, j \in Held : i.msg = j.msg => i = j
  /\ \A i, j \in Pending : i.sock = j.sock => i = j

\* All of these are jobs.
LEMMA JobTypes ==
  ASSUME TypeOK
  PROVE  /\ Held \subseteq Job /\ Pending \subseteq Held /\ Asked \subseteq Held
         /\ Answered \subseteq Pending
         /\ \A w \in Workers : worker[w].at # "pluck" => worker[w].job \in Job
<1>1. \A w \in Workers : /\ worker[w].at \in WorkerPC /\ worker[w].job \in Job \cup {None}
                         /\ worker[w].at # "pluck" => worker[w].job \in Job
  BY DEF TypeOK
<1>2. InQueue \subseteq Job /\ OutQueue \subseteq Job
  BY DEF TypeOK, InQueue, OutQueue
<1> QED
  BY <1>1, <1>2 DEF Held, Pending, Asked, Answered, AtWorker, WorkerPC

\* AtWorker for any state f of the workers, and the part of it that is not w's.
JobsAt(f, places) == {f[v].job : v \in {u \in Workers : f[u].at \in places}}
OtherJobs(f, w, places) == {f[v].job : v \in {u \in Workers \ {w} : f[u].at \in places}}

\* Where a worker has a job that is pending, one with a request to delete last,
\* one with any request, and one with a response.
Answering   == {"dispatch", "respond"}
Deleting    == {"delete"}
HasRequest  == {"dispatch", "respond", "delete"}
HasResponse == {"respond"}

\* Which of these a place is.
LEMMA Places ==
  /\ "pluck" \notin Answering /\ "dispatch" \in Answering
  /\ "respond" \in Answering /\ "delete" \notin Answering
  /\ "pluck" \notin Deleting /\ "dispatch" \notin Deleting
  /\ "respond" \notin Deleting /\ "delete" \in Deleting
  /\ "pluck" \notin HasRequest /\ "dispatch" \in HasRequest
  /\ "respond" \in HasRequest /\ "delete" \in HasRequest
  /\ "pluck" \notin HasResponse /\ "dispatch" \notin HasResponse
  /\ "respond" \in HasResponse /\ "delete" \notin HasResponse
BY DEF Answering, Deleting, HasRequest, HasResponse

\* A step of one worker moves its own job only.
LEMMA WorkerMovesAt ==
  ASSUME NEW w \in Workers, \A v \in Workers \ {w} : worker'[v] = worker[v], NEW P
  PROVE  /\ worker[w].at \in P => JobsAt(worker, P) = OtherJobs(worker, w, P) \cup {worker[w].job}
         /\ worker[w].at \notin P => JobsAt(worker, P) = OtherJobs(worker, w, P)
         /\ worker'[w].at \in P => JobsAt(worker', P) = OtherJobs(worker, w, P) \cup {worker'[w].job}
         /\ worker'[w].at \notin P => JobsAt(worker', P) = OtherJobs(worker, w, P)
BY DEF JobsAt, OtherJobs

\* The same for each of the places above.
LEMMA WorkerMoves ==
  ASSUME NEW w \in Workers, \A v \in Workers \ {w} : worker'[v] = worker[v]
  PROVE  /\ JobsAt(worker, Answering) = IF worker[w].at \in Answering THEN OtherJobs(worker, w, Answering) \cup {worker[w].job}
                                    ELSE OtherJobs(worker, w, Answering)
         /\ JobsAt(worker', Answering) = IF worker'[w].at \in Answering THEN OtherJobs(worker, w, Answering) \cup {worker'[w].job}
                                    ELSE OtherJobs(worker, w, Answering)
         /\ JobsAt(worker, Deleting) = IF worker[w].at \in Deleting THEN OtherJobs(worker, w, Deleting) \cup {worker[w].job}
                                    ELSE OtherJobs(worker, w, Deleting)
         /\ JobsAt(worker', Deleting) = IF worker'[w].at \in Deleting THEN OtherJobs(worker, w, Deleting) \cup {worker'[w].job}
                                    ELSE OtherJobs(worker, w, Deleting)
         /\ JobsAt(worker, HasRequest) = IF worker[w].at \in HasRequest THEN OtherJobs(worker, w, HasRequest) \cup {worker[w].job}
                                    ELSE OtherJobs(worker, w, HasRequest)
         /\ JobsAt(worker', HasRequest) = IF worker'[w].at \in HasRequest THEN OtherJobs(worker, w, HasRequest) \cup {worker'[w].job}
                                    ELSE OtherJobs(worker, w, HasRequest)
         /\ JobsAt(worker, HasResponse) = IF worker[w].at \in HasResponse THEN OtherJobs(worker, w, HasResponse) \cup {worker[w].job}
                                    ELSE OtherJobs(worker, w, HasResponse)
         /\ JobsAt(worker', HasResponse) = IF worker'[w].at \in HasResponse THEN OtherJobs(worker, w, HasResponse) \cup {worker'[w].job}
                                    ELSE OtherJobs(worker, w, HasResponse)
<1>1. /\ JobsAt(worker, Answering) = IF worker[w].at \in Answering THEN OtherJobs(worker, w, Answering) \cup {worker[w].job}
                                    ELSE OtherJobs(worker, w, Answering)
      /\ JobsAt(worker', Answering) = IF worker'[w].at \in Answering THEN OtherJobs(worker, w, Answering) \cup {worker'[w].job}
                                    ELSE OtherJobs(worker, w, Answering)
  BY WorkerMovesAt
<1>2. /\ JobsAt(worker, Deleting) = IF worker[w].at \in Deleting THEN OtherJobs(worker, w, Deleting) \cup {worker[w].job}
                                    ELSE OtherJobs(worker, w, Deleting)
      /\ JobsAt(worker', Deleting) = IF worker'[w].at \in Deleting THEN OtherJobs(worker, w, Deleting) \cup {worker'[w].job}
                                    ELSE OtherJobs(worker, w, Deleting)
  BY WorkerMovesAt
<1>3. /\ JobsAt(worker, HasRequest) = IF worker[w].at \in HasRequest THEN OtherJobs(worker, w, HasRequest) \cup {worker[w].job}
                                    ELSE OtherJobs(worker, w, HasRequest)
      /\ JobsAt(worker', HasRequest) = IF worker'[w].at \in HasRequest THEN OtherJobs(worker, w, HasRequest) \cup {worker'[w].job}
                                    ELSE OtherJobs(worker, w, HasRequest)
  BY WorkerMovesAt
<1>4. /\ JobsAt(worker, HasResponse) = IF worker[w].at \in HasResponse THEN OtherJobs(worker, w, HasResponse) \cup {worker[w].job}
                                    ELSE OtherJobs(worker, w, HasResponse)
      /\ JobsAt(worker', HasResponse) = IF worker'[w].at \in HasResponse THEN OtherJobs(worker, w, HasResponse) \cup {worker'[w].job}
                                    ELSE OtherJobs(worker, w, HasResponse)
  BY WorkerMovesAt
<1> QED
  BY <1>1, <1>2, <1>3, <1>4

\* The sets of jobs, before and after a step.
LEMMA JobNames ==
  /\ Pending = InQueue \cup JobsAt(worker, Answering) \cup OutQueue
  /\ Pending' = InQueue' \cup JobsAt(worker', Answering) \cup OutQueue'
  /\ Held = Pending \cup JobsAt(worker, Deleting)
  /\ Held' = Pending' \cup JobsAt(worker', Deleting)
  /\ Asked = InQueue \cup JobsAt(worker, HasRequest)
  /\ Asked' = InQueue' \cup JobsAt(worker', HasRequest)
  /\ Answered = OutQueue \cup JobsAt(worker, HasResponse)
  /\ Answered' = OutQueue' \cup JobsAt(worker', HasResponse)
<1>1. WorkerPC \ {"pluck"} = HasRequest
  BY DEF WorkerPC, HasRequest
<1> QED
  BY <1>1 DEF Pending, Held, Asked, Answered, AtWorker, JobsAt, Answering, Deleting, HasResponse

\* A worker takes a request: nothing changes but the place of the job.
LEMMA PluckJobs ==
  ASSUME TypeOK, JobInv, NEW w \in Workers, PluckRequest(w)
  PROVE  /\ JobInv' /\ Pending' = Pending /\ Held' = Held
         /\ Asked' = Asked /\ Answered' = Answered
<1> DEFINE h == Head(in_queue)
<1>1. /\ in_queue \in Seq(Job) /\ in_queue # <<>> /\ in_queue' = Tail(in_queue)
      /\ worker[w].at = "pluck" /\ out_queue' = out_queue
      /\ worker' = [worker EXCEPT ![w] = [at |-> "dispatch", job |-> h]]
      /\ worker \in [Workers -> [at : WorkerPC, job : Job \cup {None}]]
  BY DEF PluckRequest, TypeOK, queueVars
<1>2. /\ InQueue' = InQueue \ {h} /\ h \in InQueue /\ h \in Job
      /\ IsInjective(in_queue')
  <2>1. /\ Range(in_queue') = Range(in_queue) \ {h} /\ h \in Range(in_queue) /\ h \in Job
        /\ IsInjective(in_queue')
    BY <1>1, TailElements DEF JobInv
  <2>2. in_queue' \in Seq(Job)
    BY <1>1
  <2>3. InQueue = Range(in_queue) /\ InQueue' = Range(in_queue')
    BY <1>1, <2>2, QueueElements DEF InQueue
  <2> QED
    BY <2>1, <2>3
<1> HIDE DEF h
<1>3. /\ worker'[w] = [at |-> "dispatch", job |-> h]
      /\ \A v \in Workers \ {w} : worker'[v] = worker[v]
  BY <1>1
<1>4. h \notin OutQueue /\ \A v \in Workers : worker[v].at # "pluck" => worker[v].job # h
  BY <1>2 DEF JobInv
<1>5. OutQueue' = OutQueue
  BY <1>1 DEF OutQueue
<1>6. /\ JobsAt(worker, Answering) = OtherJobs(worker, w, Answering)
      /\ JobsAt(worker', Answering) = OtherJobs(worker, w, Answering) \cup {h}
      /\ JobsAt(worker', Deleting) = JobsAt(worker, Deleting)
      /\ JobsAt(worker', HasResponse) = JobsAt(worker, HasResponse)
      /\ JobsAt(worker, HasRequest) = OtherJobs(worker, w, HasRequest)
      /\ JobsAt(worker', HasRequest) = OtherJobs(worker, w, HasRequest) \cup {h}
  <2>1. \A v \in Workers \ {w} : worker'[v] = worker[v]
    BY <1>3
  <2>2. worker[w].at = "pluck" /\ worker'[w].at = "dispatch" /\ worker'[w].job = h
    BY <1>1, <1>3
  <2> QED
    BY <2>1, <2>2, WorkerMoves, Places
<1>7. Pending' = Pending /\ Held' = Held /\ Asked' = Asked /\ Answered' = Answered
  BY <1>2, <1>5, <1>6, JobNames
<1>8. JobInv'
  <2>1. \A v \in Workers :
          /\ worker'[v].at # "pluck" => worker'[v].job \notin InQueue'
          /\ worker'[v].at \in {"dispatch", "respond"} => worker'[v].job \notin OutQueue'
    BY <1>2, <1>3, <1>4, <1>5 DEF JobInv
  <2>2. \A u, v \in Workers : worker'[u].at # "pluck" /\ worker'[u].job = worker'[v].job => u = v
    <3>1. \A v \in Workers \ {w} : worker'[v].job # h
      BY <1>1, <1>2, <1>3, <1>4, NullAssumption DEF TypeOK
    <3> QED
      BY <1>3, <3>1 DEF JobInv
  <2>3. out_queue' = out_queue /\ InQueue' \cap OutQueue' = {}
    BY <1>1, <1>2, <1>5 DEF JobInv
  <2> QED
    BY <1>2, <1>7, <2>1, <2>2, <2>3 DEF JobInv
<1> QED
  BY <1>7, <1>8

\* The response is allocated.
LEMMA DispatchJobs ==
  ASSUME TypeOK, JobInv, NEW w \in Workers, DispatchRequest(w)
  PROVE  /\ JobInv' /\ Pending' = Pending /\ Held' = Held /\ Asked' = Asked
         /\ Answered' = Answered \cup {worker[w].job} /\ worker[w].job \in Pending
<1>1. /\ worker[w].at = "dispatch" /\ UNCHANGED <<in_queue, out_queue>>
      /\ worker' = [worker EXCEPT ![w] = [at |-> "respond", job |-> worker[w].job]]
      /\ worker \in [Workers -> [at : WorkerPC, job : Job \cup {None}]]
  <2>1. worker[w].at = "dispatch" /\ worker \in [Workers -> [at : WorkerPC, job : Job \cup {None}]]
    BY DEF DispatchRequest, TypeOK
  <2>2. worker' = [worker EXCEPT ![w].at = "respond"] /\ UNCHANGED <<in_queue, out_queue>>
    BY DEF DispatchRequest, queueVars
  <2>3. [worker[w] EXCEPT !.at = "respond"] = [at |-> "respond", job |-> worker[w].job]
    BY <2>1
  <2> QED
    BY <2>1, <2>2, <2>3
<1>2. /\ worker'[w] = [at |-> "respond", job |-> worker[w].job]
      /\ \A v \in Workers \ {w} : worker'[v] = worker[v]
  BY <1>1
<1>3. InQueue' = InQueue /\ OutQueue' = OutQueue
  BY <1>1 DEF InQueue, OutQueue
<1>4. /\ JobsAt(worker', Answering) = JobsAt(worker, Answering)
      /\ worker[w].job \in JobsAt(worker, Answering)
      /\ JobsAt(worker', Deleting) = JobsAt(worker, Deleting)
      /\ JobsAt(worker', HasResponse) = JobsAt(worker, HasResponse) \cup {worker[w].job}
      /\ JobsAt(worker', HasRequest) = JobsAt(worker, HasRequest)
  <2>1. \A v \in Workers \ {w} : worker'[v] = worker[v]
    BY <1>2
  <2>2. worker[w].at = "dispatch" /\ worker'[w].at = "respond" /\ worker'[w].job = worker[w].job
    BY <1>1, <1>2
  <2>3. worker[w].job \in JobsAt(worker, Answering)
    BY <2>2, Places DEF JobsAt
  <2> QED
    BY <2>1, <2>2, <2>3, WorkerMoves, Places
<1>5. /\ Pending' = Pending /\ Held' = Held /\ Asked' = Asked
      /\ Answered' = Answered \cup {worker[w].job} /\ worker[w].job \in Pending
  BY <1>3, <1>4, JobNames
<1>6. JobInv'
  BY <1>1, <1>2, <1>3, <1>5 DEF JobInv
<1> QED
  BY <1>5, <1>6

\* The response is pushed.
LEMMA RespondJobs ==
  ASSUME TypeOK, JobInv, NEW w \in Workers, PushResponse(w)
  PROVE  /\ JobInv' /\ Pending' = Pending /\ Held' = Held
         /\ Asked' = Asked /\ Answered' = Answered
<1> DEFINE j == worker[w].job
<1>1. /\ worker[w].at = "respond" /\ UNCHANGED in_queue
      /\ out_queue' = Append(out_queue, j) /\ out_queue \in Seq(Job) /\ j \in Job
      /\ worker' = [worker EXCEPT ![w] = [at |-> "delete", job |-> j]]
      /\ worker \in [Workers -> [at : WorkerPC, job : Job \cup {None}]]
  <2>1. /\ worker[w].at = "respond" /\ out_queue \in Seq(Job) /\ j \in Job
        /\ worker \in [Workers -> [at : WorkerPC, job : Job \cup {None}]]
    BY JobTypes DEF PushResponse, TypeOK
  <2>2. [worker[w] EXCEPT !.at = "delete"] = [at |-> "delete", job |-> j]
    BY <2>1
  <2> QED
    BY <2>1, <2>2 DEF PushResponse
<1>2. /\ worker'[w] = [at |-> "delete", job |-> j]
      /\ \A v \in Workers \ {w} : worker'[v] = worker[v]
  BY <1>1
<1>3. j \notin InQueue /\ j \notin OutQueue
      /\ \A v \in Workers \ {w} : worker[v].job # j
  BY <1>1 DEF JobInv
<1>4. /\ InQueue' = InQueue /\ OutQueue' = OutQueue \cup {j}
      /\ IsInjective(out_queue')
  <2>1. InQueue' = InQueue
    BY <1>1 DEF InQueue
  <2>2. out_queue' \in Seq(Job)
    BY <1>1
  <2>3. OutQueue = Range(out_queue) /\ OutQueue' = Range(out_queue')
    BY <1>1, <2>2, QueueElements DEF OutQueue
  <2> HIDE DEF j
  <2> QED
    BY <1>1, <1>3, <2>1, <2>3, AppendElements DEF JobInv
<1>5. /\ JobsAt(worker, Answering) = OtherJobs(worker, w, Answering) \cup {j}
      /\ JobsAt(worker', Answering) = OtherJobs(worker, w, Answering)
      /\ JobsAt(worker', Deleting) = JobsAt(worker, Deleting) \cup {j}
      /\ JobsAt(worker, HasResponse) = OtherJobs(worker, w, HasResponse) \cup {j}
      /\ JobsAt(worker', HasResponse) = OtherJobs(worker, w, HasResponse)
      /\ JobsAt(worker', HasRequest) = JobsAt(worker, HasRequest)
  <2>1. \A v \in Workers \ {w} : worker'[v] = worker[v]
    BY <1>2
  <2>2. worker[w].at = "respond" /\ worker'[w].at = "delete" /\ worker'[w].job = worker[w].job
    BY <1>1, <1>2
  <2> QED
    BY <2>1, <2>2, WorkerMoves, Places
<1>6. Pending' = Pending /\ Held' = Held /\ Asked' = Asked /\ Answered' = Answered
  BY <1>4, <1>5, JobNames
<1>7. JobInv'
  <2>1. \A v \in Workers :
          /\ worker'[v].at # "pluck" => worker'[v].job \notin InQueue'
          /\ worker'[v].at \in {"dispatch", "respond"} => worker'[v].job \notin OutQueue'
    BY <1>2, <1>3, <1>4 DEF JobInv
  <2>2. \A u, v \in Workers : worker'[u].at # "pluck" /\ worker'[u].job = worker'[v].job => u = v
    BY <1>1, <1>2, <1>3 DEF JobInv
  <2>3. InQueue' \cap OutQueue' = {}
    BY <1>3, <1>4 DEF JobInv
  <2> QED
    BY <1>1, <1>4, <1>6, <2>1, <2>2, <2>3 DEF JobInv
<1> QED
  BY <1>6, <1>7

\* The request is deleted, and the worker has no job.
LEMMA DeleteJobs ==
  ASSUME TypeOK, JobInv, NEW w \in Workers, DeleteRequest(w)
  PROVE  /\ JobInv' /\ Pending' = Pending /\ Held' \subseteq Held
         /\ Asked' = Asked \ {worker[w].job} /\ worker[w].job \in Asked
         /\ Answered' = Answered
<1> DEFINE j == worker[w].job
<1>1. /\ worker[w].at = "delete" /\ UNCHANGED <<in_queue, out_queue>> /\ j \in Job
      /\ worker' = [worker EXCEPT ![w] = Idle]
      /\ worker \in [Workers -> [at : WorkerPC, job : Job \cup {None}]]
  BY JobTypes DEF DeleteRequest, TypeOK, queueVars
<1>2. /\ worker'[w].at = "pluck" /\ worker'[w].job = None
      /\ \A v \in Workers \ {w} : worker'[v] = worker[v]
  BY <1>1 DEF Idle
<1>3. j \notin InQueue /\ \A v \in Workers \ {w} : worker[v].job # j
  BY <1>1 DEF JobInv
<1>4. InQueue' = InQueue /\ OutQueue' = OutQueue
  BY <1>1 DEF InQueue, OutQueue
<1>5. /\ JobsAt(worker', Answering) = JobsAt(worker, Answering)
      /\ JobsAt(worker', HasResponse) = JobsAt(worker, HasResponse)
      /\ JobsAt(worker, Deleting) = OtherJobs(worker, w, Deleting) \cup {j}
      /\ JobsAt(worker', Deleting) = OtherJobs(worker, w, Deleting)
      /\ JobsAt(worker, HasRequest) = OtherJobs(worker, w, HasRequest) \cup {j}
      /\ JobsAt(worker', HasRequest) = OtherJobs(worker, w, HasRequest)
  <2>1. \A v \in Workers \ {w} : worker'[v] = worker[v]
    BY <1>2
  <2>2. worker[w].at = "delete" /\ worker'[w].at = "pluck"
    BY <1>1, <1>2
  <2> QED
    BY <2>1, <2>2, WorkerMoves, Places
<1>6. j \notin OtherJobs(worker, w, HasRequest)
  BY <1>3 DEF OtherJobs
<1> HIDE DEF j
<1>7. /\ Pending' = Pending /\ Held' \subseteq Held /\ Asked' = Asked \ {j}
      /\ j \in Asked /\ Answered' = Answered
  BY <1>3, <1>4, <1>5, <1>6, JobNames
<1>8. JobInv'
  <2>1. \A v \in Workers :
          /\ worker'[v].at # "pluck" => worker'[v].job \notin InQueue'
          /\ worker'[v].at \in {"dispatch", "respond"} => worker'[v].job \notin OutQueue'
    BY <1>2, <1>4 DEF JobInv
  <2>2. \A u, v \in Workers : worker'[u].at # "pluck" /\ worker'[u].job = worker'[v].job => u = v
    <3>1. \A v \in Workers : worker'[v].at # "pluck" => worker'[v].job # None /\ v # w
      BY <1>1, <1>2, JobTypes, NullAssumption
    <3> QED
      BY <1>2, <3>1 DEF JobInv
  <2> QED
    BY <1>1, <1>4, <1>7, <2>1, <2>2 DEF JobInv
<1> QED
  BY <1>7, <1>8 DEF j

\* A uthread pushes a job that no one holds, for a cell that no one waits for.
LEMMA PushJobs ==
  ASSUME TypeOK, JobInv, NEW j \in Job, in_queue' = Append(in_queue, j),
         UNCHANGED <<out_queue, worker>>,
         \A i \in Held : i.msg # j.msg, \A i \in Pending : i.sock # j.sock
  PROVE  /\ JobInv' /\ Pending' = Pending \cup {j} /\ Held' = Held \cup {j}
         /\ Asked' = Asked \cup {j} /\ Answered' = Answered
<1>1. /\ in_queue \in Seq(Job) /\ in_queue' \in Seq(Job)
      /\ out_queue' = out_queue /\ worker' = worker
  BY DEF TypeOK
<1>2. j \notin Held /\ Pending \subseteq Held /\ Held \subseteq Job
  BY JobTypes
<1>3. /\ j \notin InQueue /\ j \notin OutQueue
      /\ \A v \in Workers : worker[v].at # "pluck" => worker[v].job # j
  BY <1>2 DEF Held, Pending, AtWorker, TypeOK, WorkerPC
<1>4. InQueue' = InQueue \cup {j} /\ IsInjective(in_queue')
  <2>1. InQueue = Range(in_queue) /\ InQueue' = Range(in_queue')
    BY <1>1, QueueElements DEF InQueue
  <2> QED
    BY <1>1, <1>3, <2>1, AppendElements DEF JobInv
<1>5. OutQueue' = OutQueue /\ \A P : JobsAt(worker', P) = JobsAt(worker, P)
  BY <1>1 DEF OutQueue
<1>6. /\ Pending' = Pending \cup {j} /\ Held' = Held \cup {j}
      /\ Asked' = Asked \cup {j} /\ Answered' = Answered
  BY <1>4, <1>5, JobNames
<1>7. JobInv'
  <2>1. \A i, k \in Held' : i.msg = k.msg => i = k
    BY <1>6 DEF JobInv
  <2>2. \A i, k \in Pending' : i.sock = k.sock => i = k
    BY <1>6 DEF JobInv
  <2>3. \A v \in Workers :
          /\ worker'[v].at # "pluck" => worker'[v].job \notin InQueue'
          /\ worker'[v].at \in {"dispatch", "respond"} => worker'[v].job \notin OutQueue'
    BY <1>1, <1>3, <1>4, <1>5 DEF JobInv
  <2> QED
    BY <1>1, <1>3, <1>4, <1>5, <2>1, <2>2, <2>3 DEF JobInv
<1> QED
  BY <1>6, <1>7

\* The IO thread takes a response: its job leaves the queues.
LEMMA PopJobs ==
  ASSUME TypeOK, JobInv, out_queue # <<>>, out_queue' = Tail(out_queue),
         UNCHANGED <<in_queue, worker>>
  PROVE  LET h == Head(out_queue) IN
         /\ JobInv' /\ h \in Pending /\ h \in Answered /\ h \in Job
         /\ Pending' = Pending \ {h} /\ Held' \subseteq Held
         /\ Asked' = Asked /\ Answered' = Answered \ {h}
<1> DEFINE h == Head(out_queue)
<1>1. /\ out_queue \in Seq(Job) /\ out_queue' \in Seq(Job)
      /\ in_queue' = in_queue /\ worker' = worker
  BY DEF TypeOK
<1>2. /\ OutQueue' = OutQueue \ {h} /\ h \in OutQueue /\ h \in Job
      /\ IsInjective(out_queue')
  <2>1. OutQueue = Range(out_queue) /\ OutQueue' = Range(out_queue')
    BY <1>1, QueueElements DEF OutQueue
  <2> QED
    BY <1>1, <2>1, TailElements DEF JobInv
<1> HIDE DEF h
<1>3. h \notin InQueue /\ h \notin JobsAt(worker, Answering) /\ h \notin JobsAt(worker, HasResponse)
  BY <1>2 DEF JobInv, JobsAt, Answering, HasResponse
<1>4. InQueue' = InQueue /\ \A P : JobsAt(worker', P) = JobsAt(worker, P)
  BY <1>1 DEF InQueue
<1>5. /\ h \in Pending /\ h \in Answered /\ Pending' = Pending \ {h} /\ Held' \subseteq Held
      /\ Asked' = Asked /\ Answered' = Answered \ {h}
  BY <1>2, <1>3, <1>4, JobNames
<1>6. JobInv'
  <2>1. \A i, k \in Held' : i.msg = k.msg => i = k
    BY <1>5 DEF JobInv
  <2>2. \A i, k \in Pending' : i.sock = k.sock => i = k
    BY <1>5 DEF JobInv
  <2> QED
    BY <1>1, <1>2, <1>4, <2>1, <2>2 DEF JobInv
<1> QED
  BY <1>2, <1>5, <1>6 DEF h

\* A step that leaves the queues and the workers alone.
LEMMA SameJobs ==
  ASSUME JobInv, UNCHANGED <<in_queue, out_queue, worker>>
  PROVE  /\ JobInv' /\ Pending' = Pending /\ Held' = Held
         /\ Asked' = Asked /\ Answered' = Answered
<1>1. in_queue' = in_queue /\ out_queue' = out_queue /\ worker' = worker
  OBVIOUS
<1>2. InQueue' = InQueue /\ OutQueue' = OutQueue /\ \A P : JobsAt(worker', P) = JobsAt(worker, P)
  BY <1>1 DEF InQueue, OutQueue
<1>3. Pending' = Pending /\ Held' = Held /\ Asked' = Asked /\ Answered' = Answered
  BY <1>2, JobNames
<1>4. JobInv'
  BY <1>1, <1>2, <1>3 DEF JobInv
<1> QED
  BY <1>3, <1>4

-----------------------------------------------------------------------------
(* Types *)

\* What is written into a cell is a cell.
LEMMA CellWrites ==
  ASSUME NEW f \in [Cells -> CellType], NEW a
  PROVE  /\ [f EXCEPT ![a] = FreeCell] \in [Cells -> CellType]
         /\ \A m \in Message \cup {None} : [f EXCEPT ![a].args = m] \in [Cells -> CellType]
         /\ [f EXCEPT ![a].destroyed = TRUE] \in [Cells -> CellType]
<1>1. FreeCell \in CellType
  BY DEF FreeCell, CellType
<1>2. [f EXCEPT ![a] = FreeCell] \in [Cells -> CellType]
  BY <1>1
<1>3. ASSUME NEW m \in Message \cup {None}
      PROVE  [f EXCEPT ![a].args = m] \in [Cells -> CellType]
  BY DEF CellType
<1>4. [f EXCEPT ![a].destroyed = TRUE] \in [Cells -> CellType]
  BY DEF CellType
<1> QED
  BY <1>2, <1>3, <1>4

\* What an admitted request is pushed as.
LEMMA CanPush ==
  ASSUME TypeOK, NumInv, CellInv, NEW c \in Conns, pc[c] = "admitted"
  PROVE  [sock |-> socket[c], msg |-> <<c, reqno[c]>>] \in Job
<1>1. Stage[c] = "reading"
  BY DEF Stage
<1>2. socket[c] # None /\ reqno[c] > 0
  BY <1>1 DEF NumInv, CellInv
<1>3. socket[c] \in Cells /\ reqno[c] \in 1..MaxRequests
  BY <1>2, UnitAssumption DEF TypeOK
<1> QED
  BY <1>3 DEF Job, Message

\* Every step keeps the types.
LEMMA TypeStep ==
  ASSUME TypeOK, AcceptInv, NumInv, CellInv, Next
  PROVE  TypeOK'
<1> USE UnitAssumption DEF TypeOK, acceptVars, memoryVars, ioVars, queueVars
<1>1. ASSUME NEW c \in Conns, Accept(c) PROVE TypeOK'
  BY <1>1 DEF Accept
<1>2. ASSUME TooManyConnections PROVE TypeOK'
  BY <1>2 DEF TooManyConnections, RejectAccepted, AcceptInv, ConnPC
<1>3. ASSUME CanAccept PROVE TypeOK'
  BY <1>3 DEF CanAccept
<1>4. ASSUME AcceptQueueFull PROVE TypeOK'
  BY <1>4 DEF AcceptQueueFull, RejectAccepted, AcceptInv, ConnPC
<1>5. ASSUME AddAcceptedFd PROVE TypeOK'
  BY <1>5 DEF AddAcceptedFd, AcceptInv, ConnPC
<1>6. ASSUME CountAccepted PROVE TypeOK'
  BY <1>6 DEF CountAccepted
<1>7. ASSUME EpollWait PROVE TypeOK'
  BY <1>7 DEF EpollWait, Phases
<1>8. ASSUME EventsDone PROVE TypeOK'
  BY <1>8 DEF EventsDone, Phases
<1>9. ASSUME ActiveSocket PROVE TypeOK'
  <2>1. Head(out_queue) \in Job /\ out_queue' \in Seq(Job)
    BY <1>9 DEF ActiveSocket
  <2>2. cell' \in [Cells -> CellType]
    BY <1>9, <2>1, CellWrites DEF ActiveSocket, Job
  <2>3. pc' \in [Conns -> ConnPC]
    BY <1>9 DEF ActiveSocket, ConnPC, RunningPC
  <2> QED
    BY <1>9, <2>1, <2>2, <2>3 DEF ActiveSocket
<1>10. ASSUME LateResponse PROVE TypeOK'
  <2>1. cell' \in [Cells -> CellType]
    BY <1>10, CellWrites DEF LateResponse
  <2> QED
    BY <1>10, <2>1 DEF LateResponse
<1>11. ASSUME ActiveDone PROVE TypeOK'
  BY <1>11 DEF ActiveDone, Phases
<1>12. ASSUME HandlerAcceptedFd PROVE TypeOK'
  BY <1>12 DEF HandlerAcceptedFd, ConnPC, Phases
<1>13. ASSUME StartTask PROVE TypeOK'
  BY <1>13 DEF StartTask, CellType, Message, ConnPC, RunningPC
<1>14. ASSUME TodoDone PROVE TypeOK'
  BY <1>14 DEF TodoDone, Phases
<1>15. ASSUME NEW c \in Conns, Event(c) PROVE TypeOK'
  BY <1>15 DEF Event, ConnPC, RunningPC
<1>16. ASSUME NEW c \in Conns, Timeout(c) PROVE TypeOK'
  BY <1>16 DEF Timeout, ConnPC, RunningPC
<1>17. ASSUME NEW c \in Conns, RecvBlock(c) PROVE TypeOK'
  BY <1>17 DEF RecvBlock, ConnPC, Suspended
<1>18. ASSUME NEW c \in Conns, RecvFail(c) PROVE TypeOK'
  BY <1>18 DEF RecvFail, ConnPC, RunningPC
<1>19. ASSUME NEW c \in Conns, RecvReq(c) PROVE TypeOK'
  BY <1>19 DEF RecvReq, ConnPC, RunningPC
<1>20. ASSUME NEW c \in Conns, CanPushRequest(c) PROVE TypeOK'
  BY <1>20 DEF CanPushRequest, ConnPC, RunningPC
<1>21. ASSUME NEW c \in Conns, RejectRequest(c) PROVE TypeOK'
  BY <1>21 DEF RejectRequest, ConnPC, RunningPC
<1>22. ASSUME NEW c \in Conns, PushRequest(c) PROVE TypeOK'
  <2>1. [sock |-> socket[c], msg |-> <<c, reqno[c]>>] \in Job
    BY <1>22, CanPush DEF PushRequest
  <2>2. cell' \in [Cells -> CellType]
    BY <1>22, <2>1, CellWrites DEF PushRequest, Job
  <2>3. pc' \in [Conns -> ConnPC]
    BY <1>22 DEF PushRequest, ConnPC, Suspended
  <2>4. in_queue' \in Seq(Job)
    BY <1>22, <2>1 DEF PushRequest
  <2> QED
    BY <1>22, <2>2, <2>3, <2>4 DEF PushRequest
<1>23. ASSUME NEW c \in Conns, WaitTimedOut(c) PROVE TypeOK'
  <2>1. cell' \in [Cells -> CellType]
    BY <1>23, CellWrites DEF WaitTimedOut
  <2>2. pc' \in [Conns -> ConnPC]
    BY <1>23 DEF WaitTimedOut, ConnPC, RunningPC
  <2> QED
    BY <1>23, <2>1, <2>2 DEF WaitTimedOut
<1>24. ASSUME NEW c \in Conns, WaitAnswered(c) PROVE TypeOK'
  BY <1>24 DEF WaitAnswered, ConnPC, RunningPC
<1>25. ASSUME NEW c \in Conns, SendBlock(c) PROVE TypeOK'
  BY <1>25 DEF SendBlock, ConnPC, Suspended
<1>26. ASSUME NEW c \in Conns, SendResp(c) PROVE TypeOK'
  <2>1. blocks' \in [Conns -> 0..MaxBlocks]
    <3>1. 0 \in 0..MaxBlocks
      OBVIOUS
    <3> QED
      BY <1>26, <3>1 DEF SendResp
  <2>2. pc' = [pc EXCEPT ![c] = "exit"] \/ pc' = [pc EXCEPT ![c] = "recv"]
    BY <1>26 DEF SendResp
  <2>3. pc' \in [Conns -> ConnPC]
    BY <2>2 DEF ConnPC, RunningPC
  <2>4. responses' \in SUBSET Message
    BY <1>26 DEF SendResp
  <2>5. CASE UNCHANGED <<reqno, requests>>
    BY <1>26, <2>1, <2>3, <2>4, <2>5 DEF SendResp
  <2>6. CASE /\ reqno[c] < MaxRequests
             /\ reqno' = [reqno EXCEPT ![c] = @ + 1]
             /\ requests' = requests \cup {<<c, reqno[c] + 1>>}
    <3>1. reqno[c] + 1 \in 0..MaxRequests /\ reqno[c] + 1 \in 1..MaxRequests
      BY <2>6
    <3>2. reqno' \in [Conns -> 0..MaxRequests] /\ requests' \in SUBSET Message
      BY <2>6, <3>1 DEF Message
    <3> QED
      BY <1>26, <2>1, <2>3, <2>4, <3>2 DEF SendResp
  <2> QED
    BY <1>26, <2>5, <2>6 DEF SendResp
<1>27. ASSUME NEW c \in Conns, ReleaseHold(c) PROVE TypeOK'
  BY <1>27 DEF ReleaseHold, ConnPC, RunningPC
<1>28. ASSUME NEW c \in Conns, DestroyStream(c) PROVE TypeOK'
  <2>1. cell' \in [Cells -> CellType]
    <3>1. cell' = cell \/ cell' = [cell EXCEPT ![socket[c]] = FreeCell]
      BY <1>28 DEF DestroyStream
    <3>2. cell \in [Cells -> CellType]
      OBVIOUS
    <3>3. [cell EXCEPT ![socket[c]] = FreeCell] \in [Cells -> CellType]
      BY <3>2, CellWrites
    <3> QED
      BY <3>1, <3>2, <3>3
  <2>2. pc' \in [Conns -> ConnPC] /\ socket' \in [Conns -> Cells \cup {None}] /\ open' \in SUBSET Conns
    BY <1>28 DEF DestroyStream, ConnPC
  <2> QED
    BY <1>28, <2>1, <2>2 DEF DestroyStream
<1>29. ASSUME NEW w \in Workers, PluckRequest(w) PROVE TypeOK'
  <2>1. Head(in_queue) \in Job /\ in_queue' \in Seq(Job)
    BY <1>29 DEF PluckRequest
  <2>2. worker' = [worker EXCEPT ![w] = [at |-> "dispatch", job |-> Head(in_queue)]]
    BY <1>29 DEF PluckRequest
  <2>3. worker' \in [Workers -> [at : WorkerPC, job : Job \cup {None}]]
    BY <2>1, <2>2 DEF WorkerPC
  <2>4. \A v \in Workers : worker'[v].at = "pluck" <=> worker'[v].job = None
    BY <2>1, <2>2, NullAssumption
  <2> QED
    BY <1>29, <2>1, <2>3, <2>4 DEF PluckRequest
<1>30. ASSUME NEW w \in Workers, DispatchRequest(w) PROVE TypeOK'
  BY <1>30 DEF DispatchRequest, Job, WorkerPC
<1>31. ASSUME NEW w \in Workers, PushResponse(w) PROVE TypeOK'
  <2>1. worker[w].job \in Job
    BY <1>31, JobTypes DEF PushResponse
  <2>2. worker' \in [Workers -> [at : WorkerPC, job : Job \cup {None}]]
    BY <1>31 DEF PushResponse, WorkerPC
  <2>3. \A v \in Workers : worker'[v].at = "pluck" <=> worker'[v].job = None
    BY <1>31 DEF PushResponse
  <2>4. out_queue' \in Seq(Job)
    BY <1>31, <2>1 DEF PushResponse
  <2> QED
    BY <1>31, <2>2, <2>3, <2>4 DEF PushResponse
<1>32. ASSUME NEW w \in Workers, DeleteRequest(w) PROVE TypeOK'
  BY <1>32 DEF DeleteRequest, WorkerPC, Idle
<1> QED
  BY <1>1, <1>2, <1>3, <1>4, <1>5, <1>6, <1>7, <1>8, <1>9, <1>10, <1>11, <1>12, <1>13, <1>14, <1>15, <1>16, <1>17, <1>18, <1>19, <1>20, <1>21, <1>22, <1>23, <1>24, <1>25, <1>26, <1>27, <1>28, <1>29, <1>30, <1>31, <1>32
     DEF Next, AcceptorStep, SchedulerStep, IOFunc, WorkerStep

-----------------------------------------------------------------------------
(* Who runs, what is listed, and the limits *)

\* What a step of IOFunc, or of the scheduler that resumes it, may change of the
\* lists, the counter and the place of the uthread.
ConnMove(c) ==
  /\ \A d \in Conns \ {c} : pc'[d] = pc[d]
  /\ UNCHANGED <<accept_pc, accepted_fd, accepted_fd_list, todo_list, phase>>
  /\ pc[c] \in Suspended \cup RunningPC
  /\ pc'[c] \in Suspended \cup RunningPC \cup {"done"}
  /\ Running = {} \/ c \in Running
  /\ events' \subseteq events /\ c \notin events'
  /\ pc'[c] = "admitted" => Len(in_queue) < MaxQueueLength
  /\ \/ in_queue' = in_queue
     \/ pc[c] = "admitted" /\ pc'[c] = "wait" /\ Len(in_queue') = Len(in_queue) + 1
  /\ pc[c] = "exit" => pc'[c] = "destroy" /\ hold_fds' = hold_fds - 1
  /\ pc[c] = "destroy" => pc'[c] = "done" /\ hold_fds' = hold_fds
  /\ pc[c] \notin {"exit", "destroy"} =>
       pc'[c] \notin {"destroy", "done"} /\ hold_fds' = hold_fds

\* What a step may change in which no connection moves.
QuietMove ==
  /\ UNCHANGED <<accept_pc, accepted_fd, hold_fds, accepted_fd_list, todo_list, pc>>
  /\ events' = {} \/ (phase' = "events" /\ \A c \in events' : pc[c] \in {"recv_wait", "send_wait"})
                   \/ UNCHANGED <<phase, events>>
  /\ Len(in_queue') <= Len(in_queue)

\* A step that resumes or runs the uthread of a connection is a ConnMove.
LEMMA ConnMoves ==
  ASSUME TypeOK, RunInv, NEW c \in Conns, Event(c) \/ Timeout(c) \/ IOFunc(c)
  PROVE  ConnMove(c)
<1>1. /\ pc \in [Conns -> ConnPC] /\ in_queue \in Seq(Job)
      /\ c \in Running <=> pc[c] \in RunningPC
      /\ phase # "events" => events = {}
      /\ pc[c] \in RunningPC => c \notin events
  BY DEF TypeOK, RunInv, Running, RunningPC
<1> DEFINE Rest == /\ events' \subseteq events /\ c \notin events'
                   /\ Running = {} \/ c \in Running
                   /\ UNCHANGED <<accept_pc, accepted_fd, accepted_fd_list, todo_list, phase>>
<1>2. Rest
  BY <1>1 DEF Event, Timeout, IOFunc, RecvBlock, RecvFail, RecvReq, CanPushRequest, RejectRequest,
     PushRequest, WaitTimedOut, WaitAnswered, SendBlock, SendResp, ReleaseHold, DestroyStream,
     acceptVars, ioVars, RunningPC
<1> HIDE DEF Rest
<1> DEFINE Move == /\ \A d \in Conns \ {c} : pc'[d] = pc[d]
                   /\ pc[c] \in (Suspended \cup RunningPC) \ {"exit", "destroy"}
                   /\ pc'[c] \in (Suspended \cup RunningPC) \ {"admitted", "destroy"}
           Same == in_queue' = in_queue /\ hold_fds' = hold_fds
           Core == /\ \A d \in Conns \ {c} : pc'[d] = pc[d]
                   /\ pc[c] \in Suspended \cup RunningPC
                   /\ pc'[c] \in Suspended \cup RunningPC \cup {"done"}
                   /\ pc'[c] = "admitted" => Len(in_queue) < MaxQueueLength
                   /\ \/ in_queue' = in_queue
                      \/ pc[c] = "admitted" /\ pc'[c] = "wait" /\ Len(in_queue') = Len(in_queue) + 1
                   /\ pc[c] = "exit" => pc'[c] = "destroy" /\ hold_fds' = hold_fds - 1
                   /\ pc[c] = "destroy" => pc'[c] = "done" /\ hold_fds' = hold_fds
                   /\ pc[c] \notin {"exit", "destroy"} =>
                        pc'[c] \notin {"destroy", "done"} /\ hold_fds' = hold_fds
<1>3. ASSUME Move, Same PROVE Core
  BY <1>3 DEF Suspended, RunningPC
<1> SUFFICES Core
  BY <1>2 DEF ConnMove, Rest
<1> HIDE DEF Core
<1>4. CASE Event(c)
  <2>1. Same
    BY <1>4 DEF Event, queueVars
  <2>2. pc[c] \in {"recv_wait", "send_wait"}
    BY <1>4 DEF Event, RunInv
  <2>3. Move
    BY <1>1, <1>4, <2>2 DEF Event, Suspended, RunningPC
  <2> QED
    BY <1>3, <2>1, <2>3
<1>5. CASE Timeout(c)
  <2>1. Same
    BY <1>5 DEF Timeout, queueVars
  <2>2. Move
    BY <1>1, <1>5 DEF Timeout, Suspended, RunningPC
  <2> QED
    BY <1>3, <2>1, <2>2
<1>6. CASE RecvBlock(c)
  <2>1. Same
    BY <1>6 DEF RecvBlock, queueVars
  <2>2. Move
    BY <1>1, <1>6 DEF RecvBlock, Suspended, RunningPC
  <2> QED
    BY <1>3, <2>1, <2>2
<1>7. CASE RecvFail(c)
  <2>1. Same
    BY <1>7 DEF RecvFail, queueVars
  <2>2. Move
    BY <1>1, <1>7 DEF RecvFail, Suspended, RunningPC
  <2> QED
    BY <1>3, <2>1, <2>2
<1>8. CASE RecvReq(c)
  <2>1. Same
    BY <1>8 DEF RecvReq, queueVars
  <2>2. Move
    BY <1>1, <1>8 DEF RecvReq, Suspended, RunningPC
  <2> QED
    BY <1>3, <2>1, <2>2
<1>9. CASE RejectRequest(c)
  <2>1. Same
    BY <1>9 DEF RejectRequest, queueVars
  <2>2. Move
    BY <1>1, <1>9 DEF RejectRequest, Suspended, RunningPC
  <2> QED
    BY <1>3, <2>1, <2>2
<1>10. CASE WaitTimedOut(c)
  <2>1. Same
    BY <1>10 DEF WaitTimedOut, queueVars
  <2>2. Move
    BY <1>1, <1>10 DEF WaitTimedOut, Suspended, RunningPC
  <2> QED
    BY <1>3, <2>1, <2>2
<1>11. CASE WaitAnswered(c)
  <2>1. Same
    BY <1>11 DEF WaitAnswered, queueVars
  <2>2. Move
    BY <1>1, <1>11 DEF WaitAnswered, Suspended, RunningPC
  <2> QED
    BY <1>3, <2>1, <2>2
<1>12. CASE SendBlock(c)
  <2>1. Same
    BY <1>12 DEF SendBlock, queueVars
  <2>2. Move
    BY <1>1, <1>12 DEF SendBlock, Suspended, RunningPC
  <2> QED
    BY <1>3, <2>1, <2>2
<1>13. CASE SendResp(c)
  <2>1. Same
    BY <1>13 DEF SendResp, queueVars
  <2>2. Move
    BY <1>1, <1>13 DEF SendResp, Suspended, RunningPC
  <2> QED
    BY <1>3, <2>1, <2>2
<1>14. CASE CanPushRequest(c)
  <2>1. pc[c] = "parsed" /\ pc'[c] = "admitted" /\ \A d \in Conns \ {c} : pc'[d] = pc[d]
    BY <1>1, <1>14 DEF CanPushRequest
  <2> QED
    BY <1>14, <2>1 DEF CanPushRequest, Core, Suspended, RunningPC, queueVars
<1>15. CASE PushRequest(c)
  <2>1. pc[c] = "admitted" /\ pc'[c] = "wait" /\ \A d \in Conns \ {c} : pc'[d] = pc[d]
    BY <1>1, <1>15 DEF PushRequest
  <2>2. Len(in_queue') = Len(in_queue) + 1
    BY <1>1, <1>15 DEF PushRequest
  <2> QED
    BY <1>15, <2>1, <2>2 DEF PushRequest, Core, Suspended, RunningPC
<1>16. CASE ReleaseHold(c)
  <2>1. pc[c] = "exit" /\ pc'[c] = "destroy" /\ \A d \in Conns \ {c} : pc'[d] = pc[d]
    BY <1>1, <1>16 DEF ReleaseHold
  <2> QED
    BY <1>16, <2>1 DEF ReleaseHold, Core, Suspended, RunningPC, queueVars
<1>17. CASE DestroyStream(c)
  <2>1. pc[c] = "destroy" /\ pc'[c] = "done" /\ \A d \in Conns \ {c} : pc'[d] = pc[d]
    BY <1>1, <1>17 DEF DestroyStream
  <2> QED
    BY <1>17, <2>1 DEF DestroyStream, Core, Suspended, RunningPC, queueVars
<1> QED
  BY <1>4, <1>5, <1>6, <1>7, <1>8, <1>9, <1>10, <1>11, <1>12, <1>13, <1>14, <1>15, <1>16, <1>17 DEF IOFunc

\* The response that is taken wakes a uthread that waits for it.
LEMMA ActiveMoves ==
  ASSUME TypeOK, RunInv, JobInv, CellInv, ActiveSocket
  PROVE  /\ cell[Head(out_queue).sock].conn \in Conns
         /\ ConnMove(cell[Head(out_queue).sock].conn)
<1> DEFINE job == Head(out_queue)
           c   == job.msg[1]
<1>1. job \in Pending /\ job \in Job
  BY PopJobs DEF ActiveSocket
<1>2. ~cell[job.sock].destroyed
  BY DEF ActiveSocket
<1>3. cell[job.sock].conn = c /\ Stage[c] = "waiting" /\ c \in Conns
  BY <1>1, <1>2 DEF CellInv, Job, Message
<1> HIDE DEF job
<1>4. pc[c] \in {"wait", "woken"} /\ pc \in [Conns -> ConnPC] /\ in_queue' = in_queue
  BY <1>3 DEF Stage, ConnPC, TypeOK, Suspended, RunningPC, ActiveSocket
<1>5. pc' = [pc EXCEPT ![c] = "woken"] /\ Running = {} /\ events = {} /\ hold_fds' = hold_fds
  BY <1>3 DEF ActiveSocket, RunInv, job
<1>6. UNCHANGED <<accept_pc, accepted_fd, accepted_fd_list, todo_list, phase, events>>
  BY DEF ActiveSocket, acceptVars
<1>7. /\ pc'[c] = "woken" /\ \A d \in Conns \ {c} : pc'[d] = pc[d]
      /\ events' \subseteq events /\ c \notin events'
  BY <1>3, <1>4, <1>5, <1>6
<1>8. ConnMove(c)
  BY <1>4, <1>5, <1>6, <1>7 DEF ConnMove, Suspended, RunningPC
<1> QED
  BY <1>3, <1>8 DEF job

\* These steps move no connection.
LEMMA QuietMoves ==
  ASSUME TypeOK, RunInv, \/ EpollWait \/ EventsDone \/ LateResponse \/ ActiveDone \/ TodoDone
                         \/ \E w \in Workers : WorkerStep(w)
  PROVE  QuietMove
<1>1. /\ phase # "events" => events = {}
      /\ in_queue \in Seq(Job) /\ Len(in_queue) \in Nat
      /\ in_queue # <<>> => Len(Tail(in_queue)) <= Len(in_queue)
  BY DEF TypeOK, RunInv
<1>2. CASE EpollWait
  BY <1>1, <1>2 DEF EpollWait, QuietMove, acceptVars, queueVars
<1>3. CASE EventsDone \/ LateResponse \/ ActiveDone \/ TodoDone
  BY <1>1, <1>3 DEF EventsDone, LateResponse, ActiveDone, TodoDone, QuietMove, acceptVars, queueVars,
     ioVars
<1>4. ASSUME NEW w \in Workers, WorkerStep(w) PROVE QuietMove
  BY <1>1, <1>4 DEF WorkerStep, PluckRequest, DispatchRequest, PushResponse, DeleteRequest, QuietMove,
     acceptVars, queueVars, ioVars
<1> QED
  BY <1>2, <1>3, <1>4

\* Every step is one of nine as far as the lists and the counter are concerned.
LEMMA Moves ==
  ASSUME TypeOK, RunInv, JobInv, CellInv, Next
  PROVE  \/ \E c \in Conns : Accept(c)
         \/ accept_pc \in {"check", "add"} /\ RejectAccepted
         \/ CanAccept \/ AddAcceptedFd \/ CountAccepted
         \/ HandlerAcceptedFd \/ StartTask
         \/ \E c \in Conns : ConnMove(c)
         \/ QuietMove
<1>1. CASE AcceptorStep
  BY <1>1 DEF AcceptorStep, TooManyConnections, AcceptQueueFull
<1>2. CASE ActiveSocket
  BY <1>2, ActiveMoves
<1>3. CASE SchedulerStep /\ ~ActiveSocket
  BY <1>3, QuietMoves DEF SchedulerStep
<1>4. ASSUME NEW c \in Conns, Event(c) \/ Timeout(c) \/ IOFunc(c) PROVE ConnMove(c)
  BY <1>4, ConnMoves
<1>5. ASSUME NEW w \in Workers, WorkerStep(w) PROVE QuietMove
  BY <1>5, QuietMoves
<1> QED
  BY <1>1, <1>2, <1>3, <1>4, <1>5 DEF Next

\* The acceptor's connection stays new until the acceptor moves it.
LEMMA AcceptStep ==
  ASSUME TypeOK, AcceptInv, RunInv, JobInv, CellInv, Next
  PROVE  AcceptInv'
<1> USE UnitAssumption DEF AcceptInv, acceptVars, ioVars
<1>1. ASSUME NEW c \in Conns, Accept(c) PROVE AcceptInv'
  BY <1>1 DEF Accept, TypeOK
<1>2. CASE accept_pc \in {"check", "add"} /\ RejectAccepted
  BY <1>2 DEF RejectAccepted
<1>3. CASE CanAccept \/ AddAcceptedFd \/ CountAccepted
  BY <1>3 DEF CanAccept, AddAcceptedFd, CountAccepted
<1>4. CASE HandlerAcceptedFd
  BY <1>4 DEF HandlerAcceptedFd, TypeOK
<1>5. CASE StartTask
  <2>1. Head(todo_list) \in Conns /\ pc[Head(todo_list)] = "todo"
    BY <1>5, TailElements DEF StartTask, TypeOK, RunInv
  <2>2. \A d \in Conns : pc[d] = "new" => pc'[d] = "new"
    BY <1>5, <2>1 DEF StartTask, TypeOK
  <2> QED
    BY <1>5, <2>2 DEF StartTask, TypeOK
<1>6. ASSUME NEW c \in Conns, ConnMove(c) PROVE AcceptInv'
  BY <1>6 DEF ConnMove, TypeOK, Suspended, RunningPC
<1>7. CASE QuietMove
  BY <1>7 DEF QuietMove
<1> QED
  BY <1>1, <1>2, <1>3, <1>4, <1>5, <1>6, <1>7, Moves

\* One uthread runs at a time, and the lists stay true.
LEMMA RunStep ==
  ASSUME TypeOK, in_queue' \in Seq(Job), AcceptInv, RunInv, JobInv, CellInv, Next
  PROVE  RunInv'
<1> USE DEF acceptVars, ioVars, queueVars
<1>1. ASSUME NEW c \in Conns, Accept(c) PROVE RunInv'
  BY <1>1 DEF Accept, RunInv, Running
<1>2. CASE accept_pc \in {"check", "add"} /\ RejectAccepted
  <2>1. pc[accepted_fd] = "new" /\ pc \in [Conns -> ConnPC] /\ in_queue' = in_queue
    BY <1>2 DEF AcceptInv, TypeOK, RejectAccepted
  <2>2. pc' = [pc EXCEPT ![accepted_fd] = "done"]
        /\ UNCHANGED <<accepted_fd_list, todo_list, phase, events>>
    BY <1>2 DEF RejectAccepted
  <2>3. Running' = Running
    BY <2>1, <2>2 DEF Running, RunningPC
  <2>4. Range(accepted_fd_list) \subseteq Conns /\ Range(todo_list) \subseteq Conns
        /\ events \subseteq Conns
    BY DEF TypeOK, Range
  <2> QED
    BY <2>1, <2>2, <2>3, <2>4 DEF RunInv
<1>3. CASE CanAccept \/ CountAccepted
  BY <1>3 DEF CanAccept, CountAccepted, RunInv, Running
<1>4. CASE AddAcceptedFd
  <2>1. pc[accepted_fd] = "new" /\ pc \in [Conns -> ConnPC] /\ accepted_fd \in Conns
        /\ accepted_fd_list \in Seq(Conns) /\ in_queue' = in_queue
    BY <1>4, UnitAssumption DEF AcceptInv, TypeOK, AddAcceptedFd
  <2>2. pc' = [pc EXCEPT ![accepted_fd] = "listed"]
        /\ accepted_fd_list' = Append(accepted_fd_list, accepted_fd)
        /\ UNCHANGED <<todo_list, phase, events>>
    BY <1>4 DEF AddAcceptedFd
  <2>3. Running' = Running
    BY <2>1, <2>2 DEF Running, RunningPC
  <2>4. Range(accepted_fd_list) \subseteq Conns /\ Range(todo_list) \subseteq Conns
        /\ events \subseteq Conns
    BY DEF TypeOK, Range
  <2>5. accepted_fd \notin Range(accepted_fd_list)
    BY <2>1 DEF RunInv
  <2>6. /\ Range(accepted_fd_list') = Range(accepted_fd_list) \cup {accepted_fd}
        /\ IsInjective(accepted_fd_list')
    BY <2>1, <2>2, <2>5, AppendElements DEF RunInv
  <2> QED
    BY <2>1, <2>2, <2>3, <2>4, <2>6 DEF RunInv
<1>5. CASE HandlerAcceptedFd
  <2>1. /\ todo_list' = todo_list \o accepted_fd_list /\ accepted_fd_list' = <<>>
        /\ pc' = [c \in Conns |-> IF pc[c] = "listed" THEN "todo" ELSE pc[c]]
        /\ phase' = "todo" /\ events = {} /\ events' = events /\ in_queue' = in_queue
    BY <1>5 DEF HandlerAcceptedFd, RunInv
  <2>2. /\ Range(accepted_fd_list) \subseteq Conns /\ Range(todo_list) \subseteq Conns
        /\ todo_list \in Seq(Conns) /\ accepted_fd_list \in Seq(Conns)
    BY DEF TypeOK, Range
  <2>3. Range(todo_list') = Range(todo_list) \cup Range(accepted_fd_list) /\ IsInjective(todo_list')
    <3>1. /\ IsInjective(todo_list) /\ IsInjective(accepted_fd_list)
          /\ Range(todo_list) \cap Range(accepted_fd_list) = {}
      BY DEF RunInv
    <3> QED
      BY <2>1, <2>2, <3>1, ConcatElements
  <2>4. Running' = Running
    BY <2>1 DEF Running, RunningPC
  <2>5. IsInjective(accepted_fd_list') /\ Range(accepted_fd_list') = {}
    BY <2>1 DEF Range, IsInjective
  <2> QED
    BY <2>1, <2>2, <2>3, <2>4, <2>5 DEF RunInv
<1>6. CASE StartTask
  <2> DEFINE c == Head(todo_list)
  <2>1. /\ c \in Conns /\ pc[c] = "todo" /\ Range(todo_list') = Range(todo_list) \ {c}
        /\ IsInjective(todo_list')
    BY <1>6, TailElements DEF StartTask, TypeOK, RunInv
  <2>2. /\ pc' = [pc EXCEPT ![c] = "recv"] /\ Running = {} /\ pc \in [Conns -> ConnPC]
        /\ UNCHANGED <<accepted_fd_list, phase, events, in_queue>>
    BY <1>6 DEF StartTask, TypeOK
  <2>3. Range(accepted_fd_list) \subseteq Conns /\ Range(todo_list) \subseteq Conns
        /\ events \subseteq Conns
    BY DEF TypeOK, Range
  <2> HIDE DEF c
  <2>4. Running' = {c}
    BY <2>1, <2>2 DEF Running, RunningPC
  <2> QED
    BY <2>1, <2>2, <2>3, <2>4 DEF RunInv
<1>7. ASSUME NEW c \in Conns, ConnMove(c) PROVE RunInv'
  <2>1. Range(accepted_fd_list) \subseteq Conns /\ Range(todo_list) \subseteq Conns
        /\ events \subseteq Conns /\ pc \in [Conns -> ConnPC] /\ in_queue \in Seq(Job)
    BY DEF TypeOK, Range
  <2>2. Running' \subseteq Running \cup {c} /\ (Running = {} \/ Running = {c})
    BY <1>7 DEF Running, ConnMove, RunInv
  <2>3. pc[c] \notin {"listed", "todo"}
    BY <1>7 DEF ConnMove, Suspended, RunningPC
  <2>4. \A d \in Conns : pc'[d] = "admitted" => Len(in_queue') < MaxQueueLength
    <3> SUFFICES ASSUME NEW d \in Conns, pc'[d] = "admitted" PROVE Len(in_queue') < MaxQueueLength
      OBVIOUS
    <3>1. CASE d = c
      <4>1. Len(in_queue) < MaxQueueLength
        BY <1>7, <3>1 DEF ConnMove
      <4> QED
        BY <1>7, <3>1, <4>1 DEF ConnMove
    <3>2. CASE d # c
      <4>1. pc[d] = "admitted" /\ d \in Running
        BY <1>7, <3>2 DEF ConnMove, Running, RunningPC
      <4> QED
        BY <2>2, <3>2, <4>1
    <3> QED
      BY <3>1, <3>2
  <2> QED
    BY <1>7, <2>1, <2>2, <2>3, <2>4 DEF ConnMove, RunInv
<1>8. CASE QuietMove
  <2>1. Running' = Running /\ Len(in_queue) \in Nat /\ Len(in_queue') \in Nat
    BY <1>8 DEF QuietMove, Running, TypeOK
  <2> QED
    BY <1>8, <2>1, UnitAssumption DEF QuietMove, RunInv
<1> QED
  BY <1>1, <1>2, <1>3, <1>4, <1>5, <1>6, <1>7, <1>8, Moves

\* How the connections in service change: only the acceptor adds one, when there
\* is room, and the counter follows.
LEMMA CountStep ==
  ASSUME TypeOK, AcceptInv, RunInv, CountInv, ConnectionLimit, JobInv, CellInv, Next
  PROVE  CountInv' /\ ConnectionLimit'
<1> DEFINE N == Cardinality(InService)
<1>1. /\ IsFiniteSet(InService) /\ N \in Nat /\ N <= MaxConnections
      /\ hold_fds = N - (IF accept_pc = "count" THEN 1 ELSE 0)
      /\ accept_pc = "add" => N < MaxConnections
      /\ MaxConnections \in Nat /\ pc \in [Conns -> ConnPC] /\ hold_fds \in Int
  BY FS_CardinalityType, UnitAssumption DEF CountInv, ConnectionLimit, HoldFdsExact, TypeOK
<1>2. ASSUME InService' = InService,
             hold_fds' = N - (IF accept_pc' = "count" THEN 1 ELSE 0),
             accept_pc' = "add" => N < MaxConnections
      PROVE  CountInv' /\ ConnectionLimit'
  BY <1>1, <1>2 DEF CountInv, ConnectionLimit, HoldFdsExact
<1>3. ASSUME NEW c \in Conns, Accept(c) PROVE CountInv' /\ ConnectionLimit'
  <2>1. InService' = InService
    BY <1>3 DEF Accept, InService, ioVars
  <2> QED
    BY <1>1, <1>2, <1>3, <2>1 DEF Accept
<1>4. CASE accept_pc \in {"check", "add"} /\ RejectAccepted
  <2>1. InService' = InService
    BY <1>1, <1>4 DEF RejectAccepted, AcceptInv, InService
  <2> QED
    BY <1>1, <1>2, <1>4, <2>1 DEF RejectAccepted
<1>5. CASE CanAccept
  <2>1. InService' = InService
    BY <1>5 DEF CanAccept, InService, ioVars
  <2> QED
    BY <1>1, <1>2, <1>5, <2>1 DEF CanAccept
<1>6. CASE AddAcceptedFd
  <2>1. pc[accepted_fd] = "new" /\ accepted_fd \in Conns
    BY <1>6, UnitAssumption DEF AddAcceptedFd, AcceptInv, TypeOK
  <2>2. InService' = InService \cup {accepted_fd} /\ accepted_fd \notin InService
    BY <1>1, <1>6, <2>1 DEF AddAcceptedFd, InService
  <2>3. IsFiniteSet(InService') /\ Cardinality(InService') = N + 1
    BY <1>1, <2>2, FS_AddElement
  <2> QED
    BY <1>1, <1>6, <2>3 DEF AddAcceptedFd, CountInv, ConnectionLimit, HoldFdsExact
<1>7. CASE CountAccepted
  <2>1. InService' = InService
    BY <1>7 DEF CountAccepted, InService, ioVars
  <2> QED
    BY <1>1, <1>2, <1>7, <2>1 DEF CountAccepted
<1>8. CASE HandlerAcceptedFd
  <2>1. InService' = InService
    BY <1>8 DEF HandlerAcceptedFd, InService
  <2> QED
    BY <1>1, <1>2, <1>8, <2>1 DEF HandlerAcceptedFd, acceptVars
<1>9. CASE StartTask
  <2>1. pc[Head(todo_list)] = "todo"
    BY <1>9, TailElements DEF StartTask, TypeOK, RunInv
  <2>2. InService' = InService
    BY <1>1, <1>9, <2>1 DEF StartTask, InService
  <2> QED
    BY <1>1, <1>2, <1>9, <2>2 DEF StartTask, acceptVars
<1>10. ASSUME NEW c \in Conns, ConnMove(c) PROVE CountInv' /\ ConnectionLimit'
  <2>1. accept_pc' = accept_pc /\ pc[c] # "new"
    BY <1>10 DEF ConnMove, Suspended, RunningPC
  <2>2. CASE pc[c] = "exit"
    <3>1. InService' = InService \ {c} /\ c \in InService
      BY <1>10, <2>2 DEF ConnMove, InService
    <3>2. IsFiniteSet(InService') /\ Cardinality(InService') = N - 1
      BY <1>1, <3>1, FS_RemoveElement
    <3>3. hold_fds' = hold_fds - 1
      BY <1>10, <2>2 DEF ConnMove
    <3> QED
      BY <1>1, <2>1, <3>2, <3>3 DEF CountInv, ConnectionLimit, HoldFdsExact
  <2>3. CASE pc[c] # "exit"
    <3>1. /\ pc[c] = "destroy" => pc'[c] = "done"
          /\ pc[c] # "destroy" => pc'[c] \notin {"destroy", "done"}
          /\ pc'[c] # "new" /\ pc[c] # "done" /\ \A d \in Conns \ {c} : pc'[d] = pc[d]
      BY <1>10, <2>3 DEF ConnMove, Suspended, RunningPC
    <3>2. InService' = InService /\ hold_fds' = hold_fds
      BY <1>10, <2>1, <2>3, <3>1 DEF ConnMove, InService
    <3> QED
      BY <1>1, <1>2, <2>1, <3>2
  <2> QED
    BY <2>2, <2>3
<1>11. CASE QuietMove
  <2>1. InService' = InService
    BY <1>11 DEF QuietMove, InService
  <2> QED
    BY <1>1, <1>2, <1>11, <2>1 DEF QuietMove
<1> QED
  BY <1>3, <1>4, <1>5, <1>6, <1>7, <1>8, <1>9, <1>10, <1>11, Moves

\* The room that was seen in a queue is still there when it is used.
LEMMA QueueStep ==
  ASSUME TypeOK, in_queue' \in Seq(Job), AcceptInv, RunInv, QueueLimits, JobInv, CellInv, Next
  PROVE  QueueLimits'
<1>1. /\ Len(in_queue) \in Nat /\ Len(in_queue') \in Nat /\ Len(accepted_fd_list) \in Nat
      /\ MaxQueueLength \in Nat /\ MaxAcceptQueue \in Nat
      /\ Len(in_queue) <= MaxQueueLength /\ Len(accepted_fd_list) <= MaxAcceptQueue + 1
  BY UnitAssumption DEF TypeOK, QueueLimits
<1>2. ASSUME NEW c \in Conns, Accept(c) PROVE QueueLimits'
  BY <1>1, <1>2 DEF Accept, QueueLimits, queueVars
<1>3. CASE RejectAccepted \/ CanAccept \/ CountAccepted \/ StartTask
  BY <1>1, <1>3 DEF RejectAccepted, CanAccept, CountAccepted, StartTask, QueueLimits, queueVars
<1>4. CASE AddAcceptedFd
  <2>1. Len(accepted_fd_list') = Len(accepted_fd_list) + 1
    BY <1>4, UnitAssumption DEF AddAcceptedFd, AcceptInv, TypeOK
  <2> QED
    BY <1>1, <1>4, <2>1 DEF AddAcceptedFd, QueueLimits, queueVars
<1>5. CASE HandlerAcceptedFd
  <2>1. Len(accepted_fd_list') = 0
    BY <1>5 DEF HandlerAcceptedFd
  <2> QED
    BY <1>1, <1>5, <2>1 DEF HandlerAcceptedFd, QueueLimits, queueVars
<1>6. ASSUME NEW c \in Conns, ConnMove(c) PROVE QueueLimits'
  <2>1. pc[c] = "admitted" => Len(in_queue) < MaxQueueLength
    BY DEF RunInv
  <2> QED
    BY <1>1, <1>6, <2>1 DEF ConnMove, QueueLimits
<1>7. CASE QuietMove
  BY <1>1, <1>7 DEF QuietMove, QueueLimits
<1> QED
  BY <1>2, <1>3, <1>4, <1>5, <1>6, <1>7, Moves

-----------------------------------------------------------------------------
(* Requests, responses and cells, one lemma for each way they change *)

\* What the invariant says of memory.
MemInv == JobInv /\ NumInv /\ CellInv /\ MsgInv

\* The types the lemmas below need.
MemTypes ==
  /\ socket \in [Conns -> Cells \cup {None}] /\ reqno \in [Conns -> Nat]
  /\ cell \in [Cells -> CellType] /\ None \notin Cells /\ None \notin Conns
  /\ \A job \in Held : /\ job.sock \in Cells /\ job.msg \in Message /\ job.msg[1] \in Conns
                       /\ job.msg[2] \in Nat /\ job.msg[2] > 0
                       /\ job.msg = <<job.msg[1], job.msg[2]>>
                       /\ job = [sock |-> job.sock, msg |-> job.msg]
  /\ Pending \subseteq Held /\ Asked \subseteq Held /\ Answered \subseteq Pending
  /\ Stage \in [Conns -> {"fresh", "reading", "waiting", "writing", "ended"}]
  /\ requests \in SUBSET Message /\ responses \in SUBSET Message

\* They follow from the type invariant.
LEMMA MemTypesHold == ASSUME TypeOK PROVE MemTypes
<1>1. \A job \in Job : /\ job.sock \in Cells /\ job.msg \in Message /\ job.msg[1] \in Conns
                      /\ job.msg[2] \in Nat /\ job.msg[2] > 0
                      /\ job.msg = <<job.msg[1], job.msg[2]>>
                      /\ job = [sock |-> job.sock, msg |-> job.msg]
  BY UnitAssumption DEF Job, Message
<1>2. Stage \in [Conns -> {"fresh", "reading", "waiting", "writing", "ended"}]
  BY DEF Stage
<1>3. /\ socket \in [Conns -> Cells \cup {None}] /\ reqno \in [Conns -> Nat]
      /\ cell \in [Cells -> CellType] /\ None \notin Cells /\ None \notin Conns
      /\ requests \in SUBSET Message /\ responses \in SUBSET Message
  BY UnitAssumption DEF TypeOK
<1> QED
  BY <1>1, <1>2, <1>3, JobTypes DEF MemTypes

\* Nothing that these parts are about changes.
LEMMA MemSame ==
  ASSUME NumInv, CellInv, MsgInv,
         UNCHANGED <<socket, reqno, cell, requests, responses, Stage, Pending, Held,
                     Asked, Answered>>
  PROVE  NumInv' /\ CellInv' /\ MsgInv'
<1>1. NumInv'
  BY DEF NumInv
<1>2. CellInv'
  BY DEF CellInv, Current
<1>3. MsgInv'
  BY DEF MsgInv, Current
<1> QED
  BY <1>1, <1>2, <1>3

\* A connection is refused before anything is allocated for it.
LEMMA MemRefuse ==
  ASSUME MemTypes, NumInv, CellInv, MsgInv, NEW c \in Conns, Stage[c] = "fresh",
         Stage' = [Stage EXCEPT ![c] = "ended"],
         UNCHANGED <<socket, reqno, cell, requests, responses, Pending, Held, Asked, Answered>>
  PROVE  NumInv' /\ CellInv' /\ MsgInv'
<1> USE DEF MemTypes
<1>1. \A d \in Conns : Stage'[d] = IF d = c THEN "ended" ELSE Stage[d]
  OBVIOUS
<1>2. NumInv'
  BY <1>1 DEF NumInv
<1>3. CellInv'
  BY <1>1 DEF CellInv, Current
<1>4. MsgInv'
  BY <1>1 DEF MsgInv, Current
<1> QED
  BY <1>2, <1>3, <1>4

\* A uthread starts with a free cell and its first request.
LEMMA MemStart ==
  ASSUME MemTypes, NumInv, CellInv, MsgInv, NEW c \in Conns, NEW a \in Cells,
         Stage[c] = "fresh", ~cell[a].live,
         cell' = [cell EXCEPT ![a] = [live |-> TRUE, conn |-> c, destroyed |-> FALSE, args |-> None]],
         socket' = [socket EXCEPT ![c] = a], reqno' = [reqno EXCEPT ![c] = 1],
         requests' = requests \cup {<<c, 1>>}, Stage' = [Stage EXCEPT ![c] = "reading"],
         UNCHANGED <<responses, Pending, Held, Asked, Answered>>
  PROVE  NumInv' /\ CellInv' /\ MsgInv'
<1> USE DEF MemTypes
<1>1. /\ \A d \in Conns : /\ Stage'[d] = IF d = c THEN "reading" ELSE Stage[d]
                          /\ socket'[d] = IF d = c THEN a ELSE socket[d]
                          /\ reqno'[d] = IF d = c THEN 1 ELSE reqno[d]
      /\ \A b \in Cells \ {a} : cell'[b] = cell[b]
      /\ cell'[a].live /\ cell'[a].conn = c /\ ~cell'[a].destroyed
  OBVIOUS
<1>2. /\ reqno[c] = 0 /\ socket[c] = None /\ ~cell[a].destroyed
      /\ \A job \in Held : job.msg[1] # c
      /\ \A job \in Pending : job.sock # a
      /\ \A d \in Conns : socket[d] # a
  <2>1. reqno[c] = 0
    BY DEF NumInv
  <2>2. \A job \in Held : job.msg[1] # c
    BY <2>1 DEF NumInv
  <2>3. socket[c] = None /\ ~cell[a].destroyed /\ \A job \in Pending : job.sock # a
    BY DEF CellInv
  <2>4. ASSUME NEW d \in Conns, socket[d] = a PROVE FALSE
    <3>1. socket[d] # None
      BY <2>4
    <3> QED
      BY <2>4, <3>1 DEF CellInv
  <2> QED
    BY <2>1, <2>2, <2>3, <2>4
<1>3. NumInv'
  BY <1>1, <1>2 DEF NumInv
<1>4. CellInv'
  BY <1>1, <1>2 DEF CellInv, Current
<1>5. MsgInv'
  BY <1>1, <1>2 DEF MsgInv, Current
<1> QED
  BY <1>3, <1>4, <1>5

\* A request is not read, or refused: the uthread frees it.
LEMMA MemFail ==
  ASSUME MemTypes, NumInv, CellInv, MsgInv, NEW c \in Conns, Stage[c] = "reading",
         requests' = requests \ {<<c, reqno[c]>>}, Stage' = [Stage EXCEPT ![c] = "ended"],
         UNCHANGED <<socket, reqno, cell, responses, Pending, Held, Asked, Answered>>
  PROVE  NumInv' /\ CellInv' /\ MsgInv'
<1> USE DEF MemTypes
<1>1. \A d \in Conns : Stage'[d] = IF d = c THEN "ended" ELSE Stage[d]
  OBVIOUS
<1>2. \A job \in Held : job.msg # <<c, reqno[c]>>
  BY DEF NumInv
<1>3. NumInv'
  BY <1>1 DEF NumInv
<1>4. CellInv'
  BY <1>1 DEF CellInv, Current
<1>5. MsgInv'
  BY <1>1, <1>2 DEF MsgInv, Current
<1> QED
  BY <1>3, <1>4, <1>5

\* A cell that a stream owns is for its connection and for no other.
LEMMA MemOwner ==
  ASSUME MemTypes, CellInv, NEW c \in Conns, socket[c] # None
  PROVE  /\ socket[c] \in Cells /\ cell[socket[c]].live /\ cell[socket[c]].conn = c
         /\ ~cell[socket[c]].destroyed
         /\ \A d \in Conns \ {c} : socket[d] # socket[c]
<1>1. \A d \in Conns : socket[d] # None => /\ cell[socket[d]].live /\ cell[socket[d]].conn = d
                                          /\ ~cell[socket[d]].destroyed
  BY DEF CellInv
<1>2. ASSUME NEW d \in Conns \ {c}, socket[d] = socket[c] PROVE FALSE
  <2>1. cell[socket[d]].conn = d /\ cell[socket[c]].conn = c
    BY <1>1, <1>2
  <2> QED
    BY <1>2, <2>1
<1> QED
  BY <1>1, <1>2 DEF MemTypes

\* No one holds a job for the request that is about to be pushed, or for its cell.
LEMMA MemRoom ==
  ASSUME MemTypes, NumInv, CellInv, NEW c \in Conns, Stage[c] = "reading"
  PROVE  /\ socket[c] \in Cells
         /\ \A job \in Held : job.msg # <<c, reqno[c]>>
         /\ \A job \in Pending : job.sock # socket[c]
<1> USE DEF MemTypes
<1>1. socket[c] \in Cells /\ cell[socket[c]].conn = c /\ ~cell[socket[c]].destroyed
  <2>1. socket[c] # None
    BY DEF CellInv
  <2> QED
    BY <2>1, MemOwner
<1>2. \A job \in Held : job.msg # <<c, reqno[c]>>
  BY DEF NumInv
<1>3. ASSUME NEW job \in Pending, job.sock = socket[c] PROVE FALSE
  <2>1. cell[job.sock].conn = job.msg[1] /\ Stage[job.msg[1]] = "waiting"
    BY <1>1, <1>3 DEF CellInv
  <2> QED
    BY <1>1, <1>3, <2>1
<1> QED
  BY <1>1, <1>2, <1>3

\* A request goes to the workers, and its uthread waits.
LEMMA MemPush ==
  ASSUME MemTypes, NumInv, CellInv, MsgInv, NEW c \in Conns, NEW a \in Cells, socket[c] = a,
         Stage[c] = "reading", Stage' = [Stage EXCEPT ![c] = "waiting"],
         cell' = [cell EXCEPT ![a].args = None],
         Pending' = Pending \cup {[sock |-> a, msg |-> <<c, reqno[c]>>]},
         Held' = Held \cup {[sock |-> a, msg |-> <<c, reqno[c]>>]},
         Asked' = Asked \cup {[sock |-> a, msg |-> <<c, reqno[c]>>]},
         UNCHANGED <<socket, reqno, requests, responses, Answered>>
  PROVE  NumInv' /\ CellInv' /\ MsgInv'
<1> USE DEF MemTypes
<1> DEFINE j == [sock |-> a, msg |-> <<c, reqno[c]>>]
<1>1. /\ \A d \in Conns : Stage'[d] = IF d = c THEN "waiting" ELSE Stage[d]
      /\ \A b \in Cells \ {a} : cell'[b] = cell[b]
      /\ cell'[a].live = cell[a].live /\ cell'[a].conn = cell[a].conn
      /\ cell'[a].destroyed = cell[a].destroyed /\ cell'[a].args = None
  BY DEF CellType
<1>2. /\ \A job \in Held : job.msg # <<c, reqno[c]>>
      /\ \A job \in Pending : job.sock # a
      /\ cell[a].live /\ cell[a].conn = c /\ ~cell[a].destroyed
      /\ \A d \in Conns \ {c} : socket[d] # a
  BY MemRoom, MemOwner
<1>3. /\ j.sock = a /\ j.msg = <<c, reqno[c]>> /\ j.msg[1] = c /\ j.msg[2] = reqno[c]
      /\ Pending' = Pending \cup {j} /\ Held' = Held \cup {j} /\ Asked' = Asked \cup {j}
  OBVIOUS
<1>4. NumInv'
  <2> HIDE DEF j
  <2> QED
    BY <1>1, <1>3 DEF NumInv
<1>5. CellInv'
  <2>1. [sock |-> a, msg |-> <<c, reqno[c]>>] = j
    OBVIOUS
  <2> HIDE DEF j
  <2> QED
    BY <1>1, <1>2, <1>3, <2>1 DEF CellInv, Current
<1>6. MsgInv'
  <2> HIDE DEF j
  <2> QED
    BY <1>1, <1>3 DEF MsgInv, Current
<1> QED
  BY <1>4, <1>5, <1>6

\* The response of a uthread that waits: it gets it.
LEMMA MemAnswer ==
  ASSUME MemTypes, JobInv, NumInv, CellInv, MsgInv, NEW j \in Pending, j \in Answered,
         ~cell[j.sock].destroyed, Stage' = [Stage EXCEPT ![j.msg[1]] = "writing"],
         cell' = [cell EXCEPT ![j.sock].args = j.msg],
         Pending' = Pending \ {j}, Held' \subseteq Held, Answered' = Answered \ {j},
         UNCHANGED <<socket, reqno, requests, responses, Asked>>
  PROVE  NumInv' /\ CellInv' /\ MsgInv'
<1> USE DEF MemTypes
<1> DEFINE c == j.msg[1]
           a == j.sock
<1>1. /\ c \in Conns /\ a \in Cells /\ Stage[c] = "waiting" /\ socket[c] = a
      /\ j.msg = <<c, reqno[c]>> /\ cell[a].live /\ cell[a].conn = c /\ ~cell[a].destroyed
  BY DEF CellInv, Current
<1>2. /\ Stage' = [Stage EXCEPT ![c] = "writing"]
      /\ cell' = [cell EXCEPT ![a].args = <<c, reqno[c]>>]
  BY <1>1
<1>3. \A i \in Pending \ {j} : i.sock # a /\ i.msg # j.msg
  BY DEF JobInv
<1> HIDE DEF c, a
<1>4. /\ \A d \in Conns : Stage'[d] = IF d = c THEN "writing" ELSE Stage[d]
      /\ \A b \in Cells \ {a} : cell'[b] = cell[b]
      /\ cell'[a].live = cell[a].live /\ cell'[a].conn = cell[a].conn
      /\ cell'[a].destroyed = cell[a].destroyed /\ cell'[a].args = <<c, reqno[c]>>
  <2>1. \A d \in Conns : Stage'[d] = IF d = c THEN "writing" ELSE Stage[d]
    BY <1>1, <1>2
  <2>2. \A b \in Cells \ {a} : cell'[b] = cell[b]
    BY <1>2
  <2>3. cell'[a] = [cell[a] EXCEPT !.args = <<c, reqno[c]>>] /\ cell[a] \in CellType
    BY <1>1, <1>2
  <2>4. /\ cell'[a].live = cell[a].live /\ cell'[a].conn = cell[a].conn
        /\ cell'[a].destroyed = cell[a].destroyed /\ cell'[a].args = <<c, reqno[c]>>
    BY <2>3 DEF CellType
  <2> QED
    BY <2>1, <2>2, <2>4
<1>5. \A d \in Conns \ {c} : socket[d] # a
  BY <1>1, MemOwner
<1>6. NumInv'
  BY <1>1, <1>4 DEF NumInv
<1>7. CellInv'
  BY <1>1, <1>3, <1>4, <1>5 DEF CellInv, Current
<1>8. MsgInv'
  BY <1>1, <1>3, <1>4 DEF MsgInv, Current
<1> QED
  BY <1>6, <1>7, <1>8

\* The uthread gives up: its cell is left to the response.
LEMMA MemTimedOut ==
  ASSUME MemTypes, NumInv, CellInv, MsgInv, NEW c \in Conns, NEW a \in Cells, socket[c] = a,
         Stage[c] = "waiting", Stage' = [Stage EXCEPT ![c] = "ended"],
         cell' = [cell EXCEPT ![a].destroyed = TRUE], socket' = [socket EXCEPT ![c] = None],
         UNCHANGED <<reqno, requests, responses, Pending, Held, Asked, Answered>>
  PROVE  NumInv' /\ CellInv' /\ MsgInv'
<1> USE DEF MemTypes
<1>1. /\ \A d \in Conns : /\ Stage'[d] = IF d = c THEN "ended" ELSE Stage[d]
                          /\ socket'[d] = IF d = c THEN None ELSE socket[d]
      /\ \A b \in Cells \ {a} : cell'[b] = cell[b]
      /\ cell'[a].live = cell[a].live /\ cell'[a].conn = cell[a].conn
      /\ cell'[a].destroyed /\ cell'[a].args = cell[a].args
  BY DEF CellType
<1>2. /\ cell[a].live /\ cell[a].conn = c /\ ~cell[a].destroyed
      /\ \E job \in Pending : job.sock = a
      /\ \A d \in Conns \ {c} : socket[d] # a
      /\ \A b \in Cells : cell[b].destroyed => cell[b].conn # c
  <2>1. cell[a].live /\ cell[a].conn = c /\ ~cell[a].destroyed
    BY DEF CellInv
  <2>2. \E job \in Pending : job.sock = a
    BY DEF CellInv
  <2>3. \A d \in Conns \ {c} : socket[d] # a
    BY MemOwner
  <2>4. \A b \in Cells : cell[b].destroyed => cell[b].conn # c
    BY DEF CellInv
  <2> QED
    BY <2>1, <2>2, <2>3, <2>4
<1>3. NumInv'
  BY <1>1 DEF NumInv
<1>4. CellInv'
  BY <1>1, <1>2 DEF CellInv, Current
<1>5. MsgInv'
  BY <1>1 DEF MsgInv, Current
<1> QED
  BY <1>3, <1>4, <1>5

\* The response comes after its uthread gave up: everything it has is freed.
LEMMA MemLate ==
  ASSUME MemTypes, JobInv, NumInv, CellInv, MsgInv, NEW j \in Pending, j \in Answered,
         cell[j.sock].destroyed, cell' = [cell EXCEPT ![j.sock] = FreeCell],
         responses' = responses \ {j.msg},
         Pending' = Pending \ {j}, Held' \subseteq Held, Answered' = Answered \ {j},
         UNCHANGED <<Stage, socket, reqno, requests, Asked>>
  PROVE  NumInv' /\ CellInv' /\ MsgInv'
<1> USE DEF MemTypes
<1> DEFINE c == j.msg[1]
           a == j.sock
<1>1. /\ c \in Conns /\ a \in Cells /\ Stage[c] = "ended" /\ socket[c] = None
      /\ cell[a].conn = c /\ cell[a].destroyed
  BY DEF CellInv
<1>2. cell' = [cell EXCEPT ![a] = FreeCell] /\ j.msg = <<c, j.msg[2]>>
  OBVIOUS
<1>3. \A i \in Pending \ {j} : i.sock # a /\ i.msg # j.msg
  BY DEF JobInv
<1> HIDE DEF c, a
<1>4. /\ \A b \in Cells \ {a} : cell'[b] = cell[b]
      /\ ~cell'[a].live /\ ~cell'[a].destroyed
  BY <1>1, <1>2 DEF FreeCell
<1>5. \A d \in Conns : socket[d] # a
  BY <1>1, MemOwner
<1>6. NumInv'
  BY DEF NumInv
<1>7. CellInv'
  BY <1>1, <1>3, <1>4, <1>5 DEF CellInv, Current
<1>8. MsgInv'
  BY <1>1, <1>2, <1>3 DEF MsgInv, Current
<1> QED
  BY <1>6, <1>7, <1>8

\* A uthread that does not wait is not in any pending job.
LEMMA MemNotPending ==
  ASSUME MemTypes, CellInv, NEW c \in Conns, socket[c] # None, Stage[c] # "waiting"
  PROVE  \A job \in Pending : job.sock # socket[c] /\ job.msg[1] # c
<1> USE DEF MemTypes
<1>1. ~cell[socket[c]].destroyed /\ cell[socket[c]].conn = c
  BY MemOwner
<1>2. ASSUME NEW job \in Pending, job.msg[1] = c PROVE FALSE
  <2>1. job.sock \in Cells /\ cell[job.sock].conn = c /\ cell[job.sock].destroyed
    BY <1>2 DEF CellInv
  <2>2. socket[cell[job.sock].conn] = None
    BY <2>1 DEF CellInv
  <2> QED
    BY <2>1, <2>2
<1>3. ASSUME NEW job \in Pending, job.sock = socket[c] PROVE FALSE
  <2>1. cell[job.sock].conn = job.msg[1]
    BY DEF CellInv
  <2> QED
    BY <1>1, <1>2, <1>3, <2>1
<1> QED
  BY <1>2, <1>3

\* The response is sent, or fails to be, and the uthread ends.
LEMMA MemSent ==
  ASSUME MemTypes, NumInv, CellInv, MsgInv, NEW c \in Conns, Stage[c] = "writing",
         responses' = responses \ {<<c, reqno[c]>>}, Stage' = [Stage EXCEPT ![c] = "ended"],
         UNCHANGED <<socket, reqno, cell, requests, Pending, Held, Asked, Answered>>
  PROVE  NumInv' /\ CellInv' /\ MsgInv'
<1> USE DEF MemTypes
<1>1. \A d \in Conns : Stage'[d] = IF d = c THEN "ended" ELSE Stage[d]
  OBVIOUS
<1>2. \A job \in Pending : job.msg[1] # c
  <2>1. socket[c] # None
    BY DEF CellInv
  <2> QED
    BY <2>1, MemNotPending
<1>3. NumInv'
  BY <1>1 DEF NumInv
<1>4. CellInv'
  BY <1>1 DEF CellInv, Current
<1>5. MsgInv'
  BY <1>1, <1>2 DEF MsgInv, Current
<1> QED
  BY <1>3, <1>4, <1>5

\* The response is sent and the next request is read.
LEMMA MemNext ==
  ASSUME MemTypes, NumInv, CellInv, MsgInv, NEW c \in Conns, Stage[c] = "writing",
         responses' = responses \ {<<c, reqno[c]>>}, Stage' = [Stage EXCEPT ![c] = "reading"],
         reqno' = [reqno EXCEPT ![c] = reqno[c] + 1],
         requests' = requests \cup {<<c, reqno[c] + 1>>},
         UNCHANGED <<socket, cell, Pending, Held, Asked, Answered>>
  PROVE  NumInv' /\ CellInv' /\ MsgInv'
<1> USE DEF MemTypes
<1>1. \A d \in Conns : /\ Stage'[d] = IF d = c THEN "reading" ELSE Stage[d]
                      /\ reqno'[d] = IF d = c THEN reqno[c] + 1 ELSE reqno[d]
  OBVIOUS
<1>2. \A job \in Pending : job.msg[1] # c
  <2>1. socket[c] # None
    BY DEF CellInv
  <2> QED
    BY <2>1, MemNotPending
<1>3. NumInv'
  BY <1>1 DEF NumInv
<1>4. CellInv'
  BY <1>1, <1>2 DEF CellInv, Current
<1>5. MsgInv'
  BY <1>1, <1>2 DEF MsgInv, Current
<1> QED
  BY <1>3, <1>4, <1>5

\* The stream of a uthread that ended frees the cell it still owns.
LEMMA MemDestroy ==
  ASSUME MemTypes, NumInv, CellInv, MsgInv, NEW c \in Conns, NEW a \in Cells, socket[c] = a,
         Stage[c] = "ended", cell' = [cell EXCEPT ![a] = FreeCell],
         socket' = [socket EXCEPT ![c] = None],
         UNCHANGED <<Stage, reqno, requests, responses, Pending, Held, Asked, Answered>>
  PROVE  NumInv' /\ CellInv' /\ MsgInv'
<1> USE DEF MemTypes
<1>1. /\ \A d \in Conns : socket'[d] = IF d = c THEN None ELSE socket[d]
      /\ \A b \in Cells \ {a} : cell'[b] = cell[b]
      /\ ~cell'[a].live /\ ~cell'[a].destroyed
  BY DEF FreeCell
<1>2. /\ \A job \in Pending : job.sock # a /\ job.msg[1] # c
      /\ \A d \in Conns \ {c} : socket[d] # a
  BY MemNotPending, MemOwner
<1>3. NumInv'
  BY DEF NumInv
<1>4. CellInv'
  BY <1>1, <1>2 DEF CellInv, Current
<1>5. MsgInv'
  BY DEF MsgInv, Current
<1> QED
  BY <1>3, <1>4, <1>5

\* A worker allocates the response.
LEMMA MemDispatch ==
  ASSUME NumInv, CellInv, MsgInv, NEW j \in Pending,
         responses' = responses \cup {j.msg}, Answered' = Answered \cup {j},
         UNCHANGED <<Stage, socket, reqno, cell, requests, Pending, Held, Asked>>
  PROVE  NumInv' /\ CellInv' /\ MsgInv'
<1>1. NumInv' /\ CellInv'
  BY DEF NumInv, CellInv, Current
<1>2. MsgInv'
  BY DEF MsgInv, Current
<1> QED
  BY <1>1, <1>2

\* A worker frees the request.
LEMMA MemDelete ==
  ASSUME MemTypes, JobInv, NumInv, CellInv, MsgInv, NEW j \in Asked,
         requests' = requests \ {j.msg}, Asked' = Asked \ {j}, Held' \subseteq Held,
         UNCHANGED <<Stage, socket, reqno, cell, responses, Pending, Answered>>
  PROVE  NumInv' /\ CellInv' /\ MsgInv'
<1> USE DEF MemTypes
<1>1. NumInv' /\ CellInv'
  BY DEF NumInv, CellInv, Current
<1>2. \A i \in Asked \ {j} : i.msg # j.msg
  BY DEF JobInv
<1>3. \A d \in Conns : Stage[d] = "reading" => j.msg # <<d, reqno[d]>>
  BY DEF NumInv
<1>4. MsgInv'
  BY <1>2, <1>3 DEF MsgInv, Current
<1> QED
  BY <1>1, <1>4

-----------------------------------------------------------------------------
(* Each step is one of these *)

\* The stage of a connection by the place of its uthread.
LEMMA Stages ==
  ASSUME NEW c \in Conns
  PROVE  /\ pc[c] \in {"new", "listed", "todo"} => Stage[c] = "fresh"
         /\ pc[c] \in {"recv", "recv_wait", "parsed", "admitted"} => Stage[c] = "reading"
         /\ pc[c] = "wait" => Stage[c] = "waiting"
         /\ pc[c] = "woken" => Stage[c] = IF cell[socket[c]].args = None THEN "waiting" ELSE "writing"
         /\ pc[c] \in {"send", "send_wait"} => Stage[c] = "writing"
         /\ pc[c] \in {"exit", "destroy", "done"} => Stage[c] = "ended"
         /\ pc'[c] \in {"new", "listed", "todo"} => Stage'[c] = "fresh"
         /\ pc'[c] \in {"recv", "recv_wait", "parsed", "admitted"} => Stage'[c] = "reading"
         /\ pc'[c] = "wait" => Stage'[c] = "waiting"
         /\ pc'[c] = "woken" => Stage'[c] = IF cell'[socket'[c]].args = None THEN "waiting" ELSE "writing"
         /\ pc'[c] \in {"send", "send_wait"} => Stage'[c] = "writing"
         /\ pc'[c] \in {"exit", "destroy", "done"} => Stage'[c] = "ended"
BY DEF Stage

\* The stage of a connection that does not move, while no other one may have been
\* woken, stays the same whatever happens to the cells.
LEMMA StageFrame ==
  ASSUME NEW c \in Conns, NEW x, Stage'[c] = x,
         \A d \in Conns \ {c} : pc'[d] = pc[d] /\ pc[d] # "woken"
  PROVE  Stage' = [Stage EXCEPT ![c] = x]
<1>1. \A d \in Conns \ {c} : Stage'[d] = Stage[d]
  BY DEF Stage
<1>2. Stage = [d \in Conns |-> Stage[d]] /\ Stage' = [d \in Conns |-> Stage'[d]]
  BY DEF Stage
<1> QED
  BY <1>1, <1>2

\* So it is when a uthread runs or is resumed.
LEMMA StageMove ==
  ASSUME RunInv, NEW c \in Conns, ConnMove(c), NEW x, Stage'[c] = x
  PROVE  Stage' = [Stage EXCEPT ![c] = x]
<1>1. \A d \in Conns \ {c} : pc'[d] = pc[d] /\ pc[d] # "woken"
  BY DEF ConnMove, RunInv, Running, RunningPC
<1> QED
  BY <1>1, StageFrame

\* A uthread that stays in its stage and touches no memory.
LEMMA MemIdle ==
  ASSUME RunInv, MemInv, NEW c \in Conns, ConnMove(c), Stage'[c] = Stage[c],
         UNCHANGED <<socket, reqno, cell, requests, responses, in_queue, out_queue, worker>>
  PROVE  MemInv'
<1>1. Stage' = Stage
  <2>1. Stage' = [Stage EXCEPT ![c] = Stage[c]]
    BY StageMove
  <2> QED
    BY <2>1 DEF Stage
<1>2. /\ JobInv' /\ Pending' = Pending /\ Held' = Held
      /\ Asked' = Asked /\ Answered' = Answered
  BY SameJobs DEF MemInv
<1>3. UNCHANGED <<socket, reqno, cell, requests, responses>>
  OBVIOUS
<1> QED
  BY <1>1, <1>2, <1>3, MemSame DEF MemInv

\* The steps of a uthread that only move it on.
LEMMA MemIdleSteps ==
  ASSUME TypeOK, RunInv, MemInv, NEW c \in Conns, ConnMove(c),
         \/ Event(c) \/ RecvBlock(c) \/ RecvReq(c) \/ CanPushRequest(c) \/ WaitAnswered(c)
         \/ SendBlock(c) \/ ReleaseHold(c) \/ (Timeout(c) /\ pc[c] = "wait")
  PROVE  MemInv'
<1>1. /\ UNCHANGED <<socket, reqno, cell, requests, responses, in_queue, out_queue, worker>>
      /\ pc \in [Conns -> ConnPC]
  BY DEF Event, RecvBlock, RecvReq, CanPushRequest, WaitAnswered, SendBlock, ReleaseHold, Timeout,
     memoryVars, queueVars, TypeOK
<1>2. Stage'[c] = Stage[c]
  <2>1. CASE Event(c)
    <3>1. pc[c] \in {"recv_wait", "send_wait"}
      BY <2>1 DEF Event, RunInv
    <3>2. \/ pc[c] = "recv_wait" /\ pc'[c] = "recv"
          \/ pc[c] = "send_wait" /\ pc'[c] = "send"
      BY <1>1, <2>1, <3>1 DEF Event
    <3> QED
      BY <3>2, Stages
  <2>2. CASE RecvBlock(c)
    <3>1. pc[c] = "recv" /\ pc'[c] = "recv_wait"
      BY <1>1, <2>2 DEF RecvBlock
    <3> QED
      BY <3>1, Stages
  <2>3. CASE RecvReq(c)
    <3>1. pc[c] = "recv" /\ pc'[c] = "parsed"
      BY <1>1, <2>3 DEF RecvReq
    <3> QED
      BY <3>1, Stages
  <2>4. CASE CanPushRequest(c)
    <3>1. pc[c] = "parsed" /\ pc'[c] = "admitted"
      BY <1>1, <2>4 DEF CanPushRequest
    <3> QED
      BY <3>1, Stages
  <2>5. CASE WaitAnswered(c)
    <3>1. pc[c] = "woken" /\ cell[socket[c]].args # None /\ pc'[c] = "send"
      BY <1>1, <2>5 DEF WaitAnswered
    <3> QED
      BY <3>1, Stages
  <2>6. CASE SendBlock(c)
    <3>1. pc[c] = "send" /\ pc'[c] = "send_wait"
      BY <1>1, <2>6 DEF SendBlock
    <3> QED
      BY <3>1, Stages
  <2>7. CASE ReleaseHold(c)
    <3>1. pc[c] = "exit" /\ pc'[c] = "destroy"
      BY <1>1, <2>7 DEF ReleaseHold
    <3> QED
      BY <3>1, Stages
  <2>8. CASE Timeout(c) /\ pc[c] = "wait"
    <3>1. pc[c] = "wait" /\ pc'[c] = "woken"
      BY <1>1, <2>8 DEF Timeout
    <3>2. Stage[c] = "waiting"
      BY <3>1, Stages
    <3>3. cell[socket[c]].args = None
      BY <3>2 DEF MemInv, CellInv
    <3>4. cell'[socket'[c]].args = None
      BY <1>1, <3>3
    <3> QED
      BY <3>1, <3>2, <3>4, Stages
  <2> QED
    BY <2>1, <2>2, <2>3, <2>4, <2>5, <2>6, <2>7, <2>8
<1> QED
  BY <1>1, <1>2, MemIdle

\* The steps of a uthread that allocate, free or hand over.
LEMMA MemUThreadSteps ==
  ASSUME TypeOK, RunInv, MemInv, NEW c \in Conns, ConnMove(c),
         \/ RecvFail(c) \/ RejectRequest(c) \/ (Timeout(c) /\ pc[c] # "wait")
         \/ PushRequest(c) \/ WaitTimedOut(c) \/ SendResp(c) \/ DestroyStream(c)
  PROVE  MemInv'
<1>1. MemTypes /\ pc \in [Conns -> ConnPC] /\ JobInv /\ NumInv /\ CellInv /\ MsgInv
  BY MemTypesHold DEF MemInv, TypeOK
<1>2. ASSUME UNCHANGED <<in_queue, out_queue, worker>>
      PROVE  /\ JobInv' /\ Pending' = Pending /\ Held' = Held
             /\ Asked' = Asked /\ Answered' = Answered
  BY <1>1, <1>2, SameJobs
<1>3. CASE RecvFail(c) \/ RejectRequest(c) \/ (Timeout(c) /\ pc[c] = "recv_wait")
  <2>1. /\ UNCHANGED <<in_queue, out_queue, worker>>
        /\ UNCHANGED <<socket, reqno, cell, responses>>
        /\ requests' = requests \ {<<c, reqno[c]>>}
        /\ pc[c] \in {"recv", "recv_wait", "parsed", "admitted"} /\ pc'[c] = "exit"
    BY <1>1, <1>3 DEF RecvFail, RejectRequest, Timeout, queueVars
  <2>2. Stage[c] = "reading" /\ Stage' = [Stage EXCEPT ![c] = "ended"]
    BY <2>1, Stages, StageMove
  <2>3. NumInv' /\ CellInv' /\ MsgInv'
    BY <1>1, <1>2, <2>1, <2>2, MemFail
  <2> QED
    BY <1>2, <2>1, <2>3 DEF MemInv
<1>4. CASE Timeout(c) /\ pc[c] = "send_wait"
  <2>1. /\ UNCHANGED <<in_queue, out_queue, worker>>
        /\ UNCHANGED <<socket, reqno, cell, requests>>
        /\ responses' = responses \ {<<c, reqno[c]>>} /\ pc'[c] = "exit"
    BY <1>1, <1>4 DEF Timeout, queueVars
  <2>2. Stage[c] = "writing" /\ Stage' = [Stage EXCEPT ![c] = "ended"]
    BY <1>4, <2>1, Stages, StageMove
  <2>3. NumInv' /\ CellInv' /\ MsgInv'
    BY <1>1, <1>2, <2>1, <2>2, MemSent
  <2> QED
    BY <1>2, <2>1, <2>3 DEF MemInv
<1>5. CASE PushRequest(c)
  <2> DEFINE a == socket[c]
             j == [sock |-> a, msg |-> <<c, reqno[c]>>]
  <2>1. pc[c] = "admitted" /\ pc'[c] = "wait"
    BY <1>1, <1>5 DEF PushRequest
  <2>2. Stage[c] = "reading" /\ Stage' = [Stage EXCEPT ![c] = "waiting"]
    BY <2>1, Stages, StageMove
  <2>3. /\ UNCHANGED <<out_queue, worker>> /\ in_queue' = Append(in_queue, j)
        /\ UNCHANGED <<socket, reqno, requests, responses>>
        /\ cell' = [cell EXCEPT ![a].args = None]
    BY <1>5 DEF PushRequest
  <2>4. j \in Job /\ j.sock = a /\ j.msg = <<c, reqno[c]>>
    BY <1>1, <2>1, CanPush
  <2>5. /\ a \in Cells /\ \A i \in Held : i.msg # j.msg
        /\ \A i \in Pending : i.sock # j.sock
    BY <1>1, <2>2, <2>4, MemRoom
  <2>6. /\ JobInv' /\ Pending' = Pending \cup {j} /\ Held' = Held \cup {j}
        /\ Asked' = Asked \cup {j} /\ Answered' = Answered
    <3> HIDE DEF j
    <3> QED
      BY <1>1, <2>3, <2>4, <2>5, PushJobs
  <2>7. NumInv' /\ CellInv' /\ MsgInv'
    BY <1>1, <2>2, <2>3, <2>5, <2>6, MemPush
  <2> QED
    BY <2>6, <2>7 DEF MemInv
<1>6. CASE WaitTimedOut(c)
  <2> DEFINE a == socket[c]
  <2>1. /\ UNCHANGED <<in_queue, out_queue, worker>>
        /\ UNCHANGED <<reqno, requests, responses>>
        /\ cell' = [cell EXCEPT ![a].destroyed = TRUE] /\ socket' = [socket EXCEPT ![c] = None]
        /\ pc[c] = "woken" /\ cell[a].args = None /\ pc'[c] = "exit"
    BY <1>1, <1>6 DEF WaitTimedOut, queueVars
  <2>2. Stage[c] = "waiting" /\ Stage' = [Stage EXCEPT ![c] = "ended"]
    BY <2>1, Stages, StageMove
  <2>3. a \in Cells
    <3>1. socket[c] # None
      BY <1>1, <2>2 DEF CellInv
    <3> QED
      BY <1>1, <3>1 DEF MemTypes
  <2>4. NumInv' /\ CellInv' /\ MsgInv'
    BY <1>1, <1>2, <2>1, <2>2, <2>3, MemTimedOut
  <2> QED
    BY <1>2, <2>1, <2>4 DEF MemInv
<1>7. CASE SendResp(c)
  <2>1. /\ UNCHANGED <<in_queue, out_queue, worker>>
        /\ UNCHANGED <<socket, cell>>
        /\ responses' = responses \ {cell[socket[c]].args} /\ pc[c] = "send"
    BY <1>7 DEF SendResp, queueVars
  <2>2. Stage[c] = "writing" /\ cell[socket[c]].args = <<c, reqno[c]>>
    <3>1. Stage[c] = "writing"
      BY <2>1, Stages
    <3> QED
      BY <1>1, <3>1 DEF CellInv, Current
  <2>3. CASE pc'[c] = "exit" /\ UNCHANGED <<reqno, requests>>
    <3>1. Stage' = [Stage EXCEPT ![c] = "ended"]
      BY <2>3, Stages, StageMove
    <3>2. NumInv' /\ CellInv' /\ MsgInv'
      BY <1>1, <1>2, <2>1, <2>2, <2>3, <3>1, MemSent
    <3> QED
      BY <1>2, <2>1, <3>2 DEF MemInv
  <2>4. CASE /\ pc'[c] = "recv" /\ reqno' = [reqno EXCEPT ![c] = reqno[c] + 1]
             /\ requests' = requests \cup {<<c, reqno[c] + 1>>}
    <3>1. Stage' = [Stage EXCEPT ![c] = "reading"]
      BY <2>4, Stages, StageMove
    <3>2. NumInv' /\ CellInv' /\ MsgInv'
      BY <1>1, <1>2, <2>1, <2>2, <2>4, <3>1, MemNext
    <3> QED
      BY <1>2, <2>1, <3>2 DEF MemInv
  <2> QED
    BY <1>1, <1>7, <2>3, <2>4 DEF SendResp
<1>8. CASE DestroyStream(c)
  <2>1. /\ UNCHANGED <<in_queue, out_queue, worker>>
        /\ UNCHANGED <<reqno, requests, responses>>
        /\ pc[c] = "destroy" /\ pc'[c] = "done"
    BY <1>1, <1>8 DEF DestroyStream, queueVars
  <2>2. Stage[c] = "ended" /\ Stage'[c] = "ended"
    BY <2>1, Stages
  <2>3. CASE socket[c] = None
    <3>1. UNCHANGED <<socket, reqno, cell, requests, responses, in_queue, out_queue, worker>>
      BY <1>8, <2>1, <2>3 DEF DestroyStream
    <3> QED
      BY <2>2, <3>1, MemIdle
  <2>4. CASE socket[c] # None
    <3> DEFINE a == socket[c]
    <3>1. Stage' = Stage
      <4>1. Stage' = [Stage EXCEPT ![c] = "ended"]
        BY <2>2, StageMove
      <4> QED
        BY <2>2, <4>1 DEF Stage
    <3>2. cell' = [cell EXCEPT ![a] = FreeCell] /\ socket' = [socket EXCEPT ![c] = None]
      BY <1>8, <2>4 DEF DestroyStream
    <3>3. a \in Cells
      BY <1>1, <2>4 DEF MemTypes
    <3>4. NumInv' /\ CellInv' /\ MsgInv'
      BY <1>1, <1>2, <2>1, <2>2, <3>1, <3>2, <3>3, MemDestroy
    <3> QED
      BY <1>2, <2>1, <3>4 DEF MemInv
  <2> QED
    BY <2>3, <2>4
<1> QED
  BY <1>3, <1>4, <1>5, <1>6, <1>7, <1>8 DEF Timeout

\* The steps of the scheduler.
LEMMA MemSchedulerSteps ==
  ASSUME TypeOK, RunInv, MemInv, SchedulerStep
  PROVE  MemInv'
<1>1. MemTypes /\ pc \in [Conns -> ConnPC] /\ JobInv /\ NumInv /\ CellInv /\ MsgInv
  BY MemTypesHold DEF MemInv, TypeOK
<1>2. ASSUME UNCHANGED <<in_queue, out_queue, worker>>
      PROVE  /\ JobInv' /\ Pending' = Pending /\ Held' = Held
             /\ Asked' = Asked /\ Answered' = Answered
  BY <1>1, <1>2, SameJobs
<1>3. CASE EpollWait \/ EventsDone \/ ActiveDone \/ TodoDone \/ HandlerAcceptedFd
  <2>1. /\ UNCHANGED <<in_queue, out_queue, worker>>
        /\ UNCHANGED <<socket, reqno, cell, requests, responses>>
        /\ pc' = pc \/ pc' = [c \in Conns |-> IF pc[c] = "listed" THEN "todo" ELSE pc[c]]
    BY <1>3 DEF EpollWait, EventsDone, ActiveDone, TodoDone, HandlerAcceptedFd, queueVars, memoryVars
  <2>2. Stage' = Stage
    BY <1>1, <2>1 DEF Stage
  <2> QED
    BY <1>1, <1>2, <2>1, <2>2, MemSame DEF MemInv
<1>4. CASE ActiveSocket
  <2> DEFINE j == Head(out_queue)
             c == j.msg[1]
  <2>1. /\ UNCHANGED <<in_queue, worker>> /\ out_queue # <<>> /\ out_queue' = Tail(out_queue)
        /\ UNCHANGED <<socket, reqno, requests, responses>>
        /\ ~cell[j.sock].destroyed /\ cell' = [cell EXCEPT ![j.sock].args = j.msg]
    BY <1>4 DEF ActiveSocket
  <2>2. /\ JobInv' /\ j \in Pending /\ j \in Answered /\ j \in Job
        /\ Pending' = Pending \ {j} /\ Held' \subseteq Held
        /\ Asked' = Asked /\ Answered' = Answered \ {j}
    BY <1>1, <2>1, PopJobs
  <2>3. /\ cell[j.sock].conn = c /\ c \in Conns /\ j.sock \in Cells /\ socket[c] = j.sock
        /\ j.msg \in Message /\ ConnMove(c)
    BY <1>1, <1>4, <2>1, <2>2, ActiveMoves DEF CellInv, Job, Message
  <2> HIDE DEF j
  <2>4. pc'[c] = "woken"
    BY <1>1, <1>4, <2>3 DEF ActiveSocket, j
  <2>5. cell'[socket'[c]].args # None
    BY <1>1, <2>1, <2>3, NullAssumption DEF MemTypes, CellType
  <2>6. Stage'[c] = "writing"
    BY <2>3, <2>4, <2>5, Stages
  <2>7. Stage' = [Stage EXCEPT ![c] = "writing"]
    BY <2>3, <2>6, StageMove
  <2>8. NumInv' /\ CellInv' /\ MsgInv'
    BY <1>1, <2>1, <2>2, <2>7, MemAnswer
  <2> QED
    BY <2>2, <2>8 DEF MemInv
<1>5. CASE LateResponse
  <2> DEFINE j == Head(out_queue)
  <2>1. /\ UNCHANGED <<in_queue, worker>> /\ out_queue # <<>> /\ out_queue' = Tail(out_queue)
        /\ UNCHANGED <<socket, reqno, requests>> /\ responses' = responses \ {j.msg}
        /\ cell[j.sock].destroyed /\ cell' = [cell EXCEPT ![j.sock] = FreeCell]
    BY <1>5 DEF LateResponse, ioVars
  <2>2. /\ JobInv' /\ j \in Pending /\ j \in Answered
        /\ Pending' = Pending \ {j} /\ Held' \subseteq Held
        /\ Asked' = Asked /\ Answered' = Answered \ {j}
    BY <1>1, <2>1, PopJobs
  <2>3. Stage' = Stage
    <3>1. pc' = pc /\ \A d \in Conns : pc[d] # "woken"
      BY <1>5 DEF LateResponse, ioVars, Running, RunningPC
    <3> QED
      BY <3>1 DEF Stage
  <2> HIDE DEF j
  <2>4. NumInv' /\ CellInv' /\ MsgInv'
    BY <1>1, <2>1, <2>2, <2>3, MemLate
  <2> QED
    BY <2>2, <2>4 DEF MemInv
<1>6. CASE StartTask
  <2> DEFINE c == Head(todo_list)
  <2>1. /\ c \in Conns /\ pc[c] = "todo"
    BY <1>6, TailElements DEF StartTask, TypeOK, RunInv
  <2>2. PICK a \in Cells :
          /\ ~cell[a].live
          /\ cell' = [cell EXCEPT ![a] = [live |-> TRUE, conn |-> c, destroyed |-> FALSE, args |-> None]]
          /\ socket' = [socket EXCEPT ![c] = a]
    BY <1>6 DEF StartTask
  <2>3. /\ UNCHANGED <<in_queue, out_queue, worker>> /\ UNCHANGED responses
        /\ reqno' = [reqno EXCEPT ![c] = 1] /\ requests' = requests \cup {<<c, 1>>}
        /\ pc' = [pc EXCEPT ![c] = "recv"] /\ Running = {}
    BY <1>6 DEF StartTask, queueVars
  <2> HIDE DEF c
  <2>4. Stage[c] = "fresh" /\ Stage'[c] = "reading"
    BY <1>1, <2>1, <2>3, Stages
  <2>5. \A d \in Conns \ {c} : pc'[d] = pc[d] /\ pc[d] # "woken"
    BY <1>1, <2>3 DEF Running, RunningPC
  <2>6. Stage' = [Stage EXCEPT ![c] = "reading"]
    BY <2>1, <2>4, <2>5, StageFrame
  <2>7. NumInv' /\ CellInv' /\ MsgInv'
    BY <1>1, <1>2, <2>1, <2>2, <2>3, <2>4, <2>6, MemStart
  <2> QED
    BY <1>2, <2>3, <2>7 DEF MemInv
<1> QED
  BY <1>3, <1>4, <1>5, <1>6 DEF SchedulerStep

\* The steps of the acceptor.
LEMMA MemAcceptorSteps ==
  ASSUME TypeOK, AcceptInv, RunInv, MemInv, AcceptorStep \/ \E c \in Conns : Accept(c)
  PROVE  MemInv'
<1>1. MemTypes /\ pc \in [Conns -> ConnPC] /\ JobInv /\ NumInv /\ CellInv /\ MsgInv
  BY MemTypesHold DEF MemInv, TypeOK
<1>2. /\ UNCHANGED <<in_queue, out_queue, worker>>
      /\ UNCHANGED <<socket, reqno, cell, requests, responses>>
  BY DEF AcceptorStep, Accept, TooManyConnections, AcceptQueueFull, RejectAccepted, CanAccept,
     AddAcceptedFd, CountAccepted, ioVars, memoryVars, queueVars
<1>3. /\ JobInv' /\ Pending' = Pending /\ Held' = Held
      /\ Asked' = Asked /\ Answered' = Answered
  BY <1>1, <1>2, SameJobs
<1>4. CASE pc' = pc \/ AddAcceptedFd
  <2>1. pc' = pc \/ (pc[accepted_fd] = "new" /\ pc' = [pc EXCEPT ![accepted_fd] = "listed"])
    BY <1>4 DEF AddAcceptedFd, AcceptInv
  <2>2. Stage' = Stage
    BY <1>1, <1>2, <2>1 DEF Stage
  <2> QED
    BY <1>1, <1>2, <1>3, <2>2, MemSame DEF MemInv
<1>5. CASE RejectAccepted /\ accept_pc \in {"check", "add"}
  <2>1. accepted_fd \in Conns /\ pc[accepted_fd] = "new"
    BY <1>5, UnitAssumption DEF AcceptInv, TypeOK
  <2>2. pc' = [pc EXCEPT ![accepted_fd] = "done"]
    BY <1>5 DEF RejectAccepted
  <2>3. Stage[accepted_fd] = "fresh" /\ Stage' = [Stage EXCEPT ![accepted_fd] = "ended"]
    BY <1>1, <1>2, <2>1, <2>2 DEF Stage
  <2> QED
    BY <1>1, <1>2, <1>3, <2>1, <2>3, MemRefuse DEF MemInv
<1> QED
  BY <1>4, <1>5 DEF AcceptorStep, Accept, TooManyConnections, AcceptQueueFull, CanAccept,
     CountAccepted, ioVars

\* The steps of the workers.
LEMMA MemWorkerSteps ==
  ASSUME TypeOK, MemInv, NEW w \in Workers, WorkerStep(w)
  PROVE  MemInv'
<1>1. MemTypes /\ JobInv /\ NumInv /\ CellInv /\ MsgInv
  BY MemTypesHold DEF MemInv
<1>2. /\ UNCHANGED <<socket, reqno, cell>> /\ Stage' = Stage
  BY DEF WorkerStep, PluckRequest, DispatchRequest, PushResponse, DeleteRequest, ioVars, memoryVars, Stage
<1>3. CASE PluckRequest(w)
  BY <1>1, <1>2, <1>3, PluckJobs, MemSame DEF PluckRequest, memoryVars, MemInv
<1>4. CASE DispatchRequest(w)
  BY <1>1, <1>2, <1>4, DispatchJobs, MemDispatch DEF DispatchRequest, MemInv
<1>5. CASE PushResponse(w)
  BY <1>1, <1>2, <1>5, RespondJobs, MemSame DEF PushResponse, memoryVars, MemInv
<1>6. CASE DeleteRequest(w)
  BY <1>1, <1>2, <1>6, DeleteJobs, MemDelete DEF DeleteRequest, MemInv
<1> QED
  BY <1>3, <1>4, <1>5, <1>6 DEF WorkerStep

-----------------------------------------------------------------------------
(* Descriptors *)

\* The two sets of FdsAccounted: connections that something of the server has,
\* and those a late response still closes.
Owned == {c \in Conns : \/ accepted_fd = c /\ accept_pc # "count"
                        \/ pc[c] \in {"listed", "todo"}
                        \/ socket[c] # None}
LeftOpen == {cell[a].conn : a \in {b \in Cells : cell[b].destroyed}}

\* Steps that touch no descriptor and leave every connection with its owner.
LEMMA FdsSame ==
  ASSUME MemTypes, FdsAccounted, UNCHANGED <<accepted_fd, accept_pc, socket, open>>,
         \A c \in Conns : pc'[c] \in {"listed", "todo"} <=> pc[c] \in {"listed", "todo"},
         \A a \in Cells : cell'[a].destroyed = cell[a].destroyed /\ cell'[a].conn = cell[a].conn
  PROVE  FdsAccounted'
<1>1. open = Owned \cup LeftOpen
  BY DEF FdsAccounted, Owned, LeftOpen
<1>2. Owned' = Owned
  BY DEF Owned
<1>3. LeftOpen' = LeftOpen
  BY DEF LeftOpen
<1>4. FdsAccounted' <=> open' = Owned' \cup LeftOpen'
  BY DEF FdsAccounted, Owned, LeftOpen
<1> QED
  BY <1>1, <1>2, <1>3, <1>4

\* Every descriptor that is open has one owner, who closes it.
LEMMA FdsStep ==
  ASSUME TypeOK, AcceptInv, RunInv, MemInv, FdsAccounted, Next
  PROVE  FdsAccounted'
<1>1. /\ MemTypes /\ pc \in [Conns -> ConnPC] /\ JobInv /\ NumInv /\ CellInv /\ MsgInv
      /\ accepted_fd \in Conns \cup {None} /\ open \in SUBSET Conns
  BY MemTypesHold DEF MemInv, TypeOK
<1>2. open = Owned \cup LeftOpen
  BY DEF FdsAccounted, Owned, LeftOpen
<1>3. ASSUME open' = Owned' \cup LeftOpen' PROVE FdsAccounted'
  BY <1>3 DEF FdsAccounted, Owned, LeftOpen
<1>4. \A a \in Cells : cell[a].destroyed =>
        /\ cell[a].conn \in Conns /\ Stage[cell[a].conn] = "ended" /\ socket[cell[a].conn] = None
  BY <1>1 DEF CellInv
<1>5. \A c \in LeftOpen : Stage[c] = "ended" /\ socket[c] = None /\ c \in Conns
  BY <1>4 DEF LeftOpen
<1>6. \A c \in Conns : pc[c] \in {"new", "listed", "todo"} => Stage[c] = "fresh" /\ socket[c] = None
  BY <1>1, Stages DEF CellInv
<1>7. ASSUME NEW c \in Conns, Accept(c) PROVE FdsAccounted'
  <2>1. accept_pc = "idle" /\ accepted_fd = None
    BY <1>7 DEF Accept, AcceptInv
  <2>2. /\ accepted_fd' = c /\ accept_pc' = "check" /\ UNCHANGED <<pc, socket, cell>>
        /\ open' = open \cup {c}
    BY <1>7 DEF Accept, ioVars
  <2>3. Owned' = Owned \cup {c} /\ LeftOpen' = LeftOpen
    BY <1>1, <2>1, <2>2 DEF Owned, LeftOpen, MemTypes
  <2> QED
    BY <1>2, <1>3, <2>2, <2>3
<1>8. CASE accept_pc \in {"check", "add"} /\ RejectAccepted
  <2>1. accepted_fd \in Conns /\ pc[accepted_fd] = "new"
    BY <1>1, <1>8 DEF AcceptInv
  <2>2. /\ accepted_fd' = None /\ accept_pc' = "idle" /\ UNCHANGED <<socket, cell>>
        /\ open' = open \ {accepted_fd} /\ pc' = [pc EXCEPT ![accepted_fd] = "done"]
    BY <1>8 DEF RejectAccepted
  <2>3. Owned' = Owned \ {accepted_fd}
    BY <1>1, <1>6, <1>8, <2>1, <2>2 DEF Owned, MemTypes
  <2>4. LeftOpen' = LeftOpen /\ accepted_fd \notin LeftOpen
    BY <1>5, <1>6, <2>1, <2>2 DEF LeftOpen
  <2> QED
    BY <1>2, <1>3, <2>2, <2>3, <2>4
<1>9. CASE CanAccept
  <2>1. /\ accept_pc = "check" /\ accept_pc' = "add"
        /\ UNCHANGED <<accepted_fd, pc, socket, cell, open>>
    BY <1>9 DEF CanAccept, ioVars, memoryVars
  <2>2. Owned' = Owned /\ LeftOpen' = LeftOpen
    BY <2>1 DEF Owned, LeftOpen
  <2> QED
    BY <1>2, <1>3, <2>1, <2>2
<1>10. CASE AddAcceptedFd
  <2>1. accepted_fd \in Conns /\ pc[accepted_fd] = "new"
    BY <1>1, <1>10 DEF AddAcceptedFd, AcceptInv
  <2>2. /\ accept_pc = "add" /\ accept_pc' = "count"
        /\ UNCHANGED <<accepted_fd, socket, cell, open>>
        /\ pc' = [pc EXCEPT ![accepted_fd] = "listed"]
    BY <1>10 DEF AddAcceptedFd, memoryVars
  <2>3. Owned' = Owned /\ LeftOpen' = LeftOpen
    BY <1>1, <2>1, <2>2 DEF Owned, LeftOpen
  <2> QED
    BY <1>2, <1>3, <2>2, <2>3
<1>11. CASE CountAccepted
  <2>1. /\ accept_pc = "count" /\ accept_pc' = "idle" /\ accepted_fd' = None
        /\ UNCHANGED <<pc, socket, cell, open>>
    BY <1>11 DEF CountAccepted, ioVars, memoryVars
  <2>2. Owned' = Owned /\ LeftOpen' = LeftOpen
    BY <1>1, <2>1 DEF Owned, LeftOpen, MemTypes
  <2> QED
    BY <1>2, <1>3, <2>1, <2>2
<1>12. CASE EpollWait \/ EventsDone \/ ActiveDone \/ TodoDone \/ HandlerAcceptedFd
  <2>1. /\ UNCHANGED <<accepted_fd, accept_pc, socket, cell, open>>
        /\ pc' = pc \/ pc' = [c \in Conns |-> IF pc[c] = "listed" THEN "todo" ELSE pc[c]]
    BY <1>12 DEF EpollWait, EventsDone, ActiveDone, TodoDone, HandlerAcceptedFd, acceptVars, memoryVars
  <2>2. \A c \in Conns : pc'[c] \in {"listed", "todo"} <=> pc[c] \in {"listed", "todo"}
    BY <2>1
  <2> QED
    BY <1>1, <2>1, <2>2, FdsSame
<1>13. CASE ActiveSocket
  <2> DEFINE j == Head(out_queue)
  <2>1. /\ UNCHANGED <<accepted_fd, accept_pc, socket, open>>
        /\ cell' = [cell EXCEPT ![j.sock].args = j.msg]
    BY <1>13 DEF ActiveSocket, acceptVars
  <2>2. ConnMove(cell[j.sock].conn) /\ cell[j.sock].conn \in Conns
    BY <1>1, <1>13, ActiveMoves
  <2>3. \A c \in Conns : pc'[c] \in {"listed", "todo"} <=> pc[c] \in {"listed", "todo"}
    BY <2>2 DEF ConnMove, Suspended, RunningPC
  <2>4. \A a \in Cells : cell'[a].destroyed = cell[a].destroyed /\ cell'[a].conn = cell[a].conn
    BY <1>1, <2>1 DEF MemTypes, CellType
  <2> QED
    BY <1>1, <2>1, <2>3, <2>4, FdsSame
<1>14. CASE LateResponse
  <2> DEFINE j == Head(out_queue)
             a == j.sock
             c == cell[a].conn
  <2>1. /\ UNCHANGED <<accepted_fd, accept_pc, pc, socket>>
        /\ cell[a].destroyed /\ cell' = [cell EXCEPT ![a] = FreeCell] /\ open' = open \ {c}
    BY <1>14 DEF LateResponse, acceptVars, ioVars
  <2>2. a \in Cells
    <3>1. j \in Pending
      BY <1>1, <1>14, PopJobs DEF LateResponse
    <3> QED
      BY <1>1, <3>1 DEF MemTypes
  <2>3. \A b \in Cells \ {a} : cell[b].destroyed => cell[b].conn # c
    BY <1>1, <2>1, <2>2 DEF CellInv
  <2>4. /\ c \in Conns /\ Stage[c] = "ended" /\ socket[c] = None
    BY <1>4, <2>1, <2>2
  <2> HIDE DEF a, j
  <2>5. \A b \in Cells \ {a} : cell'[b] = cell[b]
    BY <2>1
  <2>6. ~cell'[a].destroyed
    BY <1>1, <2>1, <2>2 DEF FreeCell, MemTypes
  <2>7. LeftOpen' = LeftOpen \ {c}
    BY <2>1, <2>2, <2>3, <2>5, <2>6 DEF LeftOpen
  <2>8. Owned' = Owned
    BY <2>1 DEF Owned
  <2>9. c \notin Owned
    <3>1. pc[c] \notin {"new", "listed", "todo"}
      BY <1>6, <2>4
    <3>2. ~(accepted_fd = c /\ accept_pc # "count")
      BY <1>1, <2>4, <3>1, UnitAssumption DEF AcceptInv, TypeOK
    <3> QED
      BY <2>4, <3>1, <3>2 DEF Owned
  <2> QED
    BY <1>2, <1>3, <2>1, <2>7, <2>8, <2>9
<1>15. CASE StartTask
  <2> DEFINE c == Head(todo_list)
  <2>1. /\ c \in Conns /\ pc[c] = "todo"
    BY <1>15, TailElements DEF StartTask, TypeOK, RunInv
  <2>2. PICK a \in Cells :
          /\ ~cell[a].live
          /\ cell' = [cell EXCEPT ![a] = [live |-> TRUE, conn |-> c, destroyed |-> FALSE, args |-> None]]
          /\ socket' = [socket EXCEPT ![c] = a]
    BY <1>15 DEF StartTask
  <2>3. /\ UNCHANGED <<accepted_fd, accept_pc, open>> /\ pc' = [pc EXCEPT ![c] = "recv"]
    BY <1>15 DEF StartTask, acceptVars
  <2> HIDE DEF c
  <2>4. Owned' = Owned
    BY <1>1, <2>1, <2>2, <2>3 DEF Owned, MemTypes
  <2>5. /\ ~cell[a].destroyed /\ ~cell'[a].destroyed
        /\ \A b \in Cells \ {a} : cell'[b] = cell[b]
    BY <1>1, <2>2 DEF CellInv, MemTypes
  <2>6. LeftOpen' = LeftOpen
    BY <2>5 DEF LeftOpen
  <2> QED
    BY <1>2, <1>3, <2>3, <2>4, <2>6
<1>16. ASSUME NEW c \in Conns, Event(c) \/ Timeout(c) \/ IOFunc(c), ~WaitTimedOut(c), ~DestroyStream(c)
       PROVE  FdsAccounted'
  <2>1. /\ UNCHANGED <<accepted_fd, accept_pc, socket, open>>
        /\ cell' = cell \/ cell' = [cell EXCEPT ![socket[c]].args = None]
    BY <1>16 DEF Event, Timeout, IOFunc, RecvBlock, RecvFail, RecvReq, CanPushRequest, RejectRequest,
       PushRequest, WaitAnswered, SendBlock, SendResp, ReleaseHold, acceptVars, memoryVars
  <2>2. ConnMove(c)
    BY <1>16, ConnMoves
  <2>3. \A d \in Conns : pc'[d] \in {"listed", "todo"} <=> pc[d] \in {"listed", "todo"}
    BY <2>2 DEF ConnMove, Suspended, RunningPC
  <2>4. \A a \in Cells : cell'[a].destroyed = cell[a].destroyed /\ cell'[a].conn = cell[a].conn
    BY <1>1, <2>1 DEF MemTypes, CellType
  <2> QED
    BY <1>1, <2>1, <2>3, <2>4, FdsSame
<1>17. ASSUME NEW c \in Conns, WaitTimedOut(c) PROVE FdsAccounted'
  <2> DEFINE a == socket[c]
  <2>1. /\ UNCHANGED <<accepted_fd, accept_pc, open>> /\ pc' = [pc EXCEPT ![c] = "exit"]
        /\ cell' = [cell EXCEPT ![a].destroyed = TRUE] /\ socket' = [socket EXCEPT ![c] = None]
        /\ pc[c] = "woken"
    BY <1>17 DEF WaitTimedOut, acceptVars
  <2>2. a # None
    BY <1>1, <2>1, Stages DEF CellInv
  <2>3. a \in Cells /\ cell[a].conn = c /\ ~cell[a].destroyed
    BY <1>1, <2>2, MemOwner
  <2> HIDE DEF a
  <2>4. /\ \A b \in Cells \ {a} : cell'[b] = cell[b]
        /\ cell'[a].destroyed /\ cell'[a].conn = c
    BY <1>1, <2>1, <2>3 DEF MemTypes, CellType
  <2>5. LeftOpen' = LeftOpen \cup {c}
    BY <2>3, <2>4 DEF LeftOpen
  <2>6. Owned \ {c} = Owned' \ {c} /\ c \in Owned
    BY <1>1, <2>1, <2>2 DEF Owned, MemTypes, a
  <2> QED
    BY <1>2, <1>3, <2>1, <2>5, <2>6
<1>18. ASSUME NEW c \in Conns, DestroyStream(c) PROVE FdsAccounted'
  <2> DEFINE a == socket[c]
  <2>1. /\ UNCHANGED <<accepted_fd, accept_pc>> /\ pc' = [pc EXCEPT ![c] = "done"] /\ pc[c] = "destroy"
    BY <1>18 DEF DestroyStream, acceptVars
  <2>2. \A d \in Conns : pc'[d] \in {"listed", "todo"} <=> pc[d] \in {"listed", "todo"}
    BY <1>1, <2>1
  <2>3. CASE a = None
    BY <1>1, <1>18, <2>1, <2>2, <2>3, FdsSame DEF DestroyStream
  <2>4. CASE a # None
    <3>1. a \in Cells /\ cell[a].conn = c /\ ~cell[a].destroyed
      BY <1>1, <2>4, MemOwner
    <3>2. /\ open' = open \ {c} /\ cell' = [cell EXCEPT ![a] = FreeCell]
          /\ socket' = [socket EXCEPT ![c] = None]
      BY <1>18, <2>4, <3>1 DEF DestroyStream
    <3>3. c \notin LeftOpen
      BY <1>5, <2>4
    <3> HIDE DEF a
    <3>4. /\ \A b \in Cells \ {a} : cell'[b] = cell[b]
          /\ ~cell'[a].destroyed
      BY <1>1, <3>1, <3>2 DEF FreeCell, MemTypes
    <3>5. LeftOpen' = LeftOpen
      BY <3>1, <3>4 DEF LeftOpen
    <3>6. ~(accepted_fd = c /\ accept_pc # "count")
      BY <1>1, <2>1, UnitAssumption DEF AcceptInv, TypeOK
    <3>7. Owned' = Owned \ {c}
      BY <1>1, <2>1, <2>2, <3>2, <3>6 DEF Owned, MemTypes
    <3> QED
      BY <1>2, <1>3, <3>2, <3>3, <3>5, <3>7
  <2> QED
    BY <2>3, <2>4
<1>19. ASSUME NEW w \in Workers, WorkerStep(w) PROVE FdsAccounted'
  <2>1. UNCHANGED <<accepted_fd, accept_pc, pc, socket, cell, open>>
    BY <1>19 DEF WorkerStep, PluckRequest, DispatchRequest, PushResponse, DeleteRequest, acceptVars,
       ioVars, memoryVars
  <2> QED
    BY <1>1, <2>1, FdsSame
<1>20. CASE AcceptorStep
  BY <1>8, <1>9, <1>10, <1>11, <1>20 DEF AcceptorStep, TooManyConnections, AcceptQueueFull
<1>21. CASE SchedulerStep
  BY <1>12, <1>13, <1>14, <1>15, <1>21 DEF SchedulerStep
<1> QED
  BY <1>7, <1>16, <1>17, <1>18, <1>19, <1>20, <1>21 DEF Next

-----------------------------------------------------------------------------
(* The theorems *)

\* The invariant holds at the start.
LEMMA InitUInv == Init => UInv
<1> SUFFICES ASSUME Init PROVE UInv
  OBVIOUS
<1>1. TypeOK
  BY UnitAssumption DEF Init, TypeOK, FreeCell, CellType, ConnPC, Phases, Idle, WorkerPC
<1>2. /\ InQueue = {} /\ OutQueue = {} /\ \A P : JobsAt(worker, P) \subseteq {None}
      /\ \A w \in Workers : worker[w].at = "pluck"
  BY DEF Init, InQueue, OutQueue, JobsAt, Idle
<1>3. Pending = {} /\ Held = {} /\ Asked = {} /\ Answered = {}
  <2>1. /\ JobsAt(worker, Answering) = {} /\ JobsAt(worker, Deleting) = {}
        /\ JobsAt(worker, HasRequest) = {} /\ JobsAt(worker, HasResponse) = {}
    BY <1>2, Places DEF JobsAt
  <2> QED
    BY <1>2, <2>1, JobNames
<1>4. Stage = [c \in Conns |-> "fresh"]
  BY DEF Init, Stage
<1>5. AcceptInv
  BY DEF Init, AcceptInv
<1>6. Running = {} /\ InService = {}
  BY DEF Init, Running, InService, RunningPC
<1>7. RunInv
  <2>1. Range(<<>>) = {} /\ IsInjective(<<>>)
    BY DEF Range, IsInjective
  <2> QED
    BY <1>6, <2>1 DEF Init, RunInv
<1>8. CountInv /\ ConnectionLimit
  <2>1. IsFiniteSet({}) /\ Cardinality({}) = 0
    BY FS_EmptySet
  <2> QED
    BY <1>6, <2>1, UnitAssumption DEF Init, CountInv, ConnectionLimit, HoldFdsExact
<1>9. JobInv
  <2>1. IsInjective(<<>>)
    BY DEF IsInjective
  <2>2. \A v \in Workers : worker[v].at = "pluck"
    BY <1>2
  <2> QED
    BY <1>2, <1>3, <2>1, <2>2 DEF Init, JobInv
<1>10. NumInv /\ CellInv /\ MsgInv
  <2>1. NumInv
    BY <1>3, <1>4 DEF Init, NumInv
  <2>2. CellInv
    BY <1>3, <1>4 DEF Init, CellInv, FreeCell
  <2>3. MsgInv
    BY <1>3, <1>4 DEF Init, MsgInv
  <2> QED
    BY <2>1, <2>2, <2>3
<1>11. FdsAccounted
  BY UnitAssumption DEF Init, FdsAccounted, FreeCell
<1>12. QueueLimits
  BY UnitAssumption DEF Init, QueueLimits
<1> QED
  BY <1>1, <1>5, <1>7, <1>8, <1>9, <1>10, <1>11, <1>12 DEF UInv

\* Every step keeps it.
LEMMA StepUInv == UInv /\ [Next]_vars => UInv'
<1> SUFFICES ASSUME UInv, [Next]_vars PROVE UInv'
  OBVIOUS
<1>1. CASE UNCHANGED vars
  <2>1. UNCHANGED <<accept_pc, accepted_fd, hold_fds, accepted_fd_list, todo_list, phase, events, pc,
                    socket, blocks, reqno, cell, in_queue, out_queue, worker, requests, responses, open>>
    BY <1>1 DEF vars, acceptVars, ioVars, memoryVars, queueVars
  <2>2. Running' = Running /\ InService' = InService /\ Stage' = Stage
    BY <2>1 DEF Running, InService, Stage
  <2>3. /\ JobInv' /\ Pending' = Pending /\ Held' = Held
        /\ Asked' = Asked /\ Answered' = Answered
    BY <2>1, SameJobs DEF UInv
  <2>4. TypeOK' /\ AcceptInv' /\ RunInv'
    BY <2>1, <2>2 DEF UInv, TypeOK, AcceptInv, RunInv
  <2>5. CountInv' /\ FdsAccounted' /\ QueueLimits' /\ ConnectionLimit'
    BY <2>1, <2>2 DEF UInv, CountInv, HoldFdsExact, FdsAccounted, QueueLimits, ConnectionLimit
  <2>6. NumInv' /\ CellInv' /\ MsgInv'
    BY <2>1, <2>2, <2>3, MemSame DEF UInv
  <2> QED
    BY <2>3, <2>4, <2>5, <2>6 DEF UInv
<1>2. CASE Next
  <2>1. TypeOK'
    BY <1>2, TypeStep DEF UInv
  <2>2. in_queue' \in Seq(Job)
    BY <2>1 DEF TypeOK
  <2>3. AcceptInv' /\ RunInv' /\ CountInv' /\ ConnectionLimit' /\ QueueLimits'
    BY <1>2, <2>2, AcceptStep, RunStep, CountStep, QueueStep DEF UInv
  <2>4. MemInv
    BY DEF UInv, MemInv
  <2>5. FdsAccounted'
    BY <1>2, <2>4, FdsStep DEF UInv
  <2>6. MemInv'
    <3>1. ASSUME NEW c \in Conns, Event(c) \/ Timeout(c) \/ IOFunc(c) PROVE MemInv'
      <4>1. ConnMove(c)
        BY <3>1, ConnMoves DEF UInv
      <4>2. TypeOK /\ RunInv
        BY DEF UInv
      <4> QED
        BY <2>4, <3>1, <4>1, <4>2, MemIdleSteps, MemUThreadSteps DEF IOFunc
    <3>2. ASSUME NEW w \in Workers, WorkerStep(w) PROVE MemInv'
      BY <2>4, <3>2, MemWorkerSteps DEF UInv
    <3>3. CASE SchedulerStep
      BY <2>4, <3>3, MemSchedulerSteps DEF UInv
    <3>4. CASE AcceptorStep \/ \E c \in Conns : Accept(c)
      BY <2>4, <3>4, MemAcceptorSteps DEF UInv
    <3> QED
      BY <1>2, <3>1, <3>2, <3>3, <3>4 DEF Next
  <2> QED
    BY <2>1, <2>3, <2>5, <2>6 DEF UInv, MemInv
<1> QED
  BY <1>1, <1>2

\* So it holds in every state.
LEMMA UInvHolds == Spec => []UInv
BY InitUInv, StepUInv, PTL DEF Spec

\* Every socket pointer in in_queue_, at a worker or in out_queue_ is to a cell that
\* is allocated and still for the connection of the request.
THEOREM PointersStayValid == Spec => []SocketPointersValid
<1>1. UInv => SocketPointersValid
  BY DEF UInv, CellInv, SocketPointersValid
<1> QED
  BY <1>1, UInvHolds, PTL

\* A response that ActiveSocketFunc can deliver is for the request its uthread
\* waits for, and the uthread has no other one.
THEOREM AnswersReachTheirRequest == Spec => []AnswerMatchesRequest
<1>1. ASSUME UInv PROVE AnswerMatchesRequest
  <2> SUFFICES ASSUME NEW job \in Pending, ~cell[job.sock].destroyed
               PROVE  \E c \in Conns : /\ pc[c] \in {"wait", "woken"}
                                       /\ socket[c] = job.sock
                                       /\ job.msg = <<c, reqno[c]>>
                                       /\ cell[job.sock].args = None
    BY DEF AnswerMatchesRequest
  <2> DEFINE c == job.msg[1]
  <2>1. c \in Conns /\ Stage[c] = "waiting" /\ socket[c] = job.sock /\ job.msg = <<c, reqno[c]>>
    BY <1>1, MemTypesHold DEF UInv, MemTypes, CellInv, Current
  <2> HIDE DEF c
  <2>2. pc[c] \in {"wait", "woken"}
    BY <1>1, <2>1 DEF UInv, TypeOK, Stage, ConnPC, Suspended, RunningPC
  <2>3. cell[socket[c]].args = None
    BY <1>1, <2>1 DEF UInv, CellInv
  <2> QED
    BY <2>1, <2>2, <2>3
<1> QED
  BY <1>1, UInvHolds, PTL

\* Requests, responses, cells, descriptors and the count of connections are at all
\* times those that some thread still has to free, close or count off.
THEOREM EverythingIsAccounted == Spec => []Accounted
<1>1. ASSUME UInv PROVE Accounted
  <2>1. TypeOK /\ FdsAccounted /\ HoldFdsExact /\ CellInv /\ MsgInv /\ MemTypes
    BY <1>1, MemTypesHold DEF UInv, CountInv
  <2>2. /\ Reading = {c \in Conns : Stage[c] = "reading"}
        /\ Writing = {c \in Conns : Stage[c] = "writing"}
    BY <2>1 DEF Reading, Writing, Stage, TypeOK, ConnPC, Suspended, RunningPC
  <2>3. /\ requests = {Current(c) : c \in Reading}
                      \cup {job.msg : job \in InQueue \cup AtWorker(WorkerPC \ {"pluck"})}
        /\ responses = {Current(c) : c \in Writing}
                       \cup {job.msg : job \in OutQueue \cup AtWorker({"respond"})}
    BY <2>1, <2>2 DEF MsgInv, Asked, Answered
  <2>4. {a \in Cells : cell[a].live} =
          {socket[c] : c \in {d \in Conns : socket[d] # None}}
          \cup {job.sock : job \in {j \in Pending : cell[j.sock].destroyed}}
    <3>1. ASSUME NEW a \in Cells, cell[a].live
          PROVE  \/ \E c \in Conns : socket[c] # None /\ socket[c] = a
                 \/ \E job \in Pending : cell[job.sock].destroyed /\ job.sock = a
      BY <2>1, <3>1 DEF CellInv, MemTypes
    <3>2. ASSUME NEW c \in Conns, socket[c] # None PROVE socket[c] \in Cells /\ cell[socket[c]].live
      BY <2>1, <3>2, MemOwner
    <3>3. ASSUME NEW job \in Pending PROVE job.sock \in Cells /\ cell[job.sock].live
      BY <2>1 DEF CellInv, MemTypes
    <3> QED
      BY <3>1, <3>2, <3>3
  <2> QED
    BY <2>1, <2>3, <2>4 DEF Accounted, MemoryAccounted
<1> QED
  BY <1>1, UInvHolds, PTL

\* No limit is exceeded, although each is checked on a value that another thread
\* may have changed when it is relied on.
THEOREM LimitsAreKept == Spec => []Limits
<1>1. UInv => Limits
  BY DEF UInv, Limits
<1> QED
  BY <1>1, UInvHolds, PTL
=============================================================================
