----------------------------- MODULE HshaServer -----------------------------
(***************************************************************************)
(* A server from its start on (src/phxrpc/rpc/hsha_server.cpp, the main of *)
(* src/codegen/server_template.cpp): the configuration is read, the        *)
(* statistics and the QoS are constructed with a thread each, the workers  *)
(* are divided over the units, and the acceptor listens.                   *)
(*                                                                         *)
(* HshaServerStat and HshaServerQos have no common lock.  The workers and  *)
(* the io threads add up how long requests waited in the queues; the stat  *)
(* thread publishes the averages; the qos thread turns them into the share *)
(* of the requests that the io threads refuse.  The share decides how many *)
(* requests are counted next, so the loop is closed.  The two threads are  *)
(* started by initialisers that come before those of the fields they read  *)
(* (break_out_ is read uninitialised).                                     *)
(***************************************************************************)
EXTENDS Config, FiniteSets

CONSTANTS
    Files,       \* the configuration files
    Required,    \* the keys without a default: BindIP, Port, PackageName
    Requests,    \* requests of clients; one that is done is sent again
    InWaits,     \* how long a request may wait in the in queue while it is
    OutWaits,    \* slow, and in the out queue; when it is not slow, 0
    Rate,        \* QUEUE_WAIT_TIME_COST_CAL_RATE: an average is of so many
    Hundred,     \* the parts the share is counted in
    MaxCount     \* a bound on the waits counted and not yet averaged

ASSUME ServerAssumption ==
    /\ Files \subseteq Seq(Line)
    /\ "BindIP" \in Required /\ Required \subseteq STRING
    /\ Rate \in Nat \ {0} /\ MaxCount \in Nat
    /\ InWaits \subseteq Nat /\ OutWaits \subseteq Nat
    /\ Hundred \in Nat \ {0}
    /\ MaxCount >= Rate

\* The keys that have a default, with it.
Default == [MaxThreads |-> 20, IOThreadCount |-> 3,
            FastRejectThresholdMS |-> 20, FastRejectAdjustRate |-> 5]

VARIABLES
    main,        \* where the main thread is
    content,     \* of the configuration file, until it has been read
    config,      \* what was read from it: HshaServerConfig
    units,       \* server_unit_list_, as the number of workers of each
    breakOut,    \* break_out_ of the two objects
    request,     \* where each request is
    slow,        \* whether requests may wait
    inq, outq,   \* the waits added up and counted, of either queue
    inAvg,       \* inqueue_avg_wait_time_costs_per_second_
    outAvg,      \* outqueue_avg_wait_time_costs_per_second_
    fresh,       \* cal_seq_ # cal_last_seq_
    statPc, qosPc,
    qosIn,       \* the average of the in queue that the qos thread read
    rejectRate   \* enqueue_reject_rate_

statVars == <<statPc, inAvg, outAvg>>
qosVars == <<qosPc, qosIn, rejectRate>>
startVars == <<main, content, config, units>>
vars == <<startVars, breakOut, request, slow, inq, outq, statVars, fresh, qosVars>>

Zero == [cost |-> 0, count |-> 0]

\* break_out_ holds anything before it is initialised.
Init ==
    /\ main = "read"
    /\ content \in Files
    /\ config = <<>>
    /\ units = <<>>
    /\ breakOut \in [{"stat", "qos"} -> BOOLEAN]
    /\ request = [r \in Requests |-> "none"]
    /\ slow = TRUE
    /\ inq = Zero /\ outq = Zero
    /\ inAvg = 0 /\ outAvg = 0
    /\ fresh = FALSE
    /\ statPc = "unborn" /\ qosPc = "unborn"
    /\ qosIn = 0
    /\ rejectRate = 0

-----------------------------------------------------------------------------
(* The main thread. *)

MainStep(from, to) ==
    /\ main = from
    /\ main' = to
    /\ UNCHANGED <<request, slow, inq, outq, inAvg, outAvg, fresh, qosIn>>

\* showUsage ends the process.
ReadFails ==
    /\ MainStep("read", "ended")
    /\ UNCHANGED <<content, config, units, breakOut, statPc, qosPc, rejectRate>>

\* ServerConfig::Read, then HshaServerConfig::DoRead if no key is missing;
\* the statistics start their thread.
ReadConfig ==
    /\ main = "read"
    /\ LET missing == \E k \in Required : ~Found(content, "Server", k)
           keys == Required \cup (IF missing THEN {"MaxThreads"} ELSE DOMAIN Default)
           value(k) == ReadItem(content, "Server", k, IF k \in Required THEN 0 ELSE Default[k])
       IN  IF \E k \in keys : Hangs(content, "Server", k)
           THEN MainStep("read", "hung") /\ UNCHANGED <<content, config, statPc>>
           ELSE IF missing
           THEN MainStep("read", "ended") /\ UNCHANGED <<content, config, statPc>>
           ELSE /\ MainStep("read", "stat")
                /\ config' = [k \in keys |-> value(k)]
                /\ content' = <<>>
                /\ statPc' = "check"
    /\ UNCHANGED <<units, breakOut, qosPc, rejectRate>>

StatConstructed ==
    /\ MainStep("stat", "qos")
    /\ breakOut' = [breakOut EXCEPT !["stat"] = FALSE]
    /\ qosPc' = "check"
    /\ UNCHANGED <<content, config, units, statPc, rejectRate>>

QosConstructed ==
    /\ MainStep("qos", "units")
    /\ breakOut' = [breakOut EXCEPT !["qos"] = FALSE]
    /\ rejectRate' = 0
    /\ UNCHANGED <<content, config, units, statPc, qosPc>>

\* Both counts are cast to size_t: a negative number is a large one.
Fewer(a, b) == IF a < 0 THEN b ELSE IF b < 0 \/ a < b THEN a ELSE b

\* The size of server_unit_list_ in the end.
IOCount == Fewer(config.IOThreadCount, config.MaxThreads)

\* assert(worker_thread_count > 0), the division by io_count, or more threads
\* than a process can have.
UnitsFail ==
    /\ MainStep("units", "ended")
    /\ config.MaxThreads <= 0 \/ IOCount = 0
    /\ UNCHANGED <<content, config, units, breakOut, statPc, qosPc, rejectRate>>

\* Mutant: the last unit gets no more than the others.
UnitConstructedEvenly ==
    /\ main = "units" /\ config.MaxThreads > 0 /\ IOCount > 0
    /\ MainStep("units", IF Len(units) = IOCount - 1 THEN "listen" ELSE "units")
    /\ units' = Append(units, config.MaxThreads \div IOCount)
    /\ UNCHANGED <<content, config, breakOut, statPc, qosPc, rejectRate>>

\* The last unit gets the rest.
UnitConstructed ==
    /\ main = "units" /\ config.MaxThreads > 0 /\ IOCount > 0
    /\ MainStep("units", IF Len(units) = IOCount - 1 THEN "listen" ELSE "units")
    /\ LET each == config.MaxThreads \div IOCount
       IN  units' = Append(units, IF Len(units) = IOCount - 1
                                  THEN config.MaxThreads - each * (IOCount - 1)
                                  ELSE each)
    /\ UNCHANGED <<content, config, breakOut, statPc, qosPc, rejectRate>>

\* LoopAccept begins; an address that cannot be bound ends the process.
Listen ==
    /\ main = "listen"
    /\ MainStep("listen", IF config.BindIP = 1 THEN "run" ELSE "ended")
    /\ UNCHANGED <<content, config, units, breakOut, statPc, qosPc, rejectRate>>

Main ==
    \/ ReadFails \/ ReadConfig \/ StatConstructed \/ QosConstructed
    \/ UnitsFail \/ UnitConstructed \/ Listen

-----------------------------------------------------------------------------
(* Requests. *)

Move(r, from, to) ==
    /\ main = "run"
    /\ request[r] = from
    /\ request' = [request EXCEPT ![r] = to]
    /\ UNCHANGED <<startVars, breakOut, slow, statVars, fresh, qosVars>>

\* Beyond the bound nothing is added.
AddCost(q, wait) == IF q.count < MaxCount THEN [q EXCEPT !.cost = @ + wait] ELSE q
AddCount(q) == IF q.count < MaxCount THEN [q EXCEPT !.count = @ + 1] ELSE q

\* The draw is at least as large as the share that is refused.
CanEnqueue == \E draw \in 0..(Hundred - 1) : draw >= rejectRate

\* The io thread puts the request into the in queue; a refused client tries
\* again.
Enqueue(r) == CanEnqueue /\ Move(r, "none", "queued") /\ UNCHANGED <<inq, outq>>

\* A worker takes the request and adds the time it waited ...
InCost(r) ==
    /\ Move(r, "queued", "inCost")
    /\ Cardinality({q \in Requests : request[q] = "inCost"}) < config.MaxThreads
    /\ \E wait \in (IF slow THEN InWaits ELSE {0}) : inq' = AddCost(inq, wait)
    /\ UNCHANGED outq

\* ... and counts it, then answers.
InCount(r) ==
    /\ Move(r, "inCost", "answered")
    /\ inq' = AddCount(inq)
    /\ UNCHANGED outq

\* The io thread does the same with the answer.
OutCost(r) ==
    /\ Move(r, "answered", "outCost")
    /\ \E wait \in (IF slow THEN OutWaits ELSE {0}) : outq' = AddCost(outq, wait)
    /\ UNCHANGED inq

OutCount(r) ==
    /\ Move(r, "outCost", "none")
    /\ outq' = AddCount(outq)
    /\ UNCHANGED inq

\* From here on no request waits.
Calm ==
    /\ slow /\ main = "run"
    /\ slow' = FALSE
    /\ UNCHANGED <<startVars, breakOut, request, inq, outq, statVars, fresh, qosVars>>

-----------------------------------------------------------------------------
(* HshaServerStat::CalFunc: each step is one read or one store. *)

StatStep(from, to) ==
    /\ main # "ended" /\ statPc = from
    /\ statPc' = to
    /\ UNCHANGED <<startVars, breakOut, request, slow, qosVars>>

StatCheck ==
    /\ StatStep("check", IF breakOut["stat"] THEN "ended" ELSE "wait")
    /\ UNCHANGED <<inq, outq, inAvg, outAvg, fresh>>

StatWait ==
    /\ StatStep("wait", "in")
    /\ UNCHANGED <<inq, outq, inAvg, outAvg, fresh>>

\* Mutant: the count is taken out when it is compared.
StatInTakes ==
    /\ StatStep("in", IF inq.count >= Rate THEN "inAvg" ELSE "out")
    /\ inq' = [inq EXCEPT !.count = 0]
    /\ UNCHANGED <<outq, inAvg, outAvg, fresh>>

StatIn ==
    /\ StatStep("in", IF inq.count >= Rate THEN "inAvg" ELSE "out")
    /\ UNCHANGED <<inq, outq, inAvg, outAvg, fresh>>

StatInAvg ==
    /\ StatStep("inAvg", "inCost")
    /\ inAvg' = inq.cost \div inq.count
    /\ UNCHANGED <<inq, outq, outAvg, fresh>>

\* What the workers added since is lost.
StatInCost ==
    /\ StatStep("inCost", "inCount")
    /\ inq' = [inq EXCEPT !.cost = 0]
    /\ UNCHANGED <<outq, inAvg, outAvg, fresh>>

StatInCount ==
    /\ StatStep("inCount", "inSeq")
    /\ inq' = [inq EXCEPT !.count = 0]
    /\ UNCHANGED <<outq, inAvg, outAvg, fresh>>

StatInSeq ==
    /\ StatStep("inSeq", "out")
    /\ fresh' = TRUE
    /\ UNCHANGED <<inq, outq, inAvg, outAvg>>

StatOut ==
    /\ StatStep("out", IF outq.count >= Rate THEN "outAvg" ELSE "check")
    /\ UNCHANGED <<inq, outq, inAvg, outAvg, fresh>>

StatOutAvg ==
    /\ StatStep("outAvg", "outCost")
    /\ outAvg' = outq.cost \div outq.count
    /\ UNCHANGED <<inq, outq, inAvg, fresh>>

StatOutCost ==
    /\ StatStep("outCost", "outCount")
    /\ outq' = [outq EXCEPT !.cost = 0]
    /\ UNCHANGED <<inq, inAvg, outAvg, fresh>>

StatOutCount ==
    /\ StatStep("outCount", "check")
    /\ outq' = [outq EXCEPT !.count = 0]
    /\ UNCHANGED <<inq, inAvg, outAvg, fresh>>

StatCalFunc ==
    \/ StatCheck \/ StatWait
    \/ StatIn \/ StatInAvg \/ StatInCost \/ StatInCount \/ StatInSeq
    \/ StatOut \/ StatOutAvg \/ StatOutCost \/ StatOutCount

-----------------------------------------------------------------------------
(* HshaServerQos::CalFunc. *)

QosStep(from, to) ==
    /\ main # "ended" /\ qosPc = from
    /\ qosPc' = to
    /\ UNCHANGED <<startVars, breakOut, request, slow, inq, outq, statVars>>

QosCheck ==
    /\ QosStep("check", IF breakOut["qos"] THEN "ended" ELSE "wait")
    /\ UNCHANGED <<qosIn, rejectRate, fresh>>

QosWait ==
    /\ QosStep("wait", IF fresh THEN "read" ELSE "check")
    /\ UNCHANGED <<qosIn, rejectRate, fresh>>

QosRead ==
    /\ QosStep("read", "adjust")
    /\ qosIn' = inAvg
    /\ UNCHANGED <<rejectRate, fresh>>

\* Mutant: the bound is the whole.
RaisedToAll == IF rejectRate + config.FastRejectAdjustRate > Hundred THEN Hundred ELSE rejectRate + config.FastRejectAdjustRate

\* Never all of the requests: those that are let through are what the next
\* average is made of.
Raised == IF rejectRate + config.FastRejectAdjustRate > Hundred - 1 THEN Hundred - 1 ELSE rejectRate + config.FastRejectAdjustRate

Lowered == IF rejectRate - config.FastRejectAdjustRate < 0 THEN 0 ELSE rejectRate - config.FastRejectAdjustRate

\* The average of the out queue is read now.
QosAdjust ==
    /\ QosStep("adjust", "seq")
    /\ rejectRate' = IF (qosIn + outAvg) \div 2 > config.FastRejectThresholdMS THEN Raised ELSE Lowered
    /\ UNCHANGED <<qosIn, fresh>>

\* The sequence number is read again: an average published since is passed
\* over.
QosSeq ==
    /\ QosStep("seq", "check")
    /\ fresh' = FALSE
    /\ qosIn' = 0
    /\ UNCHANGED rejectRate

QosCalFunc == QosCheck \/ QosWait \/ QosRead \/ QosAdjust \/ QosSeq

Next ==
    \/ Main
    \/ \E r \in Requests : Enqueue(r) \/ InCost(r) \/ InCount(r) \/ OutCost(r) \/ OutCount(r)
    \/ Calm
    \/ StatCalFunc
    \/ QosCalFunc

\* Each thread runs on (the waits of the two loops end after a second), and
\* clients keep sending.
Fairness ==
    /\ WF_vars(Main)
    /\ \A r \in Requests :
          /\ WF_vars(Enqueue(r))
          /\ WF_vars(InCost(r)) /\ WF_vars(InCount(r))
          /\ WF_vars(OutCost(r)) /\ WF_vars(OutCount(r))
    /\ WF_vars(StatCalFunc)
    /\ WF_vars(QosCalFunc)

Spec == Init /\ [][Next]_vars /\ Fairness

-----------------------------------------------------------------------------

TypeOK ==
    /\ main \in {"read", "hung", "stat", "qos", "units", "listen", "run", "ended"}
    /\ main \notin {"read", "hung", "ended"} =>
          config \in [Required \cup DOMAIN Default -> Int]
    /\ units \in Seq(Nat)
    /\ breakOut \in [{"stat", "qos"} -> BOOLEAN]
    /\ {inq, outq} \subseteq [cost : Nat, count : 0..MaxCount]
    /\ rejectRate \in Int
    /\ (main \notin {"read", "hung", "ended"} /\ config.FastRejectAdjustRate >= 0) =>
          rejectRate \in 0..(Hundred - 1)
    /\ {inAvg, outAvg, qosIn} \subseteq Nat

\* The stat thread checks a count and divides by it later, while the workers
\* and the io threads count: the divisor is never 0.
DivisorCounted ==
    /\ TypeOK
    /\ statPc = "inAvg" => inq.count >= Rate
    /\ statPc = "outAvg" => outq.count >= Rate

\* What the search through the text gives is what a well-formed file says,
\* whatever the order of its sections and items: the value under the header
\* of the server and no other, else the default, and the search ends.
ReadMeans ==
    (main = "read" /\ main' \in {"stat", "hung"} /\ WellFormed(content)) =>
        /\ main' = "stat"
        /\ \A k \in Required : Says(content, "Server", k, config'[k])
        /\ \A k \in DOMAIN Default :
              \/ Says(content, "Server", k, config'[k])
              \/ config'[k] = Default[k] /\ ~Has(content, "Server", k)

ConfigMeans == [][ReadMeans]_vars

\* How many workers the units have together.
Workers(list) ==
    LET upTo[i \in 0..Len(list)] == IF i = 0 THEN 0 ELSE upTo[i - 1] + list[i]
    IN  upTo[Len(list)]

\* A server that listens has all of its workers, each in one of the units, and
\* no unit without a worker: its requests would never be answered.
UnitsExact ==
    main \in {"listen", "run"} =>
        /\ Workers(units) = config.MaxThreads
        /\ \A i \in DOMAIN units : units[i] > 0
        /\ \A n \in {config.IOThreadCount} \cap Nat : Len(units) <= n

\* Once the queues are short for good, refusing ends: however the threads
\* interleave, and also if one of them ended at once for a break_out_ that
\* was not initialised.  It takes requests that get through, and averages
\* that are made, seen and acted on.
RejectionEnds == <>(~slow) => <>[](rejectRate = 0)
=============================================================================
