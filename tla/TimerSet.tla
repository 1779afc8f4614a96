------------------------------ MODULE TimerSet ------------------------------
(***************************************************************************)
(* What a Timer promises to the scheduler: a set of deadlines, at most one *)
(* per socket.  A uthread that is resumed by an event loses its own timer  *)
(* and no other; one that is resumed without an event is the one whose     *)
(* timer was the earliest, and due.                                        *)
(***************************************************************************)
EXTENDS Integers

CONSTANTS
  Sockets,
  Infinity,     \* the deadline of a timer without a timeout
  None          \* no socket

VARIABLES
  timers,       \* the armed timers: records [sock, time]
  running,      \* the socket whose uthread runs, or None
  clock         \* Timer::GetSteadyClockMS()

vars == <<timers, running, clock>>

Init == timers = {} /\ running = None /\ clock = 0

\* A uthread starts, or is resumed by an event.
Run(s) ==
  /\ running = None
  /\ running' = s
  /\ UNCHANGED <<timers, clock>>

\* It waits or ends.
Leave ==
  /\ running' = None
  /\ UNCHANGED <<timers, clock>>

\* A socket gets a timer only when it has none, and none that is overdue.
Arm(s) ==
  /\ running = None
  /\ \A t \in timers : t.sock # s
  /\ \E t \in timers' : /\ t.sock = s
                        /\ t.time >= clock
                        /\ timers' = timers \cup {t}
  /\ UNCHANGED <<running, clock>>

\* Only the uthread that runs removes a timer: its own.
Disarm(t) ==
  /\ running = t.sock
  /\ timers' = timers \ {t}
  /\ UNCHANGED <<running, clock>>

\* A timer expires when it is due, and not before an earlier one.  One without
\* a timeout may expire when no other is left.
Expire(t) ==
  /\ running = None
  /\ t.time <= clock \/ t.time = Infinity
  /\ \A u \in timers : t.time <= u.time
  /\ timers' = timers \ {t}
  /\ running' = t.sock
  /\ UNCHANGED clock

Tick == clock' > clock /\ UNCHANGED <<timers, running>>

Next ==
  \/ \E s \in Sockets : Run(s) \/ Arm(s)
  \/ Leave
  \/ \E t \in timers : Disarm(t) \/ Expire(t)
  \/ Tick

Spec == Init /\ [][Next]_vars
=============================================================================
