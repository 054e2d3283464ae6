----------------------------- MODULE TimerSet ------------------------------
(***************************************************************************)
(* What the reactor expects of its timers, without a heap: a set of armed   *)
(* timers with a deadline each, from which only a due timer with the        *)
(* earliest deadline may expire.  MinHeap implements it until an erase      *)
(* takes the ShiftUp branch (broken), after which nothing is promised.      *)
(***************************************************************************)
EXTENDS Integers

CONSTANTS Node, Interval, MaxClock

VARIABLES armed,     \* nodes with a timer
          deadline,  \* per node
          fate,      \* per node: "free", "live", "closed", "expired"
          clock,
          broken

vars == <<armed, deadline, fate, clock, broken>>

Init ==
    /\ armed = {} /\ broken = FALSE /\ clock = 0
    /\ deadline = [n \in Node |-> 0]
    /\ fate = [n \in Node |-> "free"]

(* Time moves while no connection changes. *)
Clock ==
    /\ clock' \in 0 .. MaxClock
    /\ UNCHANGED <<armed, deadline, fate, broken>>

(* A connection starts; it is not armed yet. *)
Open(n) ==
    /\ fate[n] # "live" /\ n \notin armed
    /\ fate' = [fate EXCEPT ![n] = "live"]
    /\ deadline' = [deadline EXCEPT ![n] = clock + Interval]
    /\ UNCHANGED <<armed, clock, broken>>

(* Activity on a connection moves its deadline, armed or not. *)
Touch(n) ==
    /\ fate[n] = "live"
    /\ deadline' = [deadline EXCEPT ![n] = clock + Interval]
    /\ UNCHANGED <<armed, fate, clock, broken>>

(* The timer of a live connection is inserted, or taken out to be inserted  *)
(* again: only at its present deadline.                                     *)
Arm(n) ==
    /\ fate[n] = "live" /\ n \notin armed
    /\ armed' = armed \cup {n}
    /\ UNCHANGED <<deadline, fate, clock, broken>>

Disarm(n) ==
    /\ fate[n] = "live" /\ n \in armed
    /\ deadline[n] = clock + Interval
    /\ armed' = armed \ {n}
    /\ UNCHANGED <<deadline, fate, clock, broken>>

(* A connection is closed, and its timer with it. *)
Close(n) ==
    /\ fate[n] = "live"
    /\ fate' = [fate EXCEPT ![n] = "closed"]
    /\ armed' = armed \ {n}
    /\ UNCHANGED <<deadline, clock, broken>>

(* A timer expires: it is due, and no armed timer is earlier. *)
Expire(n) ==
    /\ fate[n] = "live" /\ n \in armed
    /\ deadline[n] <= clock
    /\ \A m \in armed : deadline[n] <= deadline[m]
    /\ fate' = [fate EXCEPT ![n] = "expired"]
    /\ armed' = armed \ {n}
    /\ UNCHANGED <<deadline, clock, broken>>

Havoc == broken' = TRUE

Next ==
    \/ Clock \/ Havoc
    \/ \E n \in Node : \/ Open(n) \/ Touch(n) \/ Arm(n)
                       \/ Disarm(n) \/ Close(n) \/ Expire(n)

Spec == Init /\ [][Next]_vars
=============================================================================
