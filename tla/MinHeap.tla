------------------------------ MODULE MinHeap ------------------------------
(***************************************************************************)
(* The timer heap of one worker: src/src/min_heap.c together with the       *)
(* three places of the reactor that drive it, RegisterTimerOutEvent,        *)
(* UnregisterTimerOutEvent and ReactorProcessTimeoutEvent.                  *)
(*                                                                          *)
(* heap is the pointer array ppstTimeoutEventHeader; a node is the          *)
(* TimeoutEvent of one connection.  Slots past iNodeUsed keep the stale     *)
(* pointers the code leaves there.  One iteration of the loops of           *)
(* __MinheapShiftUp and __MinheapShiftDown is one step, so the loop         *)
(* invariants are invariants of the specification; pc tells which loop is   *)
(* running, and everything between two loops is one step.                   *)
(*                                                                          *)
(* Times are the instants of pstTimeCache, in microseconds; the interval of *)
(* every timer is the same constant (MAX_CONN_TIMEOUT).  gettimeofday is a  *)
(* wall clock: it may be set back when StepBack holds.                      *)
(***************************************************************************)
EXTENDS Integers, FiniteSets

CONSTANTS Node,         \* timer nodes malloc can hand out
          NULL,         \* an array slot that was never written
          Interval,     \* MAX_CONN_TIMEOUT
          MaxClock,     \* bound: last instant the model's clock shows
          UsecPerMs,    \* 1000: epoll_wait counts milliseconds
          IntHalf,      \* 2^31: an int is in -IntHalf .. IntHalf - 1
          InitSize,     \* MINHEAP_INIT_SIZE
          MaxUsed,      \* bound: number of array slots the model keeps
          StepBack,     \* the wall clock may be set back
          ReallocFails  \* realloc may return NULL

ASSUME HeapAssumption ==
    /\ NULL \notin Node
    /\ Interval \in Nat /\ MaxClock \in Nat
    /\ InitSize \in Nat \ {0} /\ MaxUsed \in Nat \ {0}
    /\ StepBack \in BOOLEAN /\ ReallocFails \in BOOLEAN

(* The interval of a timer, in milliseconds, fits an int. *)
ASSUME WaitAssumption ==
    /\ UsecPerMs \in Nat \ {0} /\ IntHalf \in Nat \ {0}
    /\ Interval <= (IntHalf - 1) * UsecPerMs

Slot == 0 .. MaxUsed - 1
Time == 0 .. MaxClock + Interval

VARIABLES heap,           \* ppstTimeoutEventHeader
          iNodeUsed,
          iNodeCapacity,
          iHeapIndex,     \* per node
          stTimeout,      \* per node
          fate,           \* per node: "free", "live", "closed", "expired"
          clock,          \* pstTimeCache
          pc,             \* "idle", "up" (ShiftUp loop), "down" (ShiftDown loop)
          uHoleIndex,     \* t_uHoleIndex of the running loop
          item,           \* t_pstTimeoutEvent of the running loop
          target,         \* the node being removed
          oper,           \* "none", "push", "erase", "pop"
          after,          \* what follows a removal: "none", "push", "free"
          history         \* "clean", or "upErase" once an erase took its ShiftUp branch

heapVars == <<heap, iNodeUsed, iNodeCapacity, iHeapIndex>>
loopVars == <<pc, uHoleIndex, item, target, oper, after>>
vars == <<heapVars, stTimeout, fate, clock, loopVars, history>>

Live == {n \in Node : fate[n] = "live"}

(* MinheapCreate: no array, no node. *)
Init ==
    /\ heap = [i \in Slot |-> NULL]
    /\ iNodeUsed = 0 /\ iNodeCapacity = 0
    /\ iHeapIndex = [n \in Node |-> -1]
    /\ stTimeout = [n \in Node |-> 0]
    /\ fate = [n \in Node |-> "free"]
    /\ clock = 0
    /\ pc = "idle" /\ uHoleIndex = 0
    /\ item = NULL /\ target = NULL
    /\ oper = "none" /\ after = "none"
    /\ history = "clean"

(***************************************************************************)
(* Helpers.                                                                *)
(***************************************************************************)

(* __MinheapNodeCmpGreater, on the timeouts key. *)
Greater(key, a, b) == key[a] > key[b]

Parent(i) == (i - 1) \div 2

(* The array never holds a freed node.  Once it does, every later heap      *)
(* operation reads freed memory, and the model stops.                       *)
Defined == \A i \in 0 .. iNodeUsed - 1 : heap[i] \in Live

Idle == pc = "idle" /\ Defined

(* MinheapReserveSize's new capacity for need nodes. *)
GrownCapacity(need) ==
    LET doubled == IF iNodeCapacity = 0 THEN InitSize ELSE 2 * iNodeCapacity
    IN  IF doubled < need THEN need ELSE doubled

(* The loop variables once no loop runs. *)
StopLoop ==
    /\ pc' = "idle" /\ uHoleIndex' = 0
    /\ item' = NULL /\ target' = NULL
    /\ oper' = "none" /\ after' = "none"

(* Mutant: the array is grown one node too late. *)
StartPush_GrowsLate(n, used) ==
    /\ used < MaxUsed
    /\ iNodeCapacity' = IF used <= iNodeCapacity
                        THEN iNodeCapacity ELSE GrownCapacity(used)
    /\ pc' = "up" /\ uHoleIndex' = used /\ item' = n
    /\ target' = NULL /\ oper' = "push" /\ after' = "none"

(* MinHeapPush of n into a heap of used nodes, up to the ShiftUp loop;      *)
(* RegisterTimerOutEvent ignores its result.  An array that must grow and   *)
(* cannot leaves the heap as it was.                                        *)
StartPush(n, used) ==
    /\ used < MaxUsed
    /\ \/ /\ iNodeCapacity' = IF used + 1 <= iNodeCapacity
                              THEN iNodeCapacity ELSE GrownCapacity(used + 1)
          /\ pc' = "up" /\ uHoleIndex' = used /\ item' = n
          /\ target' = NULL /\ oper' = "push" /\ after' = "none"
       \/ /\ ReallocFails /\ used + 1 > iNodeCapacity
          /\ StopLoop
          /\ UNCHANGED iNodeCapacity

(* MinheapErase of a node n that is in the heap, up to the loop it enters;  *)
(* key are the timeouts it compares.  A node with an index is in the heap,  *)
(* which is then not empty; the guard says so to keep slot -1 from being    *)
(* read, MinheapErase has no such test.                                     *)
StartErase(n, key, next) ==
    LET last == heap[iNodeUsed - 1]
        up   == /\ iHeapIndex[n] > 0
                /\ Greater(key, heap[Parent(iHeapIndex[n])], last)
    IN  /\ iNodeUsed > 0
        /\ pc' = IF up THEN "up" ELSE "down"
        /\ history' = IF up THEN "upErase" ELSE history
        /\ uHoleIndex' = iHeapIndex[n] /\ item' = last /\ target' = n
        /\ oper' = "erase" /\ after' = next

(***************************************************************************)
(* The operations of the reactor on the heap.                              *)
(***************************************************************************)

(* gettimeofday refreshes pstTimeCache. *)
RefreshClock ==
    /\ Idle
    /\ clock' \in 0 .. MaxClock
    /\ StepBack \/ clock' > clock
    /\ clock' # clock
    /\ UNCHANGED <<heapVars, stTimeout, fate, loopVars, history>>

(* Mutant: the interval is added twice. *)
RegisterNew_Twice(n) ==
    /\ Idle /\ fate[n] # "live"
    /\ fate' = [fate EXCEPT ![n] = "live"]
    /\ stTimeout' = [stTimeout EXCEPT ![n] = clock + 2 * Interval]
    /\ iHeapIndex' = [iHeapIndex EXCEPT ![n] = -1]
    /\ StartPush(n, iNodeUsed)
    /\ UNCHANGED <<heap, iNodeUsed, clock, history>>

(* A new connection: MinheapTimeoutEventInit, then RegisterTimerOutEvent,   *)
(* whose MinheapErase returns at once for index -1.                         *)
RegisterNew(n) ==
    /\ Idle /\ fate[n] # "live"
    /\ fate' = [fate EXCEPT ![n] = "live"]
    /\ stTimeout' = [stTimeout EXCEPT ![n] = clock + Interval]
    /\ iHeapIndex' = [iHeapIndex EXCEPT ![n] = -1]
    /\ StartPush(n, iNodeUsed)
    /\ UNCHANGED <<heap, iNodeUsed, clock, history>>

(* RegisterTimerOutEvent for a connection that has one: the timeout is      *)
(* overwritten while the node is still in the heap, then the node is        *)
(* erased and pushed.                                                       *)
Reregister(n) ==
    /\ Idle /\ fate[n] = "live"
    /\ stTimeout' = [stTimeout EXCEPT ![n] = clock + Interval]
    /\ \/ /\ iHeapIndex[n] = -1
          /\ StartPush(n, iNodeUsed)
          /\ UNCHANGED history
       \/ /\ iHeapIndex[n] # -1
          /\ StartErase(n, stTimeout', "push")
          /\ UNCHANGED iNodeCapacity
    /\ UNCHANGED <<heap, iNodeUsed, iHeapIndex, fate, clock>>

(* Mutant: the connection is freed and its timer left in the heap. *)
Unregister_KeepsTimer(n) ==
    /\ Idle /\ fate[n] = "live"
    /\ fate' = [fate EXCEPT ![n] = "closed"]
    /\ UNCHANGED <<heapVars, stTimeout, clock, loopVars, history>>

(* UnregisterTimerOutEvent and free, for a connection being closed. *)
Unregister(n) ==
    /\ Idle /\ fate[n] = "live"
    /\ \/ /\ iHeapIndex[n] = -1
          /\ fate' = [fate EXCEPT ![n] = "closed"]
          /\ UNCHANGED <<loopVars, history>>
       \/ /\ iHeapIndex[n] # -1
          /\ StartErase(n, stTimeout, "free")
          /\ UNCHANGED fate
    /\ UNCHANGED <<heapVars, stTimeout, clock>>

(* Mutant: the top node is popped whether it is due or not. *)
PopExpired_NotDue ==
    /\ Idle /\ iNodeUsed # 0
    /\ pc' = "down" /\ uHoleIndex' = 0
    /\ item' = heap[iNodeUsed - 1] /\ target' = heap[0]
    /\ oper' = "pop" /\ after' = "free"
    /\ UNCHANGED <<heapVars, stTimeout, fate, clock, history>>

(* One round of ReactorProcessTimeoutEvent whose top node is due:           *)
(* MinheapPop up to its ShiftDown loop.  The callback that follows destroys *)
(* the connection; its own MinheapErase finds index -1.                     *)
PopExpired ==
    /\ Idle /\ iNodeUsed # 0
    /\ stTimeout[heap[0]] <= clock
    /\ pc' = "down" /\ uHoleIndex' = 0
    /\ item' = heap[iNodeUsed - 1] /\ target' = heap[0]
    /\ oper' = "pop" /\ after' = "free"
    /\ UNCHANGED <<heapVars, stTimeout, fate, clock, history>>

(***************************************************************************)
(* The loops.                                                              *)
(***************************************************************************)

(* __MinheapShiftUp's loop condition. *)
MustRise ==
    /\ uHoleIndex # 0
    /\ Greater(stTimeout, heap[Parent(uHoleIndex)], item)

(* One iteration: the parent moves into the hole. *)
ShiftUpStep ==
    LET par == Parent(uHoleIndex)
    IN  /\ pc = "up" /\ MustRise
        /\ heap' = [heap EXCEPT ![uHoleIndex] = heap[par]]
        /\ iHeapIndex' = [iHeapIndex EXCEPT ![heap[par]] = uHoleIndex]
        /\ uHoleIndex' = par
        /\ UNCHANGED <<iNodeUsed, iNodeCapacity, stTimeout, fate, clock,
                       pc, item, target, oper, after, history>>

(* Mutant: the left child, whichever is smaller. *)
MinChild_Left == 2 * uHoleIndex + 1

(* uMinChildIndex: the smaller child of the hole, the right one on a tie;   *)
(* iNodeUsed still counts the node that is being removed.                   *)
MinChild ==
    LET right == 2 * (uHoleIndex + 1)
    IN  IF right = iNodeUsed \/ Greater(stTimeout, heap[right], heap[right - 1])
        THEN right - 1 ELSE right

(* __MinheapShiftDown's loop condition and its break. *)
MustSink ==
    /\ 2 * (uHoleIndex + 1) <= iNodeUsed
    /\ Greater(stTimeout, item, heap[MinChild])

(* Mutant: the node that moves up keeps its old index. *)
ShiftDownStep_OldIndex ==
    /\ pc = "down" /\ MustSink
    /\ heap' = [heap EXCEPT ![uHoleIndex] = heap[MinChild]]
    /\ uHoleIndex' = MinChild
    /\ UNCHANGED <<iNodeUsed, iNodeCapacity, iHeapIndex, stTimeout, fate, clock,
                   pc, item, target, oper, after, history>>

(* One iteration: the smaller child moves into the hole. *)
ShiftDownStep ==
    /\ pc = "down" /\ MustSink
    /\ heap' = [heap EXCEPT ![uHoleIndex] = heap[MinChild]]
    /\ iHeapIndex' = [iHeapIndex EXCEPT ![heap[MinChild]] = uHoleIndex]
    /\ uHoleIndex' = MinChild
    /\ UNCHANGED <<iNodeUsed, iNodeCapacity, stTimeout, fate, clock,
                   pc, item, target, oper, after, history>>

(* The end of MinHeapPush: the new node goes into the hole. *)
FinishPush ==
    /\ pc = "up" /\ oper = "push" /\ ~MustRise
    /\ heap' = [heap EXCEPT ![uHoleIndex] = item]
    /\ iHeapIndex' = [iHeapIndex EXCEPT ![item] = uHoleIndex]
    /\ iNodeUsed' = iNodeUsed + 1
    /\ StopLoop
    /\ UNCHANGED <<iNodeCapacity, stTimeout, fate, clock, history>>

(* What the caller of MinheapErase or MinheapPop does with the removed      *)
(* node, in a heap that now has used nodes.                                 *)
Continue(used) ==
    \/ /\ after = "push"
       /\ StartPush(target, used)
       /\ UNCHANGED fate
    \/ /\ after = "free"
       /\ fate' = [fate EXCEPT ![target] =
                       IF oper = "pop" THEN "expired" ELSE "closed"]
       /\ StopLoop
       /\ UNCHANGED iNodeCapacity

(* The end of MinheapErase on its ShiftUp branch: the last node goes into   *)
(* the hole, and it is the last node's index, not the erased one's, that is *)
(* set to -1.                                                               *)
FinishEraseUp ==
    /\ pc = "up" /\ oper = "erase" /\ ~MustRise
    /\ heap' = [heap EXCEPT ![uHoleIndex] = item]
    /\ iHeapIndex' = [iHeapIndex EXCEPT ![item] = -1]
    /\ iNodeUsed' = iNodeUsed - 1
    /\ Continue(iNodeUsed - 1)
    /\ UNCHANGED <<stTimeout, clock, history>>

(* The end of MinheapPop, and of MinheapErase on its ShiftDown branch. *)
FinishDown ==
    /\ pc = "down" /\ ~MustSink
    /\ heap' = [heap EXCEPT ![uHoleIndex] = item]
    /\ iHeapIndex' = [iHeapIndex EXCEPT ![item] = uHoleIndex, ![target] = -1]
    /\ iNodeUsed' = iNodeUsed - 1
    /\ Continue(iNodeUsed - 1)
    /\ UNCHANGED <<stTimeout, clock, history>>

Next ==
    \/ RefreshClock
    \/ \E n \in Node : RegisterNew(n) \/ Reregister(n) \/ Unregister(n)
    \/ PopExpired
    \/ ShiftUpStep \/ FinishPush \/ FinishEraseUp
    \/ ShiftDownStep \/ FinishDown

Spec == Init /\ [][Next]_vars

(***************************************************************************)
(* What the reactor reads from the heap.                                   *)
(***************************************************************************)

(* A long given to a parameter of type int. *)
ToInt(n) == ((n + IntHalf) % (2 * IntHalf)) - IntHalf

(* Mutant: the microseconds past the last whole millisecond are dropped. *)
EpollTimeout_RoundsDown ==
    IF iNodeUsed = 0 THEN -1
    ELSE IF clock > stTimeout[heap[0]] THEN 0
    ELSE ToInt((stTimeout[heap[0]] - clock) \div UsecPerMs)

(* What the loop passes to epoll_wait: GetEPollwaitTimeoutValue, then the   *)
(* milliseconds, rounded up, in an int.  A negative value blocks for ever.  *)
EpollTimeout ==
    IF iNodeUsed = 0 THEN -1
    ELSE IF clock > stTimeout[heap[0]] THEN 0
    ELSE ToInt((stTimeout[heap[0]] - clock + UsecPerMs - 1) \div UsecPerMs)

(***************************************************************************)
(* Properties.                                                             *)
(***************************************************************************)

(* The types of the state. *)
TypeOK ==
    /\ heap \in [Slot -> Node \cup {NULL}]
    /\ iNodeUsed \in 0 .. MaxUsed /\ iNodeCapacity \in Nat
    /\ iHeapIndex \in [Node -> -1 .. MaxUsed - 1]
    /\ stTimeout \in [Node -> Time]
    /\ fate \in [Node -> {"free", "live", "closed", "expired"}]
    /\ clock \in 0 .. MaxClock
    /\ pc \in {"idle", "up", "down"}
    /\ uHoleIndex \in Slot
    /\ item \in Node \cup {NULL} /\ target \in Node \cup {NULL}
    /\ oper \in {"none", "push", "erase", "pop"}
    /\ after \in {"none", "push", "free"}
    /\ history \in {"clean", "upErase"}

(* No erase so far took the ShiftUp branch of MinheapErase. *)
Clean == history = "clean"

Settled == Clean /\ pc = "idle"

(* Every access of the loops stays inside the allocated array, whatever     *)
(* realloc did.                                                             *)
ArrayInBounds ==
    /\ iNodeUsed <= iNodeCapacity
    /\ pc # "idle" => uHoleIndex < iNodeCapacity

(* Between operations the array is a binary min-heap on stTimeout. *)
HeapOrder ==
    Settled => \A p, c \in 0 .. iNodeUsed - 1 :
                   c \in {2 * p + 1, 2 * p + 2} =>
                       ~Greater(stTimeout, heap[p], heap[c])

(* iHeapIndex is a node's place in the array: what MinheapErase, called by  *)
(* index, relies on. *)
IndexExact ==
    Settled =>
        /\ \A i \in 0 .. iNodeUsed - 1 : iHeapIndex[heap[i]] = i
        /\ \A n \in Node : iHeapIndex[n] # -1 =>
               iHeapIndex[n] < iNodeUsed /\ heap[iHeapIndex[n]] = n

(* Exactly the live connections have a timer, unless realloc failed: no     *)
(* re-registration or removal of one node loses another one's, and none     *)
(* outlives its connection.                                                 *)
TimersExact ==
    Settled =>
        /\ \A i \in 0 .. iNodeUsed - 1 : heap[i] \in Live
        /\ ~ReallocFails => \A n \in Live : \E i \in 0 .. iNodeUsed - 1 :
                                               heap[i] = n

(* Some timer in the heap is near enough for its distance in milliseconds   *)
(* to fit an int: always, unless the clock was set back by 24.8 days.       *)
Near == \E i \in 0 .. iNodeUsed - 1 :
            stTimeout[heap[i]] - clock <= (IntHalf - 1) * UsecPerMs

(* The timeout of epoll_wait, taken from the root alone and counted from    *)
(* the cached time: when the sleep ends some timer is due, so the loop does *)
(* not wake in vain, and no timer of the heap is overdue by a millisecond.  *)
(* Once the clock was set back this needs a timer that is Near.             *)
WaitIsExact ==
    LET wake == clock + EpollTimeout * UsecPerMs
    IN  Settled /\ iNodeUsed # 0 /\ (StepBack => Near) =>
            /\ EpollTimeout >= 0
            /\ \E i \in 0 .. iNodeUsed - 1 : stTimeout[heap[i]] <= wake
            /\ EpollTimeout > 0 => \A i \in 0 .. iNodeUsed - 1 :
                                      wake < stTimeout[heap[i]] + UsecPerMs

(* The heap is a set of timers: what is armed is what has an index, and a   *)
(* connection is expired by its timer only when it is due and no armed      *)
(* timer is earlier.  Abs!Spec is the contract the reactor relies on.       *)
Abs == INSTANCE TimerSet WITH
           armed <- {n \in Node : iHeapIndex[n] # -1},
           deadline <- stTimeout,
           broken <- ~Clean

ImplementsTimerSet == Abs!Spec

(* The comment of __DestroyConn: destroying a connection deletes its node   *)
(* from the heap.                                                           *)
DestroyRemovesTimer ==
    pc = "idle" => \A i \in 0 .. iNodeUsed - 1 : heap[i] \in Live
=============================================================================
