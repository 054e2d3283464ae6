--------------------------- MODULE MinHeapProofs ---------------------------
(***************************************************************************)
(* Proofs about MinHeap, for any number of nodes, any interval and any      *)
(* capacity, with or without clock steps and realloc failures.             *)
(***************************************************************************)
EXTENDS MinHeap, TLAPS

(***************************************************************************)
(* Two facts about updating a function at an argument that may lie outside  *)
(* its domain (a NULL pointer has no index).                                *)
(***************************************************************************)
LEMMA UpdateType ==
  ASSUME NEW S, NEW T, NEW f \in [S -> T], NEW x, NEW v \in T
  PROVE  [f EXCEPT ![x] = v] \in [S -> T]
  OBVIOUS

(* The value of a function updated at one point.                            *)
LEMMA UpdateValue ==
  ASSUME NEW S, NEW T, NEW f \in [S -> T], NEW x, NEW v, NEW y \in S
  PROVE  [f EXCEPT ![x] = v][y] = IF y = x THEN v ELSE f[y]
  OBVIOUS

(***************************************************************************)
(* Types and array bounds.  They hold in every behaviour, also after an     *)
(* erase has taken its ShiftUp branch.                                      *)
(***************************************************************************)

(* A running push has room for the node it adds, a running removal has a    *)
(* node to remove, and every index the code may use as a hole is allocated. *)
BoundsInv ==
    /\ ArrayInBounds
    /\ \A n \in Node : iHeapIndex[n] < iNodeCapacity
    /\ pc = "idle" <=> oper = "none"
    /\ oper = "push" => /\ pc = "up"
                        /\ iNodeUsed < iNodeCapacity /\ iNodeUsed < MaxUsed
    /\ oper \in {"erase", "pop"} => iNodeUsed > 0

(* The types and the bounds are inductive together. *)
SafeInv == TypeOK /\ BoundsInv

USE HeapAssumption DEF HeapAssumption, Slot, Time

(* MinheapCreate establishes the types and bounds.                          *)
LEMMA InitSafe == Init => SafeInv
  BY DEF Init, SafeInv, TypeOK, BoundsInv, ArrayInBounds

(* Starting a push keeps the bounds: either the array has room, or it grows *)
(* to at least the size needed, or nothing starts. *)
LEMMA StartPushSafe ==
  ASSUME SafeInv, NEW n \in Node, NEW used \in 0 .. iNodeUsed,
         StartPush(n, used)
  PROVE  /\ iNodeCapacity' \in Nat /\ iNodeCapacity' >= iNodeCapacity
         /\ pc' \in {"idle", "up"} /\ uHoleIndex' \in Slot
         /\ item' \in Node \cup {NULL} /\ target' = NULL
         /\ oper' \in {"none", "push"} /\ after' = "none"
         /\ pc' = "idle" <=> oper' = "none"
         /\ pc' # "idle" => /\ uHoleIndex' = used /\ item' = n
                            /\ used < iNodeCapacity' /\ used < MaxUsed
  BY DEF SafeInv, TypeOK, BoundsInv, ArrayInBounds, StartPush, GrownCapacity, StopLoop

(* Starting an erase keeps the bounds: the hole is the erased node's index. *)
LEMMA StartEraseSafe ==
  ASSUME SafeInv, NEW n \in Node, NEW key, NEW next \in {"push", "free"},
         iHeapIndex[n] # -1, StartErase(n, key, next)
  PROVE  /\ pc' \in {"up", "down"} /\ uHoleIndex' = iHeapIndex[n]
         /\ uHoleIndex' \in Slot /\ uHoleIndex' < iNodeCapacity
         /\ item' = heap[iNodeUsed - 1] /\ item' \in Node \cup {NULL}
         /\ target' = n /\ oper' = "erase" /\ after' = next
         /\ iNodeUsed > 0 /\ history' \in {"clean", "upErase"}
  BY DEF SafeInv, TypeOK, BoundsInv, ArrayInBounds, StartErase

(* gettimeofday disturbs no bound.                                          *)
LEMMA RefreshClockSafe == SafeInv /\ RefreshClock => SafeInv'
  BY DEF SafeInv, TypeOK, BoundsInv, ArrayInBounds, RefreshClock,
         heapVars, loopVars

(* The timer of a new connection: MinHeapPush makes room before its loop    *)
(* starts.                                                                  *)
LEMMA RegisterNewSafe ==
  ASSUME SafeInv, NEW n \in Node, RegisterNew(n)
  PROVE  SafeInv'
<1>1. iNodeUsed \in 0 .. iNodeUsed
  BY DEF SafeInv, TypeOK
<1>2. StartPush(n, iNodeUsed)
  BY DEF RegisterNew
<1>3. TypeOK'
  BY <1>1, <1>2, StartPushSafe DEF SafeInv, TypeOK, RegisterNew
<1>4. BoundsInv'
  BY <1>1, <1>2, StartPushSafe
     DEF SafeInv, TypeOK, BoundsInv, ArrayInBounds, RegisterNew
<1> QED BY <1>3, <1>4 DEF SafeInv

(* Renewal starts an erase or a push, both inside the array.                *)
LEMMA ReregisterSafe ==
  ASSUME SafeInv, NEW n \in Node, Reregister(n)
  PROVE  SafeInv'
<1>1. iNodeUsed \in 0 .. iNodeUsed
  BY DEF SafeInv, TypeOK
<1>2. CASE iHeapIndex[n] = -1
  <2>1. StartPush(n, iNodeUsed) /\ UNCHANGED history
    BY <1>2 DEF Reregister
  <2>2. TypeOK'
    BY <1>1, <2>1, StartPushSafe DEF SafeInv, TypeOK, Reregister
  <2>3. BoundsInv'
    BY <1>1, <2>1, StartPushSafe
       DEF SafeInv, TypeOK, BoundsInv, ArrayInBounds, Reregister
  <2> QED BY <2>2, <2>3 DEF SafeInv
<1>3. CASE iHeapIndex[n] # -1
  <2>1. StartErase(n, stTimeout', "push") /\ UNCHANGED iNodeCapacity
    BY <1>3 DEF Reregister
  <2>2. TypeOK'
    BY <1>3, <2>1, StartEraseSafe DEF SafeInv, TypeOK, Reregister
  <2>3. BoundsInv'
    BY <1>3, <2>1, StartEraseSafe
       DEF SafeInv, TypeOK, BoundsInv, ArrayInBounds, Reregister
  <2> QED BY <2>2, <2>3 DEF SafeInv
<1> QED BY <1>2, <1>3

(* Closing a connection starts an erase at a position below iNodeUsed.      *)
LEMMA UnregisterSafe ==
  ASSUME SafeInv, NEW n \in Node, Unregister(n)
  PROVE  SafeInv'
<1>1. CASE iHeapIndex[n] = -1
  BY <1>1 DEF SafeInv, TypeOK, BoundsInv, ArrayInBounds, Unregister,
              heapVars, loopVars
<1>2. CASE iHeapIndex[n] # -1
  <2>1. StartErase(n, stTimeout, "free") /\ UNCHANGED fate
    BY <1>2 DEF Unregister
  <2>2. TypeOK'
    BY <1>2, <2>1, StartEraseSafe DEF SafeInv, TypeOK, Unregister, heapVars
  <2>3. BoundsInv'
    BY <1>2, <2>1, StartEraseSafe
       DEF SafeInv, TypeOK, BoundsInv, ArrayInBounds, Unregister, heapVars
  <2> QED BY <2>2, <2>3 DEF SafeInv
<1> QED BY <1>1, <1>2

(* MinheapPop starts its loop at the root of a heap that is not empty.      *)
LEMMA PopExpiredSafe == SafeInv /\ PopExpired => SafeInv'
  BY DEF SafeInv, TypeOK, BoundsInv, ArrayInBounds, PopExpired, heapVars

(* __MinheapShiftUp: the parent of a hole in the array is in the array.     *)
LEMMA ShiftUpStepSafe == SafeInv /\ ShiftUpStep => SafeInv'
<1> SUFFICES ASSUME SafeInv, ShiftUpStep PROVE SafeInv'
  OBVIOUS
<1>1. uHoleIndex \in Slot /\ uHoleIndex # 0
  BY DEF SafeInv, TypeOK, ShiftUpStep, MustRise
<1>2. Parent(uHoleIndex) \in 0 .. uHoleIndex - 1
  BY <1>1 DEF Parent
<1>a. /\ heap' \in [Slot -> Node \cup {NULL}]
      /\ iHeapIndex' \in [Node -> -1 .. MaxUsed - 1]
  BY <1>1, <1>2, UpdateType DEF SafeInv, TypeOK, ShiftUpStep
<1>3. TypeOK'
  BY <1>1, <1>2, <1>a DEF SafeInv, TypeOK, ShiftUpStep
<1>4. BoundsInv'
  BY <1>1, <1>2 DEF SafeInv, TypeOK, BoundsInv, ArrayInBounds, ShiftUpStep
<1> QED BY <1>3, <1>4 DEF SafeInv

(* __MinheapShiftDown: the child the hole moves to lies below iNodeUsed.    *)
LEMMA ShiftDownStepSafe == SafeInv /\ ShiftDownStep => SafeInv'
<1> SUFFICES ASSUME SafeInv, ShiftDownStep PROVE SafeInv'
  OBVIOUS
<1>1. MinChild \in 0 .. iNodeUsed - 1 /\ MinChild \in Slot
  BY DEF SafeInv, TypeOK, BoundsInv, ShiftDownStep, MustSink, MinChild
<1>a. /\ heap' \in [Slot -> Node \cup {NULL}]
      /\ iHeapIndex' \in [Node -> -1 .. MaxUsed - 1]
  BY <1>1, UpdateType DEF SafeInv, TypeOK, ShiftDownStep
<1>2. TypeOK'
  BY <1>1, <1>a DEF SafeInv, TypeOK, ShiftDownStep
<1>3. BoundsInv'
  BY <1>1 DEF SafeInv, TypeOK, BoundsInv, ArrayInBounds, ShiftDownStep
<1> QED BY <1>2, <1>3 DEF SafeInv

(* The end of MinHeapPush: the counted slot was reserved before.            *)
LEMMA FinishPushSafe == SafeInv /\ FinishPush => SafeInv'
<1> SUFFICES ASSUME SafeInv, FinishPush PROVE SafeInv'
  OBVIOUS
<1>1. /\ heap' \in [Slot -> Node \cup {NULL}]
      /\ iHeapIndex' \in [Node -> -1 .. MaxUsed - 1]
  BY UpdateType DEF SafeInv, TypeOK, FinishPush
<1>2. \A n \in Node : iHeapIndex'[n] < iNodeCapacity
  BY UpdateValue DEF SafeInv, TypeOK, BoundsInv, ArrayInBounds, FinishPush
<1>3. TypeOK'
  BY <1>1 DEF SafeInv, TypeOK, BoundsInv, FinishPush, StopLoop
<1>4. BoundsInv'
  BY <1>2 DEF SafeInv, TypeOK, BoundsInv, ArrayInBounds, FinishPush, StopLoop
<1> QED BY <1>3, <1>4 DEF SafeInv

(* What follows a removal keeps the types and the bounds. *)
LEMMA ContinueSafe ==
  ASSUME SafeInv, oper \in {"erase", "pop"}, Continue(iNodeUsed - 1),
         iNodeUsed' = iNodeUsed - 1, UNCHANGED <<stTimeout, clock, history>>,
         heap' = [heap EXCEPT ![uHoleIndex] = item],
         iHeapIndex' \in [Node -> -1 .. MaxUsed - 1],
         \A n \in Node : iHeapIndex'[n] < iNodeCapacity
  PROVE  SafeInv'
<1>1. iNodeUsed - 1 \in 0 .. iNodeUsed /\ iNodeUsed > 0
  BY DEF SafeInv, TypeOK, BoundsInv
<1>2. CASE after = "push"
  <2>1. StartPush(target, iNodeUsed - 1) /\ UNCHANGED fate
    BY <1>2 DEF Continue
  <2>2. pc' = "idle" \/ target \in Node \cup {NULL}
    BY DEF SafeInv, TypeOK
  <2>3. /\ iNodeCapacity' \in Nat /\ iNodeCapacity' >= iNodeCapacity
        /\ pc' \in {"idle", "up"} /\ uHoleIndex' \in Slot
        /\ item' \in Node \cup {NULL} /\ target' = NULL
        /\ oper' \in {"none", "push"} /\ after' = "none"
        /\ pc' = "idle" <=> oper' = "none"
        /\ pc' # "idle" => /\ uHoleIndex' = iNodeUsed - 1
                           /\ iNodeUsed - 1 < iNodeCapacity'
                           /\ iNodeUsed - 1 < MaxUsed
    BY <1>1, <2>1 DEF SafeInv, TypeOK, BoundsInv, ArrayInBounds, StartPush,
                      GrownCapacity, StopLoop
  <2>4. TypeOK'
    <3>1. heap' \in [Slot -> Node \cup {NULL}] /\ iNodeUsed' \in 0 .. MaxUsed
      BY <1>1 DEF SafeInv, TypeOK
    <3>2. /\ stTimeout' \in [Node -> Time] /\ clock' \in 0 .. MaxClock
          /\ fate' \in [Node -> {"free", "live", "closed", "expired"}]
          /\ history' \in {"clean", "upErase"}
      BY <2>1, Zenon DEF SafeInv, TypeOK
    <3>3. /\ pc' \in {"idle", "up", "down"} /\ target' \in Node \cup {NULL}
          /\ oper' \in {"none", "push", "erase", "pop"} /\ after' \in {"none", "push", "free"}
      BY <2>3, Zenon
    <3> QED
      BY <2>3, <3>1, <3>2, <3>3, Zenon DEF TypeOK
  <2>5. BoundsInv'
    BY <1>1, <2>1, <2>3 DEF SafeInv, TypeOK, BoundsInv, ArrayInBounds
  <2> QED BY <2>4, <2>5 DEF SafeInv
<1>3. CASE after = "free"
  <2>a. /\ heap' \in [Slot -> Node \cup {NULL}]
        /\ fate' \in [Node -> {"free", "live", "closed", "expired"}]
    BY <1>3, UpdateType DEF SafeInv, TypeOK, Continue
  <2>1. TypeOK'
    BY <1>1, <1>3, <2>a DEF SafeInv, TypeOK, Continue, StopLoop
  <2>2. BoundsInv'
    BY <1>1, <1>3 DEF SafeInv, TypeOK, BoundsInv, ArrayInBounds, Continue, StopLoop
  <2> QED BY <2>1, <2>2 DEF SafeInv
<1> QED BY <1>2, <1>3 DEF Continue

(* The end of MinheapErase after its ShiftUp branch keeps types and bounds. *)
LEMMA FinishEraseUpSafe == SafeInv /\ FinishEraseUp => SafeInv'
<1> SUFFICES ASSUME SafeInv, FinishEraseUp PROVE SafeInv'
  OBVIOUS
<1>1. -1 \in -1 .. MaxUsed - 1 /\ -1 < iNodeCapacity
  BY DEF SafeInv, TypeOK
<1>2. iHeapIndex' \in [Node -> -1 .. MaxUsed - 1]
  BY <1>1, UpdateType DEF SafeInv, TypeOK, FinishEraseUp
<1>3. \A n \in Node : iHeapIndex'[n] < iNodeCapacity
  BY <1>1, UpdateValue DEF SafeInv, TypeOK, BoundsInv, FinishEraseUp
<1> QED BY <1>2, <1>3, ContinueSafe DEF FinishEraseUp

(* The end of MinheapPop, or of MinheapErase after its ShiftDown branch.    *)
LEMMA FinishDownSafe == SafeInv /\ FinishDown => SafeInv'
<1> SUFFICES ASSUME SafeInv, FinishDown PROVE SafeInv'
  OBVIOUS
<1>1. oper \in {"erase", "pop"}
  BY DEF SafeInv, TypeOK, BoundsInv, FinishDown
<1> DEFINE placed == [iHeapIndex EXCEPT ![item] = uHoleIndex]
<1>2. /\ -1 \in -1 .. MaxUsed - 1 /\ -1 < iNodeCapacity
      /\ uHoleIndex \in -1 .. MaxUsed - 1 /\ uHoleIndex < iNodeCapacity
  BY DEF SafeInv, TypeOK, BoundsInv, ArrayInBounds, FinishDown
<1>3. placed \in [Node -> -1 .. MaxUsed - 1]
  BY <1>2, UpdateType DEF SafeInv, TypeOK
<1>4. \A n \in Node : placed[n] < iNodeCapacity
  BY <1>2, UpdateValue DEF SafeInv, TypeOK, BoundsInv
<1>5. iHeapIndex' = [placed EXCEPT ![target] = -1]
  BY DEF FinishDown
<1>6. iHeapIndex' \in [Node -> -1 .. MaxUsed - 1]
  BY <1>2, <1>3, <1>5, UpdateType
<1>7. \A n \in Node : iHeapIndex'[n] < iNodeCapacity
  BY <1>2, <1>3, <1>4, <1>5, UpdateValue
<1> QED BY <1>1, <1>6, <1>7, ContinueSafe DEF FinishDown

(* Every step keeps types and bounds.                                       *)
LEMMA NextSafe == SafeInv /\ [Next]_vars => SafeInv'
<1>1. SafeInv /\ UNCHANGED vars => SafeInv'
  BY DEF SafeInv, TypeOK, BoundsInv, ArrayInBounds, vars, heapVars, loopVars
<1> QED
  BY <1>1, RefreshClockSafe, RegisterNewSafe, ReregisterSafe, UnregisterSafe,
     PopExpiredSafe, ShiftUpStepSafe, FinishPushSafe, FinishEraseUpSafe,
     ShiftDownStepSafe, FinishDownSafe DEF Next

(* Types and bounds are an invariant of the heap, whatever branch an erase  *)
(* took.                                                                    *)
LEMMA SafeInvariant == Spec => []SafeInv
  BY InitSafe, NextSafe, PTL DEF Spec

(* The state is always well typed. *)
THEOREM TypeCorrect == Spec => []TypeOK
  BY SafeInvariant, PTL DEF SafeInv

(* The loops of __MinheapShiftUp and __MinheapShiftDown never leave the     *)
(* allocated array, whatever realloc and the clock did.                     *)
THEOREM ArrayBoundsHold == Spec => []ArrayInBounds
  BY SafeInvariant, PTL DEF SafeInv, BoundsInv

(***************************************************************************)
(* The heap.  While a loop runs, one slot of the array is a hole: a push    *)
(* works on one slot more than iNodeUsed, a removal still counts the node   *)
(* it removes.  All other slots hold their nodes, indexed and ordered, and  *)
(* the order also skips over the hole.                                      *)
(***************************************************************************)
HasChild(p, c) == c = 2 * p + 1 \/ c = 2 * p + 2

(* The slots the operation works on, and those of them that hold a node. *)
Size == IF oper = "push" THEN iNodeUsed + 1 ELSE iNodeUsed

Held(i) == i \in Slot /\ i < Size /\ (pc = "idle" \/ i # uHoleIndex)

(* A slot that holds a node holds it under its index. *)
Placed ==
    \A i \in Slot : Held(i) => /\ heap[i] \in Node /\ heap[i] # target
                               /\ iHeapIndex[heap[i]] = i

(* A node with an index is in its slot, or is the one being removed. *)
Indexed ==
    \A n \in Node : iHeapIndex[n] # -1 =>
        n = target \/ (Held(iHeapIndex[n]) /\ heap[iHeapIndex[n]] = n)

(* No parent is later than its child. *)
Ordered ==
    \A p, c \in Slot : Held(p) /\ Held(c) /\ HasChild(p, c) =>
        stTimeout[heap[p]] <= stTimeout[heap[c]]

(* Nor is the parent of the hole later than a child of the hole. *)
OrderedAcrossHole ==
    pc # "idle" =>
        \A p, c \in Slot : /\ Held(p) /\ HasChild(p, uHoleIndex)
                           /\ Held(c) /\ HasChild(uHoleIndex, c)
                           => stTimeout[heap[p]] <= stTimeout[heap[c]]

(* A rising node is no later than the children of the hole, a sinking one   *)
(* no earlier than its parent.                                              *)
ItemFits ==
    /\ pc = "up" => \A c \in Slot : Held(c) /\ HasChild(uHoleIndex, c) =>
                        stTimeout[item] <= stTimeout[heap[c]]
    /\ pc = "down" => \A p \in Slot : Held(p) /\ HasChild(p, uHoleIndex) =>
                          stTimeout[heap[p]] <= stTimeout[item]

(* The loop variables of a running operation: a push adds a node that has   *)
(* no index; a removal moves the last node into the hole the target left.   *)
Running ==
    /\ pc = "idle" => target = NULL /\ oper = "none"
    /\ pc = "up" => /\ oper = "push" /\ target = NULL
                    /\ item \in Node /\ fate[item] = "live"
                    /\ iHeapIndex[item] = -1
                    /\ uHoleIndex <= iNodeUsed
    /\ pc = "down" => /\ oper \in {"erase", "pop"}
                      /\ after \in {"push", "free"}
                      /\ item \in Node /\ target \in Node
                      /\ iHeapIndex[target] # -1
                      /\ uHoleIndex < iNodeUsed
                      /\ uHoleIndex = iNodeUsed - 1 => item = target
                      /\ uHoleIndex # iNodeUsed - 1 => heap[iNodeUsed - 1] = item

(* Only live connections have a timer, and all of them do unless realloc    *)
(* failed or the push is under way.                                         *)
Owned ==
    /\ \A n \in Node : iHeapIndex[n] # -1 => fate[n] = "live"
    /\ ~ReallocFails => \A n \in Node : fate[n] = "live" =>
                            iHeapIndex[n] # -1 \/ (oper = "push" /\ n = item)

(* What holds until an erase takes the ShiftUp branch of MinheapErase. *)
CleanInv ==
    Clean => /\ Placed /\ Indexed /\ Ordered /\ OrderedAcrossHole
             /\ ItemFits /\ Running /\ Owned

(* The inductive invariant of the heap. *)
HeapInv == SafeInv /\ CleanInv

(* A node other than the root is a child of its parent.                     *)
LEMMA ParentChild ==
  ASSUME NEW h \in Nat, h # 0
  PROVE  /\ Parent(h) \in Nat /\ Parent(h) < h /\ HasChild(Parent(h), h)
         /\ \A p \in Nat : HasChild(p, h) => p = Parent(h)
  BY DEF Parent, HasChild

(* No child comes before its parent in the array.                           *)
LEMMA NoChildBelow ==
  ASSUME NEW h \in Nat, NEW c \in Nat, c < h
  PROVE  ~HasChild(h, c)
  BY DEF HasChild

(* The empty heap satisfies the inductive invariant.                        *)
LEMMA InitHeap == Init => HeapInv
<1> SUFFICES ASSUME Init PROVE HeapInv
  OBVIOUS
<1>1. SafeInv
  BY InitSafe
<1>2. CleanInv
  BY DEF Init, CleanInv, Clean, Placed, Indexed, Ordered, OrderedAcrossHole,
         ItemFits, Running, Owned, Held, Size
<1> QED BY <1>1, <1>2 DEF HeapInv

(* Once a history is not clean it stays so. *)
LEMMA CleanBefore ==
  ASSUME HeapInv, [Next]_vars, Clean'
  PROVE  Clean
  BY DEF Next, vars, heapVars, loopVars, RefreshClock, RegisterNew, Reregister,
         Unregister, StartErase, PopExpired, ShiftUpStep, FinishPush,
         FinishEraseUp, ShiftDownStep, FinishDown, Clean, HeapInv, SafeInv, TypeOK

(* gettimeofday leaves the heap alone.                                      *)
LEMMA RefreshClockHeap ==
  ASSUME HeapInv, Clean, RefreshClock
  PROVE  CleanInv'
  BY DEF HeapInv, CleanInv, Clean, RefreshClock, heapVars, loopVars,
         Placed, Indexed, Ordered, OrderedAcrossHole, ItemFits, Running, Owned,
         Held, Size

(* In a clean heap between operations, a node without an index may be       *)
(* pushed: StartPush leaves a hole behind the last node. *)
LEMMA StartPushHeap ==
  ASSUME SafeInv, NEW n \in Node, NEW used \in Nat, StartPush(n, used),
         used = iNodeUsed',
         heap' \in [Slot -> Node \cup {NULL}],
         iHeapIndex' \in [Node -> -1 .. MaxUsed - 1],
         iHeapIndex'[n] = -1, fate'[n] = "live",
         \A i \in Slot : i < used => heap'[i] \in Node /\ iHeapIndex'[heap'[i]] = i,
         \A m \in Node : iHeapIndex'[m] # -1 =>
             /\ iHeapIndex'[m] < used /\ heap'[iHeapIndex'[m]] = m
             /\ fate'[m] = "live",
         \A p, c \in Slot : p < used /\ c < used /\ HasChild(p, c) =>
             stTimeout'[heap'[p]] <= stTimeout'[heap'[c]],
         ~ReallocFails => \A m \in Node : fate'[m] = "live" =>
                             m = n \/ iHeapIndex'[m] # -1
  PROVE  CleanInv'
<1>1. CASE pc' = "up"
  <2>1. /\ uHoleIndex' = used /\ item' = n /\ target' = NULL /\ oper' = "push"
    BY <1>1 DEF StartPush, StopLoop
  <2>2. \A i \in Slot : Held(i)' <=> i < used
    BY <1>1, <2>1 DEF Held, Size
  <2>3. Placed' /\ Indexed'
    BY <2>1, <2>2 DEF Placed, Indexed, Held
  <2>4. Ordered'
    BY <2>2 DEF Ordered
  <2>5. \A c \in Slot : Held(c)' => ~HasChild(used, c)
    BY <2>2, NoChildBelow
  <2>6. OrderedAcrossHole' /\ ItemFits'
    BY <1>1, <2>1, <2>5 DEF OrderedAcrossHole, ItemFits
  <2>7. Running' /\ Owned'
    BY <1>1, <2>1 DEF Running, Owned
  <2> QED BY <2>3, <2>4, <2>6, <2>7 DEF CleanInv
<1>2. CASE pc' # "up"
  <2>1. /\ pc' = "idle" /\ target' = NULL /\ oper' = "none" /\ ReallocFails
    BY <1>2 DEF StartPush, StopLoop
  <2>2. \A i \in Slot : Held(i)' <=> i < used
    BY <2>1 DEF Held, Size
  <2>3. Placed' /\ Indexed'
    BY <2>1, <2>2 DEF Placed, Indexed, Held
  <2>4. Ordered'
    BY <2>2 DEF Ordered
  <2>5. OrderedAcrossHole' /\ ItemFits' /\ Running' /\ Owned'
    BY <2>1 DEF OrderedAcrossHole, ItemFits, Running, Owned
  <2> QED BY <2>3, <2>4, <2>5 DEF CleanInv
<1> QED BY <1>1, <1>2

(* What the invariant says between operations. *)
LEMMA IdleFacts ==
  ASSUME HeapInv, Clean, pc = "idle"
  PROVE  /\ \A i \in Slot : Held(i) <=> i < iNodeUsed
         /\ \A i \in Slot : i < iNodeUsed =>
                heap[i] \in Node /\ iHeapIndex[heap[i]] = i
         /\ \A m \in Node : iHeapIndex[m] # -1 =>
                /\ iHeapIndex[m] \in Slot /\ iHeapIndex[m] < iNodeUsed
                /\ heap[iHeapIndex[m]] = m /\ fate[m] = "live"
         /\ \A p, c \in Slot : p < iNodeUsed /\ c < iNodeUsed /\ HasChild(p, c) =>
                stTimeout[heap[p]] <= stTimeout[heap[c]]
         /\ ~ReallocFails => \A m \in Node : fate[m] = "live" => iHeapIndex[m] # -1
<1>1. /\ oper = "none" /\ target = NULL
  BY DEF HeapInv, CleanInv, Running
<1>2. \A i \in Slot : Held(i) <=> i < iNodeUsed
  BY <1>1 DEF Held, Size
<1> QED
  BY <1>1, <1>2 DEF HeapInv, CleanInv, Placed, Indexed, Ordered, Owned, Held

(* MinHeapPush of a new timer: the hole starts behind the last node, where  *)
(* it has no children to be compared with.                                  *)
LEMMA RegisterNewHeap ==
  ASSUME HeapInv, Clean, NEW n \in Node, RegisterNew(n)
  PROVE  CleanInv'
<1>1. pc = "idle" /\ fate[n] # "live" /\ UNCHANGED <<heap, iNodeUsed>>
  BY DEF RegisterNew, Idle
<1>2. iHeapIndex[n] = -1 /\ iHeapIndex' = iHeapIndex
  BY <1>1, IdleFacts DEF RegisterNew, HeapInv, SafeInv, TypeOK
<1>3. \A i \in Slot : i < iNodeUsed => heap[i] # n
  BY <1>1, <1>2, IdleFacts
<1>4. /\ fate' = [fate EXCEPT ![n] = "live"]
      /\ stTimeout' = [stTimeout EXCEPT ![n] = clock + Interval]
      /\ StartPush(n, iNodeUsed)
  BY DEF RegisterNew
<1>5. \A p, c \in Slot : p < iNodeUsed /\ c < iNodeUsed /\ HasChild(p, c) =>
          stTimeout'[heap[p]] <= stTimeout'[heap[c]]
  BY <1>1, <1>3, <1>4, IdleFacts DEF HeapInv, SafeInv, TypeOK
<1>6. /\ fate'[n] = "live"
      /\ \A m \in Node : m # n => fate'[m] = fate[m]
  BY <1>4 DEF HeapInv, SafeInv, TypeOK
<1>7. \A m \in Node : iHeapIndex[m] # -1 =>
          /\ iHeapIndex[m] < iNodeUsed /\ heap[iHeapIndex[m]] = m
          /\ fate'[m] = "live"
  BY <1>1, <1>2, <1>6, IdleFacts
<1>8. ~ReallocFails => \A m \in Node : fate'[m] = "live" =>
                          m = n \/ iHeapIndex[m] # -1
  BY <1>1, <1>6, IdleFacts
<1>9. /\ \A i \in Slot : i < iNodeUsed => heap[i] \in Node /\ iHeapIndex[heap[i]] = i
      /\ SafeInv /\ iNodeUsed \in Nat
      /\ heap \in [Slot -> Node \cup {NULL}]
      /\ iHeapIndex \in [Node -> -1 .. MaxUsed - 1]
  BY <1>1, IdleFacts DEF HeapInv, SafeInv, TypeOK
<1> QED
  BY <1>1, <1>2, <1>4, <1>5, <1>6, <1>7, <1>8, <1>9, StartPushHeap

(* In a clean heap between operations, erasing or popping a node makes its  *)
(* slot the hole; the order no longer depends on its timeout. *)
LEMMA StartRemoveHeap ==
  ASSUME HeapInv, Clean, pc = "idle", NEW n \in Node, iHeapIndex[n] # -1,
         UNCHANGED <<heap, iNodeUsed, iHeapIndex, fate>>,
         stTimeout' \in [Node -> Time],
         \A m \in Node : m # n => stTimeout'[m] = stTimeout[m],
         pc' = "down", uHoleIndex' = iHeapIndex[n],
         item' = heap[iNodeUsed - 1], target' = n,
         oper' \in {"erase", "pop"}, after' \in {"push", "free"},
         iHeapIndex[n] # 0 =>
             stTimeout'[heap[Parent(iHeapIndex[n])]] <= stTimeout'[item']
  PROVE  CleanInv'
<1>1. /\ iHeapIndex[n] \in Slot /\ iHeapIndex[n] < iNodeUsed
      /\ heap[iHeapIndex[n]] = n /\ iNodeUsed \in 1 .. MaxUsed
  BY IdleFacts DEF HeapInv, SafeInv, TypeOK
<1>2. \A i \in Slot : Held(i)' <=> i < iNodeUsed /\ i # iHeapIndex[n]
  BY <1>1 DEF Held, Size
<1>3. \A i \in Slot : Held(i)' => heap[i] \in Node /\ heap[i] # n
                                   /\ iHeapIndex[heap[i]] = i
  BY <1>2, IdleFacts
<1>4. Placed'
  BY <1>3 DEF Placed
<1>5. Indexed'
  <2> SUFFICES ASSUME NEW m \in Node, iHeapIndex[m] # -1, m # n
               PROVE  Held(iHeapIndex[m])' /\ heap[iHeapIndex[m]] = m
    BY DEF Indexed
  <2>1. /\ iHeapIndex[m] \in Slot /\ iHeapIndex[m] < iNodeUsed
        /\ heap[iHeapIndex[m]] = m
    BY IdleFacts
  <2>2. iHeapIndex[m] # iHeapIndex[n]
    BY <1>1, <2>1
  <2> QED BY <1>2, <2>1, <2>2
<1>6. Ordered'
  BY <1>2, <1>3, IdleFacts DEF Ordered
<1>7. OrderedAcrossHole'
  <2> SUFFICES ASSUME NEW p \in Slot, NEW c \in Slot, Held(p)', Held(c)',
                      HasChild(p, iHeapIndex[n]), HasChild(iHeapIndex[n], c)
               PROVE  stTimeout'[heap[p]] <= stTimeout'[heap[c]]
    BY DEF OrderedAcrossHole
  <2>1. /\ stTimeout[heap[p]] <= stTimeout[n] /\ stTimeout[n] <= stTimeout[heap[c]]
    BY <1>1, <1>2, IdleFacts
  <2>2. /\ stTimeout[heap[p]] \in Int /\ stTimeout[heap[c]] \in Int
        /\ stTimeout[n] \in Int
    BY <1>3 DEF HeapInv, SafeInv, TypeOK
  <2> QED BY <1>3, <2>1, <2>2
<1>8. ItemFits'
  <2> SUFFICES ASSUME NEW p \in Slot, Held(p)', HasChild(p, iHeapIndex[n])
               PROVE  stTimeout'[heap[p]] <= stTimeout'[item']
    BY DEF ItemFits
  <2>1. iHeapIndex[n] # 0 /\ p = Parent(iHeapIndex[n])
    BY <1>1, ParentChild DEF HasChild
  <2> QED BY <2>1
<1>9. Running'
  <2>1. item' \in Node
    BY <1>1, IdleFacts
  <2>2. iHeapIndex[n] = iNodeUsed - 1 => item' = n
    BY <1>1
  <2> QED BY <1>1, <2>1, <2>2 DEF Running
<1>10. Owned'
  BY IdleFacts DEF Owned
<1> QED BY <1>4, <1>5, <1>6, <1>7, <1>8, <1>9, <1>10 DEF CleanInv

(* RegisterTimerOutEvent overwrites the timeout of a node in the heap:      *)
(* order survives, because that node is at once the hole.                   *)
LEMMA ReregisterHeap ==
  ASSUME HeapInv, Clean, NEW n \in Node, Reregister(n), Clean'
  PROVE  CleanInv'
<1>1. /\ pc = "idle" /\ fate[n] = "live"
      /\ UNCHANGED <<heap, iNodeUsed, iHeapIndex, fate>>
      /\ stTimeout' = [stTimeout EXCEPT ![n] = clock + Interval]
  BY DEF Reregister, Idle
<1>2. /\ stTimeout' \in [Node -> Time]
      /\ \A m \in Node : m # n => stTimeout'[m] = stTimeout[m]
  BY <1>1 DEF HeapInv, SafeInv, TypeOK
<1>3. CASE iHeapIndex[n] = -1
  <2>1. StartPush(n, iNodeUsed)
    BY <1>3 DEF Reregister
  <2>2. \A i \in Slot : i < iNodeUsed => heap[i] # n
    BY <1>1, <1>3, IdleFacts
  <2>3. \A p, c \in Slot : p < iNodeUsed /\ c < iNodeUsed /\ HasChild(p, c) =>
            stTimeout'[heap[p]] <= stTimeout'[heap[c]]
    BY <1>1, <1>2, <2>2, IdleFacts
  <2>4. /\ \A i \in Slot : i < iNodeUsed => heap[i] \in Node /\ iHeapIndex[heap[i]] = i
        /\ SafeInv /\ iNodeUsed \in Nat
        /\ heap \in [Slot -> Node \cup {NULL}]
        /\ iHeapIndex \in [Node -> -1 .. MaxUsed - 1]
        /\ \A m \in Node : iHeapIndex[m] # -1 =>
               /\ iHeapIndex[m] < iNodeUsed /\ heap[iHeapIndex[m]] = m
               /\ fate[m] = "live"
        /\ ~ReallocFails => \A m \in Node : fate[m] = "live" =>
                                m = n \/ iHeapIndex[m] # -1
    BY <1>1, IdleFacts DEF HeapInv, SafeInv, TypeOK
  <2> QED BY <1>1, <1>3, <2>1, <2>3, <2>4, StartPushHeap
<1>4. CASE iHeapIndex[n] # -1
  <2>1. StartErase(n, stTimeout', "push")
    BY <1>4 DEF Reregister
  <2>2. /\ iHeapIndex[n] \in Slot /\ iHeapIndex[n] < iNodeUsed
        /\ iNodeUsed \in 1 .. MaxUsed
    BY <1>1, <1>4, IdleFacts DEF HeapInv, SafeInv, TypeOK
  <2>3. /\ pc' = "down" /\ uHoleIndex' = iHeapIndex[n]
        /\ item' = heap[iNodeUsed - 1] /\ target' = n
        /\ oper' = "erase" /\ after' = "push"
        /\ iHeapIndex[n] # 0 =>
              ~Greater(stTimeout', heap[Parent(iHeapIndex[n])], item')
    BY <2>1, <2>2 DEF StartErase, Clean
  <2>4. iHeapIndex[n] # 0 =>
            stTimeout'[heap[Parent(iHeapIndex[n])]] <= stTimeout'[item']
    <3> SUFFICES ASSUME iHeapIndex[n] # 0
                 PROVE  stTimeout'[heap[Parent(iHeapIndex[n])]] <= stTimeout'[item']
      OBVIOUS
    <3>1. Parent(iHeapIndex[n]) \in Slot /\ Parent(iHeapIndex[n]) < iNodeUsed
      BY <2>2, ParentChild
    <3>2. heap[Parent(iHeapIndex[n])] \in Node /\ heap[iNodeUsed - 1] \in Node
      BY <1>1, <2>2, <3>1, IdleFacts
    <3> QED BY <1>2, <2>3, <3>2 DEF Greater
  <2> QED BY <1>1, <1>2, <1>4, <2>3, <2>4, StartRemoveHeap
<1> QED BY <1>3, <1>4

(* UnregisterTimerOutEvent: the erased node becomes the hole, and its       *)
(* parent is at most its children.                                          *)
LEMMA UnregisterHeap ==
  ASSUME HeapInv, Clean, NEW n \in Node, Unregister(n), Clean'
  PROVE  CleanInv'
<1>1. /\ pc = "idle" /\ fate[n] = "live"
      /\ UNCHANGED <<heap, iNodeUsed, iHeapIndex, stTimeout>>
  BY DEF Unregister, Idle, heapVars
<1>2. CASE iHeapIndex[n] = -1
  <2>1. /\ fate' = [fate EXCEPT ![n] = "closed"]
        /\ UNCHANGED <<pc, uHoleIndex, item, target, oper, after>>
    BY <1>2 DEF Unregister, loopVars
  <2>2. \A i \in Slot : Held(i)' <=> Held(i)
    BY <1>1, <2>1 DEF Held, Size
  <2>3. Placed' /\ Indexed' /\ Ordered'
    BY <1>1, <2>1, <2>2 DEF HeapInv, CleanInv, Placed, Indexed, Ordered, Held, Size
  <2>4. OrderedAcrossHole' /\ ItemFits' /\ Running'
    BY <1>1, <2>1 DEF HeapInv, CleanInv, OrderedAcrossHole, ItemFits, Running
  <2>5. \A m \in Node : fate'[m] = IF m = n THEN "closed" ELSE fate[m]
    BY <2>1 DEF HeapInv, SafeInv, TypeOK
  <2>6. Owned'
    BY <1>1, <1>2, <2>1, <2>5 DEF HeapInv, CleanInv, Owned
  <2> QED BY <2>3, <2>4, <2>6 DEF CleanInv
<1>3. CASE iHeapIndex[n] # -1
  <2>1. StartErase(n, stTimeout, "free") /\ UNCHANGED fate
    BY <1>3 DEF Unregister
  <2>2. /\ iHeapIndex[n] \in Slot /\ iHeapIndex[n] < iNodeUsed
        /\ iNodeUsed \in 1 .. MaxUsed
    BY <1>1, <1>3, IdleFacts DEF HeapInv, SafeInv, TypeOK
  <2>3. /\ pc' = "down" /\ uHoleIndex' = iHeapIndex[n]
        /\ item' = heap[iNodeUsed - 1] /\ target' = n
        /\ oper' = "erase" /\ after' = "free"
        /\ iHeapIndex[n] # 0 =>
              ~Greater(stTimeout, heap[Parent(iHeapIndex[n])], item')
    BY <2>1, <2>2 DEF StartErase, Clean
  <2>4. iHeapIndex[n] # 0 =>
            stTimeout[heap[Parent(iHeapIndex[n])]] <= stTimeout[item']
    <3> SUFFICES ASSUME iHeapIndex[n] # 0
                 PROVE  stTimeout[heap[Parent(iHeapIndex[n])]] <= stTimeout[item']
      OBVIOUS
    <3>1. Parent(iHeapIndex[n]) \in Slot /\ Parent(iHeapIndex[n]) < iNodeUsed
      BY <2>2, ParentChild
    <3>2. heap[Parent(iHeapIndex[n])] \in Node /\ heap[iNodeUsed - 1] \in Node
      BY <1>1, <2>2, <3>1, IdleFacts
    <3> QED BY <2>3, <3>2 DEF Greater, HeapInv, SafeInv, TypeOK
  <2>5. stTimeout' \in [Node -> Time]
    BY <1>1 DEF HeapInv, SafeInv, TypeOK
  <2> QED BY <1>1, <1>3, <2>1, <2>3, <2>4, <2>5, StartRemoveHeap
<1> QED BY <1>2, <1>3

(* ReactorProcessTimeoutEvent: the root becomes the hole.                   *)
LEMMA PopExpiredHeap ==
  ASSUME HeapInv, Clean, PopExpired
  PROVE  CleanInv'
<1>1. /\ pc = "idle" /\ iNodeUsed # 0
      /\ UNCHANGED <<heap, iNodeUsed, iHeapIndex, fate, stTimeout>>
      /\ pc' = "down" /\ uHoleIndex' = 0
      /\ item' = heap[iNodeUsed - 1] /\ target' = heap[0]
      /\ oper' = "pop" /\ after' = "free"
  BY DEF PopExpired, Idle, heapVars
<1>2. heap[0] \in Node /\ iHeapIndex[heap[0]] = 0
  BY <1>1, IdleFacts DEF HeapInv, SafeInv, TypeOK
<1>3. stTimeout' \in [Node -> Time]
  BY <1>1 DEF HeapInv, SafeInv, TypeOK
<1> QED BY <1>1, <1>2, <1>3, StartRemoveHeap

(* One iteration of __MinheapShiftUp keeps the order around the hole.       *)
LEMMA ShiftUpStepHeap ==
  ASSUME HeapInv, Clean, ShiftUpStep
  PROVE  CleanInv'
<1> DEFINE h == uHoleIndex
           par == Parent(uHoleIndex)
<1>1. /\ pc = "up" /\ h # 0
      /\ heap' = [heap EXCEPT ![h] = heap[par]]
      /\ iHeapIndex' = [iHeapIndex EXCEPT ![heap[par]] = h]
      /\ uHoleIndex' = par
      /\ UNCHANGED <<iNodeUsed, stTimeout, fate, pc, item, target, oper, after>>
  BY DEF ShiftUpStep, MustRise
<1>2. /\ oper = "push" /\ target = NULL /\ item \in Node /\ fate[item] = "live"
      /\ iHeapIndex[item] = -1 /\ h <= iNodeUsed
      /\ Placed /\ Indexed /\ Ordered /\ OrderedAcrossHole /\ ItemFits /\ Owned
  BY <1>1 DEF HeapInv, CleanInv, Running
<1>3. /\ heap \in [Slot -> Node \cup {NULL}]
      /\ iHeapIndex \in [Node -> -1 .. MaxUsed - 1]
      /\ stTimeout \in [Node -> Time] /\ iNodeUsed \in 0 .. MaxUsed
      /\ h \in Slot
  BY DEF HeapInv, SafeInv, TypeOK
<1>4. /\ par \in Slot /\ par < h /\ HasChild(par, h)
      /\ \A p \in Slot : HasChild(p, h) => p = par
  BY <1>1, <1>3, ParentChild
<1>5. \A i \in Slot : Held(i) <=> i <= iNodeUsed /\ i # h
  BY <1>1, <1>2, <1>3 DEF Held, Size
<1>6. \A i \in Slot : Held(i)' <=> i <= iNodeUsed /\ i # par
  BY <1>1, <1>2, <1>3 DEF Held, Size
<1>7. /\ Held(par) /\ heap[par] \in Node /\ iHeapIndex[heap[par]] = par
  BY <1>2, <1>3, <1>4, <1>5 DEF Placed
<1>8. stTimeout[heap[par]] > stTimeout[item]
  BY DEF ShiftUpStep, MustRise, Greater
<1>9. /\ heap'[h] = heap[par]
      /\ \A i \in Slot : i # h => heap'[i] = heap[i]
  BY <1>1, <1>3
<1>10. /\ iHeapIndex'[heap[par]] = h
       /\ \A n \in Node : n # heap[par] => iHeapIndex'[n] = iHeapIndex[n]
  BY <1>1, <1>3, <1>7
<1>11. Placed'
  <2> SUFFICES ASSUME NEW i \in Slot, Held(i)'
               PROVE  /\ heap'[i] \in Node /\ heap'[i] # target
                      /\ iHeapIndex'[heap'[i]] = i
    BY <1>1 DEF Placed
  <2>1. CASE i = h
    BY <1>2, <1>7, <1>9, <1>10, <2>1 DEF Placed
  <2>2. CASE i # h
    <3>1. Held(i) /\ i # par /\ heap'[i] = heap[i]
      BY <1>5, <1>6, <1>9, <2>2
    <3>2. heap[i] \in Node /\ iHeapIndex[heap[i]] = i
      BY <1>2, <3>1 DEF Placed
    <3>3. heap[i] # heap[par]
      BY <1>7, <3>1, <3>2
    <3> QED BY <1>2, <1>10, <3>1, <3>2, <3>3 DEF Placed
  <2> QED BY <2>1, <2>2
<1>12. Indexed'
  <2> SUFFICES ASSUME NEW n \in Node, iHeapIndex'[n] # -1
               PROVE  (Held(iHeapIndex[n]) /\ heap[iHeapIndex[n]] = n)'
    BY DEF Indexed
  <2>1. CASE n = heap[par]
    BY <1>1, <1>2, <1>3, <1>4, <1>9, <1>10, <2>1 DEF Held, Size
  <2>2. CASE n # heap[par]
    <3>1. iHeapIndex'[n] = iHeapIndex[n] /\ n # target
      BY <1>2, <1>10, <2>2
    <3>2. Held(iHeapIndex[n]) /\ heap[iHeapIndex[n]] = n
      BY <1>2, <3>1 DEF Indexed
    <3>3. iHeapIndex[n] \in Slot /\ iHeapIndex[n] # par /\ iHeapIndex[n] # h
      BY <1>5, <1>7, <2>2, <3>2 DEF Held
    <3> QED BY <1>1, <1>2, <1>3, <1>9, <3>1, <3>2, <3>3 DEF Held, Size
  <2> QED BY <2>1, <2>2
<1>13. Ordered'
  <2> SUFFICES ASSUME NEW p \in Slot, NEW c \in Slot, Held(p)', Held(c)', HasChild(p, c)
               PROVE  stTimeout[heap'[p]] <= stTimeout[heap'[c]]
    BY <1>1 DEF Ordered
  <2>1. CASE p = h
    <3>1. Held(c) /\ c # h /\ heap'[c] = heap[c]
      BY <1>3, <1>5, <1>6, <1>9, <2>1, NoChildBelow DEF HasChild
    <3> QED BY <1>1, <1>2, <1>4, <1>7, <1>9, <2>1, <3>1 DEF OrderedAcrossHole
  <2>2. CASE c = h
    BY <1>4, <1>6, <2>2
  <2>3. CASE p # h /\ c # h
    BY <1>2, <1>5, <1>6, <1>9, <2>3 DEF Ordered
  <2> QED BY <2>1, <2>2, <2>3
<1>14. ItemFits'
  <2> SUFFICES ASSUME NEW c \in Slot, Held(c)', HasChild(par, c)
               PROVE  stTimeout[item] <= stTimeout[heap'[c]]
    BY <1>1 DEF ItemFits
  <2>1. CASE c = h
    BY <1>2, <1>3, <1>7, <1>8, <1>9, <2>1
  <2>2. CASE c # h
    <3>1. Held(c) /\ heap'[c] = heap[c] /\ heap[c] \in Node
      BY <1>2, <1>5, <1>6, <1>9, <2>2, c \in Slot DEF Placed, HasChild
    <3>2. stTimeout[heap[par]] <= stTimeout[heap[c]]
      BY <1>2, <1>4, <1>7, <3>1 DEF Ordered
    <3> QED BY <1>2, <1>3, <1>7, <1>8, <3>1, <3>2
  <2> QED BY <2>1, <2>2
<1>15. OrderedAcrossHole'
  <2> SUFFICES ASSUME NEW p \in Slot, NEW c \in Slot, Held(p)', HasChild(p, par),
                      Held(c)', HasChild(par, c)
               PROVE  stTimeout[heap'[p]] <= stTimeout[heap'[c]]
    BY <1>1 DEF OrderedAcrossHole
  <2>1. p # h /\ p < par
    BY <1>3, <1>4 DEF HasChild
  <2>2. Held(p) /\ heap'[p] = heap[p] /\ heap[p] \in Node
    BY <1>2, <1>5, <1>6, <1>9, <2>1 DEF Placed
  <2>3. stTimeout[heap[p]] <= stTimeout[heap[par]]
    BY <1>2, <1>4, <1>7, <2>2 DEF Ordered
  <2>4. CASE c = h
    BY <1>9, <2>2, <2>3, <2>4
  <2>5. CASE c # h
    <3>1. Held(c) /\ heap'[c] = heap[c] /\ heap[c] \in Node
      BY <1>2, <1>5, <1>6, <1>9, <2>5 DEF Placed
    <3>2. stTimeout[heap[par]] <= stTimeout[heap[c]]
      BY <1>2, <1>4, <1>7, <3>1 DEF Ordered
    <3> QED BY <1>3, <1>7, <2>2, <2>3, <3>1, <3>2
  <2> QED BY <2>4, <2>5
<1>16. Running'
  <2>1. item # heap[par]
    BY <1>2, <1>3, <1>4, <1>7
  <2> QED BY <1>1, <1>2, <1>3, <1>4, <1>10, <2>1 DEF Running
<1>17. Owned'
  <2>1. fate[heap[par]] = "live"
    BY <1>2, <1>3, <1>4, <1>7 DEF Owned
  <2> QED BY <1>1, <1>2, <1>3, <1>4, <1>10, <2>1 DEF Owned
<1> QED BY <1>11, <1>12, <1>13, <1>14, <1>15, <1>16, <1>17 DEF CleanInv

(* One iteration of __MinheapShiftDown keeps the order around the hole,     *)
(* since the smaller child moves up.                                        *)
LEMMA ShiftDownStepHeap ==
  ASSUME HeapInv, Clean, ShiftDownStep
  PROVE  CleanInv'
<1> DEFINE h == uHoleIndex
           m == MinChild
<1>1. /\ pc = "down" /\ 2 * (h + 1) <= iNodeUsed
      /\ heap' = [heap EXCEPT ![h] = heap[m]]
      /\ iHeapIndex' = [iHeapIndex EXCEPT ![heap[m]] = h]
      /\ uHoleIndex' = m
      /\ UNCHANGED <<iNodeUsed, stTimeout, fate, pc, item, target, oper, after>>
  BY DEF ShiftDownStep, MustSink
<1>2. /\ oper \in {"erase", "pop"} /\ after \in {"push", "free"}
      /\ item \in Node /\ target \in Node
      /\ iHeapIndex[target] # -1 /\ h < iNodeUsed
      /\ h # iNodeUsed - 1 => heap[iNodeUsed - 1] = item
      /\ Placed /\ Indexed /\ Ordered /\ OrderedAcrossHole /\ ItemFits /\ Owned
  BY <1>1 DEF HeapInv, CleanInv, Running
<1>3. /\ heap \in [Slot -> Node \cup {NULL}]
      /\ iHeapIndex \in [Node -> -1 .. MaxUsed - 1]
      /\ stTimeout \in [Node -> Time] /\ iNodeUsed \in 0 .. MaxUsed
      /\ h \in Slot
  BY DEF HeapInv, SafeInv, TypeOK
<1>4. /\ m \in Slot /\ m < iNodeUsed /\ HasChild(h, m) /\ m > h
  BY <1>1, <1>3 DEF MinChild, HasChild
<1>5. \A i \in Slot : Held(i) <=> i < iNodeUsed /\ i # h
  BY <1>1, <1>2, <1>3 DEF Held, Size
<1>6. \A i \in Slot : Held(i)' <=> i < iNodeUsed /\ i # m
  BY <1>1, <1>2, <1>3 DEF Held, Size
<1>7. /\ Held(m) /\ heap[m] \in Node /\ heap[m] # target
      /\ iHeapIndex[heap[m]] = m
  BY <1>2, <1>3, <1>4, <1>5 DEF Placed
<1>8. stTimeout[item] > stTimeout[heap[m]]
  BY DEF ShiftDownStep, MustSink, Greater
<1>9. \A c \in Slot : Held(c) /\ HasChild(h, c) =>
          stTimeout[heap[m]] <= stTimeout[heap[c]]
  <2> SUFFICES ASSUME NEW c \in Slot, Held(c), HasChild(h, c)
               PROVE  stTimeout[heap[m]] <= stTimeout[heap[c]]
    OBVIOUS
  <2>1. heap[c] \in Node /\ c < iNodeUsed
    BY <1>2, <1>5 DEF Placed
  <2>2. CASE c = m
    BY <1>3, <1>7, <2>2
  <2>3. CASE c # m
    <3>1. \/ /\ m = 2 * h + 1 /\ c = 2 * h + 2
             /\ stTimeout[heap[c]] > stTimeout[heap[m]]
          \/ /\ m = 2 * h + 2 /\ c = 2 * h + 1
             /\ ~(stTimeout[heap[m]] > stTimeout[heap[c]])
      <4>1. CASE c = 2 * h + 2
        <5>1. m = 2 * h + 1 /\ 2 * (h + 1) # iNodeUsed
          BY <1>3, <1>4, <2>1, <2>3, <4>1 DEF HasChild
        <5>2. Greater(stTimeout, heap[2 * (h + 1)], heap[2 * (h + 1) - 1])
          BY <1>3, <5>1 DEF MinChild
        <5>3. 2 * (h + 1) = c /\ 2 * (h + 1) - 1 = m
          BY <1>3, <4>1, <5>1
        <5> HIDE DEF h, m
        <5> QED BY <4>1, <5>1, <5>2, <5>3 DEF Greater
      <4>2. CASE c = 2 * h + 1
        <5>1. m = 2 * h + 2
          BY <1>4, <2>3, <4>2 DEF HasChild
        <5>2. ~Greater(stTimeout, heap[2 * (h + 1)], heap[2 * (h + 1) - 1])
          BY <1>3, <5>1 DEF MinChild
        <5>3. 2 * (h + 1) = m /\ 2 * (h + 1) - 1 = c
          BY <1>3, <4>2, <5>1
        <5> HIDE DEF h, m
        <5> QED BY <4>2, <5>1, <5>2, <5>3 DEF Greater
      <4> QED BY <4>1, <4>2 DEF HasChild
    <3> QED BY <1>3, <1>7, <2>1, <3>1
  <2> QED BY <2>2, <2>3
<1>10. /\ heap'[h] = heap[m]
       /\ \A i \in Slot : i # h => heap'[i] = heap[i]
  BY <1>1, <1>3
<1>11. /\ iHeapIndex'[heap[m]] = h
       /\ \A n \in Node : n # heap[m] => iHeapIndex'[n] = iHeapIndex[n]
  BY <1>1, <1>3, <1>7
<1>12. Placed'
  <2> SUFFICES ASSUME NEW i \in Slot, Held(i)'
               PROVE  /\ heap'[i] \in Node /\ heap'[i] # target
                      /\ iHeapIndex'[heap'[i]] = i
    BY <1>1 DEF Placed
  <2>1. CASE i = h
    BY <1>7, <1>10, <1>11, <2>1
  <2>2. CASE i # h
    <3>1. Held(i) /\ i # m /\ heap'[i] = heap[i]
      BY <1>5, <1>6, <1>10, <2>2
    <3>2. heap[i] \in Node /\ heap[i] # target /\ iHeapIndex[heap[i]] = i
      BY <1>2, <3>1 DEF Placed
    <3>3. heap[i] # heap[m]
      BY <1>7, <3>1, <3>2
    <3> QED BY <1>11, <3>1, <3>2, <3>3
  <2> QED BY <2>1, <2>2
<1>13. Indexed'
  <2> SUFFICES ASSUME NEW n \in Node, iHeapIndex'[n] # -1, n # target
               PROVE  (Held(iHeapIndex[n]) /\ heap[iHeapIndex[n]] = n)'
    BY <1>1 DEF Indexed
  <2>1. CASE n = heap[m]
    <3>1. iHeapIndex'[n] = h /\ heap'[h] = n
      BY <1>10, <1>11, <2>1
    <3>2. h \in Slot /\ h < iNodeUsed /\ h # m
      BY <1>2, <1>3, <1>4
    <3>3. Size' = iNodeUsed
      BY <1>1, <1>2 DEF Size
    <3> HIDE DEF m
    <3> QED BY <1>1, <3>1, <3>2, <3>3 DEF Held
  <2>2. CASE n # heap[m]
    <3>1. iHeapIndex'[n] = iHeapIndex[n]
      BY <1>11, <2>2
    <3>2. Held(iHeapIndex[n]) /\ heap[iHeapIndex[n]] = n
      BY <1>2, <3>1 DEF Indexed
    <3>3. iHeapIndex[n] \in Slot /\ iHeapIndex[n] # m /\ iHeapIndex[n] # h
      BY <1>5, <1>7, <2>2, <3>2 DEF Held
    <3> QED BY <1>1, <1>2, <1>3, <1>10, <3>1, <3>2, <3>3 DEF Held, Size
  <2> QED BY <2>1, <2>2
<1>14. Ordered'
  <2> SUFFICES ASSUME NEW p \in Slot, NEW c \in Slot, Held(p)', Held(c)', HasChild(p, c)
               PROVE  stTimeout[heap'[p]] <= stTimeout[heap'[c]]
    BY <1>1 DEF Ordered
  <2>1. CASE p = h
    <3>1. Held(c) /\ c # h /\ heap'[c] = heap[c]
      BY <1>3, <1>5, <1>6, <1>10, <2>1, NoChildBelow DEF HasChild
    <3> QED BY <1>9, <1>10, <2>1, <3>1
  <2>2. CASE c = h
    <3>1. p # h
      BY <2>2 DEF HasChild
    <3>2. Held(p) /\ heap'[p] = heap[p]
      BY <1>5, <1>6, <1>10, <3>1
    <3> QED BY <1>1, <1>2, <1>4, <1>7, <1>10, <2>2, <3>2 DEF OrderedAcrossHole
  <2>3. CASE p # h /\ c # h
    BY <1>2, <1>5, <1>6, <1>10, <2>3 DEF Ordered
  <2> QED BY <2>1, <2>2, <2>3
<1>15. \A p \in Slot : HasChild(p, m) => p = h
  BY <1>3, <1>4 DEF HasChild
<1>16. ItemFits'
  <2> SUFFICES ASSUME NEW p \in Slot, HasChild(p, m)
               PROVE  stTimeout[heap'[p]] <= stTimeout[item]
    BY <1>1 DEF ItemFits
  <2> QED BY <1>2, <1>3, <1>7, <1>8, <1>10, <1>15
<1>17. OrderedAcrossHole'
  <2> SUFFICES ASSUME NEW c \in Slot, Held(c)', HasChild(m, c)
               PROVE  stTimeout[heap'[h]] <= stTimeout[heap'[c]]
    BY <1>1, <1>15 DEF OrderedAcrossHole
  <2>1. c # h /\ Held(c) /\ heap'[c] = heap[c]
    BY <1>3, <1>4, <1>5, <1>6, <1>10 DEF HasChild
  <2> QED BY <1>2, <1>4, <1>7, <1>10, <2>1 DEF Ordered
<1>18. Running'
  <2>1. h # iNodeUsed - 1
    BY <1>1, <1>3
  <2>2. m # iNodeUsed - 1
    BY <1>2, <1>3, <1>8, <2>1
  <2>3. heap'[iNodeUsed - 1] = item
    BY <1>2, <1>3, <1>10, <2>1
  <2> QED BY <1>1, <1>2, <1>4, <1>7, <1>11, <2>2, <2>3 DEF Running
<1>19. Owned'
  <2>1. fate[heap[m]] = "live"
    BY <1>2, <1>3, <1>4, <1>7 DEF Owned
  <2> QED BY <1>1, <1>2, <1>3, <1>4, <1>11, <2>1 DEF Owned
<1> QED BY <1>12, <1>13, <1>14, <1>16, <1>17, <1>18, <1>19 DEF CleanInv

(* The end of MinHeapPush: the item fits into the hole, between its parent  *)
(* and its children.                                                        *)
LEMMA FinishPushHeap ==
  ASSUME HeapInv, Clean, FinishPush
  PROVE  CleanInv'
<1> DEFINE h == uHoleIndex
<1>1. /\ pc = "up" /\ oper = "push"
      /\ heap' = [heap EXCEPT ![h] = item]
      /\ iHeapIndex' = [iHeapIndex EXCEPT ![item] = h]
      /\ iNodeUsed' = iNodeUsed + 1
      /\ pc' = "idle" /\ target' = NULL /\ oper' = "none"
      /\ UNCHANGED <<stTimeout, fate>>
  BY DEF FinishPush, StopLoop
<1>2. /\ target = NULL /\ item \in Node /\ fate[item] = "live"
      /\ iHeapIndex[item] = -1 /\ h <= iNodeUsed
      /\ Placed /\ Indexed /\ Ordered /\ ItemFits /\ Owned
  BY <1>1 DEF HeapInv, CleanInv, Running
<1>3. /\ heap \in [Slot -> Node \cup {NULL}]
      /\ iHeapIndex \in [Node -> -1 .. MaxUsed - 1]
      /\ stTimeout \in [Node -> Time] /\ iNodeUsed \in 0 .. MaxUsed
      /\ h \in Slot
  BY DEF HeapInv, SafeInv, TypeOK
<1>4. \A i \in Slot : Held(i) <=> i <= iNodeUsed /\ i # h
  BY <1>1, <1>2, <1>3 DEF Held, Size
<1>5. \A i \in Slot : Held(i)' <=> i <= iNodeUsed
  BY <1>1, <1>2, <1>3 DEF Held, Size
<1>6. heap'[h] = item /\ \A i \in Slot : i # h => heap'[i] = heap[i]
  BY <1>1, <1>3
<1>7. /\ iHeapIndex'[item] = h
      /\ \A n \in Node : n # item => iHeapIndex'[n] = iHeapIndex[n]
  BY <1>1, <1>2, <1>3
<1>8. Placed'
  <2> SUFFICES ASSUME NEW i \in Slot, Held(i)'
               PROVE  heap'[i] \in Node /\ iHeapIndex'[heap'[i]] = i
    BY <1>1 DEF Placed
  <2>1. CASE i = h
    BY <1>2, <1>6, <1>7, <2>1
  <2>2. CASE i # h
    <3>1. Held(i) /\ heap'[i] = heap[i]
      BY <1>4, <1>5, <1>6, <2>2
    <3>2. heap[i] \in Node /\ iHeapIndex[heap[i]] = i
      BY <1>2, <3>1 DEF Placed
    <3>3. heap[i] # item
      BY <1>2, <3>2
    <3> QED BY <1>7, <3>1, <3>2, <3>3
  <2> QED BY <2>1, <2>2
<1>9. Indexed'
  <2> SUFFICES ASSUME NEW n \in Node, iHeapIndex'[n] # -1
               PROVE  (Held(iHeapIndex[n]) /\ heap[iHeapIndex[n]] = n)'
    BY <1>1 DEF Indexed
  <2>1. CASE n = item
    BY <1>1, <1>2, <1>3, <1>6, <1>7, <2>1 DEF Held, Size
  <2>2. CASE n # item
    <3>1. iHeapIndex'[n] = iHeapIndex[n] /\ n # target
      BY <1>2, <1>7, <2>2
    <3>2. Held(iHeapIndex[n]) /\ heap[iHeapIndex[n]] = n
      BY <1>2, <3>1 DEF Indexed
    <3>3. iHeapIndex[n] \in Slot /\ iHeapIndex[n] # h /\ iHeapIndex[n] <= iNodeUsed
      BY <1>4, <3>2 DEF Held
    <3> QED BY <1>1, <1>3, <1>6, <3>1, <3>2, <3>3 DEF Held, Size
  <2> QED BY <2>1, <2>2
<1>10. Ordered'
  <2> SUFFICES ASSUME NEW p \in Slot, NEW c \in Slot, Held(p)', Held(c)', HasChild(p, c)
               PROVE  stTimeout[heap'[p]] <= stTimeout[heap'[c]]
    BY <1>1 DEF Ordered
  <2>1. CASE p = h
    <3>1. Held(c) /\ c # h /\ heap'[c] = heap[c]
      BY <1>3, <1>4, <1>5, <1>6, <2>1 DEF HasChild
    <3> QED BY <1>1, <1>2, <1>6, <2>1, <3>1 DEF ItemFits
  <2>2. CASE c = h
    <3>1. Held(p) /\ p # h /\ heap'[p] = heap[p] /\ heap[p] \in Node
      BY <1>2, <1>3, <1>4, <1>5, <1>6, <2>2 DEF HasChild, Placed
    <3>2. h # 0 /\ p = Parent(h)
      BY <1>3, <2>2, ParentChild DEF HasChild
    <3>3. ~(stTimeout[heap[p]] > stTimeout[item])
      BY <3>2 DEF FinishPush, MustRise, Greater
    <3> QED BY <1>2, <1>3, <1>6, <2>2, <3>1, <3>3
  <2>3. CASE p # h /\ c # h
    BY <1>2, <1>4, <1>5, <1>6, <2>3 DEF Ordered
  <2> QED BY <2>1, <2>2, <2>3
<1>11. OrderedAcrossHole' /\ ItemFits' /\ Running'
  BY <1>1 DEF OrderedAcrossHole, ItemFits, Running
<1>12. Owned'
  BY <1>1, <1>2, <1>3, <1>7 DEF Owned
<1> QED BY <1>8, <1>9, <1>10, <1>11, <1>12 DEF CleanInv

(* The end of a removal: one node less, all others placed, indexed and      *)
(* ordered, and the target without an index. *)
LEMMA RemovedFacts ==
  ASSUME HeapInv, Clean, FinishDown
  PROVE  /\ target \in Node /\ iHeapIndex'[target] = -1 /\ fate[target] = "live"
         /\ iNodeUsed' \in Nat /\ iNodeUsed' = iNodeUsed - 1
         /\ heap' \in [Slot -> Node \cup {NULL}]
         /\ iHeapIndex' \in [Node -> -1 .. MaxUsed - 1]
         /\ \A i \in Slot : i < iNodeUsed - 1 =>
                /\ heap'[i] \in Node /\ heap'[i] # target
                /\ iHeapIndex'[heap'[i]] = i
         /\ \A n \in Node : iHeapIndex'[n] # -1 =>
                /\ n # target /\ iHeapIndex'[n] < iNodeUsed - 1
                /\ iHeapIndex'[n] \in Slot
                /\ heap'[iHeapIndex'[n]] = n /\ fate[n] = "live"
         /\ \A p, c \in Slot :
                p < iNodeUsed - 1 /\ c < iNodeUsed - 1 /\ HasChild(p, c) =>
                    stTimeout[heap'[p]] <= stTimeout[heap'[c]]
         /\ ~ReallocFails => \A n \in Node : fate[n] = "live" =>
                                 n = target \/ iHeapIndex'[n] # -1
<1> DEFINE h == uHoleIndex
           last == iNodeUsed - 1
<1>1. /\ pc = "down" /\ iNodeUsed' = last
      /\ heap' = [heap EXCEPT ![h] = item]
      /\ iHeapIndex' = [iHeapIndex EXCEPT ![item] = h, ![target] = -1]
  BY DEF FinishDown
<1>2. /\ oper \in {"erase", "pop"}
      /\ item \in Node /\ target \in Node
      /\ iHeapIndex[target] # -1 /\ h <= last
      /\ h = last => item = target
      /\ h # last => heap[last] = item
      /\ Placed /\ Indexed /\ Ordered /\ ItemFits /\ Owned
  BY <1>1 DEF HeapInv, CleanInv, Running, SafeInv, TypeOK
<1>3. /\ heap \in [Slot -> Node \cup {NULL}]
      /\ iHeapIndex \in [Node -> -1 .. MaxUsed - 1]
      /\ stTimeout \in [Node -> Time] /\ iNodeUsed \in 1 .. MaxUsed
      /\ h \in Slot /\ last \in Slot
  BY <1>2 DEF HeapInv, SafeInv, TypeOK, BoundsInv
<1>4. \A i \in Slot : Held(i) <=> i <= last /\ i # h
  BY <1>1, <1>2, <1>3 DEF Held, Size
<1>5. heap'[h] = item /\ \A i \in Slot : i # h => heap'[i] = heap[i]
  BY <1>1, <1>3
<1>6. /\ iHeapIndex'[target] = -1
      /\ item # target => iHeapIndex'[item] = h
      /\ \A n \in Node : n # target /\ n # item => iHeapIndex'[n] = iHeapIndex[n]
  BY <1>1, <1>2, <1>3
<1>7. h # last => item # target /\ iHeapIndex[item] = last
  BY <1>2, <1>3, <1>4 DEF Placed
<1>8. ASSUME NEW i \in Slot, i < last
      PROVE  heap'[i] \in Node /\ heap'[i] # target /\ iHeapIndex'[heap'[i]] = i
  <2>1. CASE i = h
    BY <1>2, <1>3, <1>5, <1>6, <1>7, <1>8, <2>1
  <2>2. CASE i # h
    <3>1. Held(i) /\ heap'[i] = heap[i]
      <4>1. i <= last
        BY <1>3, <1>8
      <4>2. Held(i)
        BY <1>4, <1>8, <2>2, <4>1, Zenon
      <4>3. heap'[i] = heap[i]
        BY <1>5, <1>8, <2>2, Zenon
      <4> QED BY <4>2, <4>3
    <3>2. heap[i] \in Node /\ heap[i] # target /\ iHeapIndex[heap[i]] = i
      BY <1>2, <3>1 DEF Placed
    <3>3. heap[i] # item
      BY <1>2, <1>3, <1>7, <1>8, <3>2
    <3> QED BY <1>6, <3>1, <3>2, <3>3
  <2> QED BY <2>1, <2>2
<1>9. ASSUME NEW n \in Node, iHeapIndex'[n] # -1
      PROVE  /\ n # target /\ iHeapIndex'[n] < last /\ iHeapIndex'[n] \in Slot
             /\ heap'[iHeapIndex'[n]] = n /\ fate[n] = "live"
  <2>1. n # target
    BY <1>6, <1>9
  <2>2. CASE n = item
    <3>1. h # last /\ iHeapIndex'[n] = h
      BY <1>2, <1>6, <2>1, <2>2
    <3>2. iHeapIndex[n] # -1
      BY <1>3, <1>7, <2>2, <3>1
    <3> QED BY <1>2, <1>3, <1>5, <2>1, <2>2, <3>1, <3>2 DEF Owned
  <2>3. CASE n # item
    <3>1. iHeapIndex'[n] = iHeapIndex[n]
      BY <1>6, <2>1, <2>3
    <3>2. Held(iHeapIndex[n]) /\ heap[iHeapIndex[n]] = n
      BY <1>2, <1>9, <2>1, <3>1 DEF Indexed
    <3>3. iHeapIndex[n] \in Slot /\ iHeapIndex[n] <= last /\ iHeapIndex[n] # h
      BY <1>4, <3>2 DEF Held
    <3>4. iHeapIndex[n] # last
      BY <1>2, <2>3, <3>2, <3>3
    <3>5. iHeapIndex[n] < last
      <4>1. iHeapIndex[n] \in Int /\ last \in Int
        BY <1>3, <3>3
      <4> HIDE DEF last
      <4> QED BY <3>3, <3>4, <4>1
    <3> QED BY <1>2, <1>5, <1>9, <2>1, <3>1, <3>2, <3>3, <3>5 DEF Owned
  <2> QED BY <2>2, <2>3
<1>10. ASSUME NEW p \in Slot, NEW c \in Slot, p < last, c < last, HasChild(p, c)
       PROVE  stTimeout[heap'[p]] <= stTimeout[heap'[c]]
  <2>1. CASE p = h
    <3>1. c # h /\ Held(c) /\ heap'[c] = heap[c] /\ heap[c] \in Node
      BY <1>2, <1>3, <1>4, <1>5, <1>10, <2>1 DEF HasChild, Placed
    <3>2. 2 * (h + 1) <= last
      BY <1>3, <1>10, <2>1 DEF HasChild
    <3>3. /\ 2 * h + 1 \in Slot /\ 2 * h + 2 \in Slot
          /\ Held(2 * h + 1) /\ Held(2 * h + 2)
      BY <1>3, <1>4, <3>2
    <3>4. heap[2 * h + 1] \in Node /\ heap[2 * h + 2] \in Node
      BY <1>2, <3>3 DEF Placed
    <3>5. 2 * (h + 1) = 2 * h + 2 /\ 2 * (h + 1) - 1 = 2 * h + 1
          /\ 2 * (h + 1) # iNodeUsed /\ 2 * (h + 1) <= iNodeUsed
      BY <1>3, <3>2
    <3>6. MinChild = IF Greater(stTimeout, heap[2 * h + 2], heap[2 * h + 1])
                     THEN 2 * h + 1 ELSE 2 * h + 2
      BY <3>5 DEF MinChild
    <3>7. ~Greater(stTimeout, item, heap[MinChild])
      BY <3>5 DEF FinishDown, MustSink
    <3>8. stTimeout[item] <= stTimeout[heap[2 * h + 1]]
          /\ stTimeout[item] <= stTimeout[heap[2 * h + 2]]
      BY <1>2, <1>3, <3>4, <3>6, <3>7 DEF Greater
    <3> QED BY <1>5, <1>10, <2>1, <3>1, <3>8 DEF HasChild
  <2>2. CASE c = h
    <3>1. p # h
      BY <1>10, <2>2 DEF HasChild
    <3>2. Held(p) /\ heap'[p] = heap[p]
      BY <1>3, <1>4, <1>5, <1>10, <3>1
    <3> QED BY <1>1, <1>2, <1>5, <1>10, <2>2, <3>2 DEF ItemFits
  <2>3. CASE p # h /\ c # h
    BY <1>2, <1>3, <1>4, <1>5, <1>10, <2>3 DEF Ordered
  <2> QED BY <2>1, <2>2, <2>3
<1>11. fate[target] = "live"
  BY <1>2 DEF Owned
<1>12. ~ReallocFails => \A n \in Node : fate[n] = "live" =>
                           n = target \/ iHeapIndex'[n] # -1
  BY <1>2, <1>3, <1>6 DEF Owned
<1>13. /\ heap' \in [Slot -> Node \cup {NULL}]
       /\ iHeapIndex' \in [Node -> -1 .. MaxUsed - 1]
  BY FinishDownSafe DEF HeapInv, SafeInv, TypeOK
<1>14. iNodeUsed' \in Nat /\ iNodeUsed' = iNodeUsed - 1
  BY <1>1, <1>3
<1>15. \A i \in Slot : i < iNodeUsed - 1 =>
           /\ heap'[i] \in Node /\ heap'[i] # target
           /\ iHeapIndex'[heap'[i]] = i
  BY <1>8
<1>16. \A n \in Node : iHeapIndex'[n] # -1 =>
           /\ n # target /\ iHeapIndex'[n] < iNodeUsed - 1
           /\ iHeapIndex'[n] \in Slot
           /\ heap'[iHeapIndex'[n]] = n /\ fate[n] = "live"
  BY <1>9
<1>17. \A p, c \in Slot :
           p < iNodeUsed - 1 /\ c < iNodeUsed - 1 /\ HasChild(p, c) =>
               stTimeout[heap'[p]] <= stTimeout[heap'[c]]
  BY <1>10
<1> HIDE DEF h, last
<1> QED BY <1>2, <1>6, <1>11, <1>12, <1>13, <1>14, <1>15, <1>16, <1>17, Zenon

(* The end of a removal: the last node fits into the hole, and the removed  *)
(* node is freed or pushed again.                                           *)
LEMMA FinishDownHeap ==
  ASSUME HeapInv, Clean, FinishDown
  PROVE  CleanInv'
<1>1. CASE after = "push"
  <2>1. StartPush(target, iNodeUsed - 1) /\ UNCHANGED <<fate, stTimeout>>
    BY <1>1 DEF FinishDown, Continue
  <2>2. SafeInv
    BY DEF HeapInv
  <2> DEFINE used == iNodeUsed - 1
  <2>3. target \in Node /\ used \in Nat /\ used = iNodeUsed'
    BY RemovedFacts
  <2>4. /\ iHeapIndex'[target] = -1 /\ fate'[target] = "live"
        /\ \A i \in Slot : i < used => heap'[i] \in Node /\ iHeapIndex'[heap'[i]] = i
        /\ \A m \in Node : iHeapIndex'[m] # -1 =>
               /\ iHeapIndex'[m] < used /\ heap'[iHeapIndex'[m]] = m
               /\ fate'[m] = "live"
    BY <2>1, RemovedFacts
  <2>5. \A p, c \in Slot : p < used /\ c < used /\ HasChild(p, c) =>
            stTimeout'[heap'[p]] <= stTimeout'[heap'[c]]
    BY <2>1, RemovedFacts
  <2>6. ~ReallocFails => \A m \in Node : fate'[m] = "live" =>
                            m = target \/ iHeapIndex'[m] # -1
    BY <2>1, RemovedFacts
  <2>7. /\ heap' \in [Slot -> Node \cup {NULL}]
        /\ iHeapIndex' \in [Node -> -1 .. MaxUsed - 1]
    BY RemovedFacts
  <2>8. StartPush(target, used)
    BY <2>1
  <2> HIDE DEF used
  <2> QED BY <2>2, <2>3, <2>4, <2>5, <2>6, <2>7, <2>8, StartPushHeap
<1>2. CASE after = "free"
  <2>1. /\ pc' = "idle" /\ target' = NULL /\ oper' = "none"
        /\ fate' = [fate EXCEPT ![target] =
                        IF oper = "pop" THEN "expired" ELSE "closed"]
        /\ UNCHANGED stTimeout
    BY <1>2 DEF FinishDown, Continue, StopLoop
  <2>2. \A i \in Slot : Held(i)' <=> i < iNodeUsed - 1
    BY <2>1, RemovedFacts DEF Held, Size
  <2>3. Placed'
    BY <2>1, <2>2, RemovedFacts DEF Placed
  <2>4. Indexed'
    BY <2>1, RemovedFacts DEF Indexed, Held, Size
  <2>5. Ordered'
    BY <2>1, <2>2, RemovedFacts DEF Ordered
  <2>6. OrderedAcrossHole' /\ ItemFits' /\ Running'
    BY <2>1 DEF OrderedAcrossHole, ItemFits, Running
  <2>7. /\ \A n \in Node : n # target => fate'[n] = fate[n]
        /\ fate'[target] # "live"
    BY <2>1, RemovedFacts DEF HeapInv, SafeInv, TypeOK
  <2>8. Owned'
    BY <2>7, RemovedFacts DEF Owned
  <2> QED BY <2>3, <2>4, <2>5, <2>6, <2>8 DEF CleanInv
<1> QED BY <1>1, <1>2 DEF FinishDown, Continue

(* A clean heap never is in the ShiftUp branch of an erase. *)
LEMMA NoEraseUp ==
  ASSUME HeapInv, Clean
  PROVE  ~FinishEraseUp
  BY DEF HeapInv, CleanInv, Running, FinishEraseUp

(* Every step keeps the inductive invariant.                                *)
LEMMA NextHeap == HeapInv /\ [Next]_vars => HeapInv'
<1> SUFFICES ASSUME HeapInv, [Next]_vars PROVE HeapInv'
  OBVIOUS
<1>1. SafeInv'
  BY NextSafe DEF HeapInv
<1>2. CASE ~Clean'
  BY <1>1, <1>2 DEF HeapInv, CleanInv
<1>3. CASE Clean'
  <2>1. Clean
    BY <1>3, CleanBefore
  <2>2. ASSUME UNCHANGED vars PROVE CleanInv'
    BY <2>2 DEF HeapInv, CleanInv, Clean, vars, heapVars, loopVars,
         Placed, Indexed, Ordered, OrderedAcrossHole, ItemFits, Running, Owned,
         Held, Size
  <2>3. ASSUME Next PROVE CleanInv'
    BY <1>3, <2>1, <2>3, RefreshClockHeap, RegisterNewHeap, ReregisterHeap,
       UnregisterHeap, PopExpiredHeap, ShiftUpStepHeap, FinishPushHeap, NoEraseUp,
       ShiftDownStepHeap, FinishDownHeap DEF Next
  <2> QED BY <1>1, <2>2, <2>3 DEF HeapInv
<1> QED BY <1>2, <1>3

(* The inductive invariant holds in every reachable state.                  *)
LEMMA HeapInvariant == Spec => []HeapInv
  BY InitHeap, NextHeap, PTL DEF Spec

(* Until an erase takes its ShiftUp branch, the array is a binary min-heap  *)
(* between operations.                                                      *)
THEOREM HeapOrderHolds == Spec => []HeapOrder
<1>1. HeapInv => HeapOrder
  <2> SUFFICES ASSUME HeapInv, Settled, NEW p \in 0 .. iNodeUsed - 1,
                      NEW c \in 0 .. iNodeUsed - 1, c \in {2 * p + 1, 2 * p + 2}
               PROVE  ~Greater(stTimeout, heap[p], heap[c])
    BY DEF HeapOrder
  <2>1. Clean /\ pc = "idle"
    BY DEF Settled
  <2>2. /\ p \in Slot /\ p < iNodeUsed /\ c \in Slot /\ c < iNodeUsed
        /\ HasChild(p, c)
    BY DEF HeapInv, SafeInv, TypeOK, HasChild
  <2>3. /\ stTimeout[heap[p]] <= stTimeout[heap[c]]
        /\ heap[p] \in Node /\ heap[c] \in Node
    BY <2>1, <2>2, IdleFacts
  <2> QED BY <2>3 DEF Greater, HeapInv, SafeInv, TypeOK
<1> QED BY <1>1, HeapInvariant, PTL

(* Until then, iHeapIndex and the array agree between operations, in both   *)
(* directions.                                                              *)
THEOREM IndexExactHolds == Spec => []IndexExact
<1>1. HeapInv => IndexExact
  <2> SUFFICES ASSUME HeapInv, Settled PROVE
          /\ \A i \in 0 .. iNodeUsed - 1 : iHeapIndex[heap[i]] = i
          /\ \A n \in Node : iHeapIndex[n] # -1 =>
                 iHeapIndex[n] < iNodeUsed /\ heap[iHeapIndex[n]] = n
    BY DEF IndexExact
  <2>1. Clean /\ pc = "idle"
    BY DEF Settled
  <2>2. \A i \in 0 .. iNodeUsed - 1 : i \in Slot /\ i < iNodeUsed
    BY DEF HeapInv, SafeInv, TypeOK
  <2> QED BY <2>1, <2>2, IdleFacts
<1> QED BY <1>1, HeapInvariant, PTL

(* Until then, the nodes in the array are the live connections, each        *)
(* exactly where its index says, unless realloc failed.                     *)
THEOREM TimersExactHold == Spec => []TimersExact
<1>1. HeapInv => TimersExact
  <2> SUFFICES ASSUME HeapInv, Settled PROVE
          /\ \A i \in 0 .. iNodeUsed - 1 : heap[i] \in Live
          /\ ~ReallocFails => \A n \in Live : \E i \in 0 .. iNodeUsed - 1 : heap[i] = n
    BY DEF TimersExact
  <2>1. Clean /\ pc = "idle"
    BY DEF Settled
  <2>2. \A i \in 0 .. iNodeUsed - 1 : i \in Slot /\ i < iNodeUsed /\ i # -1
    BY DEF HeapInv, SafeInv, TypeOK
  <2>3. \A i \in 0 .. iNodeUsed - 1 : heap[i] \in Live
    BY <2>1, <2>2, IdleFacts DEF Live
  <2>4. ASSUME ~ReallocFails, NEW n \in Live
        PROVE  \E i \in 0 .. iNodeUsed - 1 : heap[i] = n
    <3>1. n \in Node /\ fate[n] = "live"
      BY DEF Live
    <3>2. iHeapIndex[n] \in Slot /\ iHeapIndex[n] < iNodeUsed /\ heap[iHeapIndex[n]] = n
      BY <2>1, <2>4, <3>1, IdleFacts
    <3>3. iHeapIndex[n] \in 0 .. iNodeUsed - 1
      BY <3>2 DEF HeapInv, SafeInv, TypeOK
    <3> QED BY <3>2, <3>3
  <2> QED BY <2>3, <2>4
<1> QED BY <1>1, HeapInvariant, PTL
=============================================================================
