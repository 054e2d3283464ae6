------------------------- MODULE MinHeapRefinement -------------------------
(***************************************************************************)
(* The heap as a set of timers: the root of the array is its earliest node, *)
(* and MinHeap implements TimerSet.                                         *)
(***************************************************************************)
EXTENDS MinHeapProofs, WellFoundedInduction

USE HeapAssumption DEF HeapAssumption, Slot, Time

(* A nonempty set of naturals has a least element.                          *)
LEMMA LeastElement ==
  ASSUME NEW T, T \subseteq Nat, T # {}
  PROVE  \E x \in T : \A y \in T : x <= y
<1>1. PICK x \in T : \A y \in T : ~(<<y, x>> \in OpToRel(<, Nat))
  BY NatLessThanWellFounded, WFMin, Zenon
<1>2. \A y \in T : ~(y < x)
  <2> SUFFICES ASSUME NEW y \in T, y < x PROVE FALSE
    OBVIOUS
  <2>1. y \in Nat /\ x \in Nat
    OBVIOUS
  <2>2. <<y, x>> \in OpToRel(<, Nat)
    BY <2>1 DEF OpToRel
  <2> QED BY <1>1, <2>2
<1>3. \A y \in T : y \in Int /\ x \in Int
  OBVIOUS
<1> QED BY <1>2, <1>3

(* A heap that is ordered from parent to child is ordered from the root:    *)
(* the first slot that is earlier than the root has an earlier parent.      *)
LEMMA RootIsEarliest ==
  ASSUME HeapInv, Clean, pc = "idle", NEW i \in 0 .. iNodeUsed - 1
  PROVE  /\ heap[0] \in Node /\ heap[i] \in Node
         /\ stTimeout[heap[0]] \in Time /\ stTimeout[heap[i]] \in Time
         /\ stTimeout[heap[0]] <= stTimeout[heap[i]]
<1>1. \A j \in 0 .. iNodeUsed - 1 :
          /\ j \in Slot /\ j < iNodeUsed /\ heap[j] \in Node
          /\ stTimeout[heap[j]] \in Time
  BY IdleFacts DEF HeapInv, SafeInv, TypeOK
<1>2. 0 \in 0 .. iNodeUsed - 1
  BY DEF HeapInv, SafeInv, TypeOK
<1>3. SUFFICES ASSUME ~(stTimeout[heap[0]] <= stTimeout[heap[i]])
               PROVE  FALSE
  BY <1>1, <1>2
<1> DEFINE Early == {j \in 0 .. iNodeUsed - 1 : ~(stTimeout[heap[0]] <= stTimeout[heap[j]])}
<1>4. Early \subseteq Nat /\ Early # {}
  BY <1>3
<1>5. PICK x \in Early : \A y \in Early : x <= y
  BY <1>4, LeastElement
<1>6. x \in 0 .. iNodeUsed - 1 /\ x \in Nat
  BY <1>4
<1>7. x # 0
  BY <1>1, <1>2
<1>8. Parent(x) \in Nat /\ Parent(x) < x /\ HasChild(Parent(x), x)
  BY <1>6, <1>7, ParentChild
<1>9. Parent(x) \in 0 .. iNodeUsed - 1 /\ Parent(x) \notin Early
  BY <1>5, <1>6, <1>8 DEF HeapInv, SafeInv, TypeOK
<1>10. stTimeout[heap[0]] <= stTimeout[heap[Parent(x)]]
  BY <1>9
<1>11. stTimeout[heap[Parent(x)]] <= stTimeout[heap[x]]
  BY <1>1, <1>6, <1>8, <1>9, IdleFacts
<1>12. ~(stTimeout[heap[0]] <= stTimeout[heap[x]])
  OBVIOUS
<1>13. /\ stTimeout[heap[0]] \in Time /\ stTimeout[heap[x]] \in Time
       /\ stTimeout[heap[Parent(x)]] \in Time
  BY <1>1, <1>2, <1>6, <1>9
<1> QED BY <1>10, <1>11, <1>12, <1>13

(* A clock that is never set back: every deadline is at most one interval   *)
(* ahead.                                                                   *)
Ahead == ~StepBack => \A n \in Node : stTimeout[n] <= clock + Interval

(* A deadline is only ever set to one interval from the clock.              *)
LEMMA NextAhead == TypeOK /\ Ahead /\ [Next]_vars => Ahead'
<1> SUFFICES ASSUME TypeOK, Ahead, [Next]_vars, ~StepBack, NEW m \in Node
             PROVE  stTimeout'[m] <= clock' + Interval
  BY DEF Ahead
<1>1. /\ stTimeout \in [Node -> Nat] /\ clock \in Nat /\ Interval \in Nat
      /\ stTimeout[m] <= clock + Interval
  BY DEF TypeOK, Ahead
<1>2. CASE UNCHANGED <<stTimeout, clock>>
  BY <1>1, <1>2
<1>3. CASE RefreshClock
  <2>1. clock' \in Nat /\ clock' > clock /\ stTimeout' = stTimeout
    BY <1>3 DEF RefreshClock
  <2> QED BY <1>1, <2>1
<1>4. ASSUME NEW n \in Node, RegisterNew(n) \/ Reregister(n)
      PROVE  stTimeout'[m] <= clock' + Interval
  <2>1. stTimeout' = [stTimeout EXCEPT ![n] = clock + Interval] /\ clock' = clock
    BY <1>4 DEF RegisterNew, Reregister
  <2>2. stTimeout'[m] = clock + Interval \/ stTimeout'[m] = stTimeout[m]
    BY <1>1, <2>1
  <2> QED BY <1>1, <2>1, <2>2
<1>5. \/ UNCHANGED <<stTimeout, clock>> \/ RefreshClock
      \/ \E n \in Node : RegisterNew(n) \/ Reregister(n)
  BY DEF Next, vars, Unregister, PopExpired, ShiftUpStep, FinishPush, FinishEraseUp,
         ShiftDownStep, FinishDown
<1> QED BY <1>2, <1>3, <1>4, <1>5

(* Milliseconds rounded up: at least d, and by less than one more.          *)
LEMMA RoundsUp ==
  ASSUME NEW d \in Nat, NEW u \in Nat \ {0}
  PROVE  LET q == (d + u - 1) \div u
         IN  /\ q \in Nat
             /\ d <= q * u /\ q * u < d + u
<1> DEFINE n == d + u - 1
           q == n \div u
<1>1. n \in Nat /\ q \in Int
  OBVIOUS
<1>2. n = u * q + (n % u) /\ n % u \in 0 .. u - 1
  BY <1>1
<1>3. u * q = q * u
  BY <1>1
<1>4. d <= q * u /\ q * u < d + u
  BY <1>1, <1>2, <1>3
<1>5. q >= 0
  BY <1>1
<1> QED BY <1>1, <1>4, <1>5

(* A number of milliseconds below 2^31 goes through the int unchanged.      *)
LEMMA FitsInt ==
  ASSUME NEW q \in Nat, q <= IntHalf - 1
  PROVE  ToInt(q) = q
<1> USE WaitAssumption DEF WaitAssumption
<1>1. q + IntHalf \in 0 .. 2 * IntHalf - 1
  OBVIOUS
<1>2. (q + IntHalf) % (2 * IntHalf) = q + IntHalf
  BY <1>1
<1> QED BY <1>2 DEF ToInt

(* Until an erase takes its ShiftUp branch, epoll_wait sleeps to the        *)
(* earliest deadline, rounded up to a millisecond, although only the root   *)
(* is looked at: with a clock that is never set back always, and else while *)
(* a timer is Near.                                                         *)
THEOREM WaitIsExactHolds == Spec => []WaitIsExact
<1>1. HeapInv /\ Ahead => WaitIsExact
  <2> USE WaitAssumption DEF WaitAssumption
  <2> DEFINE top  == stTimeout[heap[0]]
             d    == top - clock
             q    == (d + UsecPerMs - 1) \div UsecPerMs
             wake == clock + EpollTimeout * UsecPerMs
  <2> SUFFICES ASSUME HeapInv, Ahead, Settled, iNodeUsed # 0, StepBack => Near
               PROVE  /\ EpollTimeout >= 0
                      /\ \E i \in 0 .. iNodeUsed - 1 : stTimeout[heap[i]] <= wake
                      /\ EpollTimeout > 0 => \A i \in 0 .. iNodeUsed - 1 :
                                                wake < stTimeout[heap[i]] + UsecPerMs
    BY DEF WaitIsExact
  <2>1. clock \in Nat /\ iNodeUsed \in Nat /\ 0 \in 0 .. iNodeUsed - 1
        /\ UsecPerMs \in Nat \ {0}
    BY DEF HeapInv, SafeInv, TypeOK
  <2>2. \A i \in 0 .. iNodeUsed - 1 :
            /\ heap[0] \in Node /\ top \in Nat /\ stTimeout[heap[i]] \in Nat
            /\ top <= stTimeout[heap[i]]
    BY RootIsEarliest DEF Settled
  <2>3. CASE clock > top
    <3>1. EpollTimeout = 0
      BY <2>1, <2>3 DEF EpollTimeout
    <3> QED BY <2>1, <2>2, <2>3, <3>1
  <2>4. CASE ~(clock > top)
    <3>1. d \in Nat /\ q \in Nat /\ d <= q * UsecPerMs
          /\ q * UsecPerMs < d + UsecPerMs
      <4>1. d \in Nat
        BY <2>1, <2>2, <2>4
      <4> HIDE DEF d
      <4> QED BY <2>1, <4>1, RoundsUp
    <3>2. d <= (IntHalf - 1) * UsecPerMs
      <4>1. (IntHalf - 1) * UsecPerMs \in Int
        OBVIOUS
      <4>2. CASE StepBack
        BY <2>1, <2>2, <4>1, <4>2 DEF Near
      <4>3. CASE ~StepBack
        BY <2>1, <2>2, <4>1, <4>3 DEF Ahead
      <4> QED BY <4>2, <4>3
    <3>3. q <= IntHalf - 1
      <4> SUFFICES ASSUME q >= IntHalf PROVE FALSE
        BY <3>1
      <4>1. q * UsecPerMs >= IntHalf * UsecPerMs
        BY <2>1, <3>1
      <4>2. (IntHalf - 1) * UsecPerMs + UsecPerMs = IntHalf * UsecPerMs
        BY <2>1
      <4>3. d + UsecPerMs <= IntHalf * UsecPerMs
        BY <2>1, <3>1, <3>2, <4>2
      <4> HIDE DEF q, d
      <4> QED BY <2>1, <3>1, <4>1, <4>3
    <3>4. EpollTimeout = q
      BY <2>1, <2>4, <3>1, <3>3, FitsInt DEF EpollTimeout
    <3>5. top <= clock + q * UsecPerMs /\ clock + q * UsecPerMs < top + UsecPerMs
      BY <2>1, <2>2, <3>1
    <3>6. wake = clock + q * UsecPerMs /\ EpollTimeout >= 0
      BY <3>1, <3>4
    <3>7. q * UsecPerMs \in Nat
      BY <2>1, <3>1
    <3> HIDE DEF q, wake
    <3>8. top <= wake /\ wake < top + UsecPerMs /\ wake \in Nat
      BY <2>1, <3>5, <3>6, <3>7
    <3> HIDE DEF top
    <3>9. ASSUME NEW i \in 0 .. iNodeUsed - 1 PROVE wake < stTimeout[heap[i]] + UsecPerMs
      BY <2>1, <2>2, <3>8
    <3>10. \E i \in 0 .. iNodeUsed - 1 : stTimeout[heap[i]] <= wake
      BY <2>1, <3>8 DEF top
    <3> QED BY <3>6, <3>9, <3>10
  <2> QED BY <2>3, <2>4
<1>2. Init => Ahead
  BY DEF Init, Ahead
<1>3. HeapInv => TypeOK
  BY DEF HeapInv, SafeInv
<1>4. Spec => []Ahead
  BY <1>2, <1>3, NextAhead, HeapInvariant, PTL DEF Spec
<1> QED BY <1>1, <1>4, HeapInvariant, PTL

(***************************************************************************)
(* Refinement.  A removal remembers why it runs: a pop removes a due timer  *)
(* no armed timer precedes, a re-registration a node whose timeout is the   *)
(* new one.                                                                 *)
(***************************************************************************)
Armed == {n \in Node : iHeapIndex[n] # -1}

(* Why a removal runs, as long as the heap is clean. *)
ReasonInv ==
    Clean => /\ oper = "pop" =>
                    /\ stTimeout[target] <= clock
                    /\ \A n \in Armed : stTimeout[target] <= stTimeout[n]
             /\ after = "push" => oper = "erase" /\ stTimeout[target] = clock + Interval
             /\ oper = "pop" => after = "free"

(* The invariant under which a step of the heap is one of the timer set. *)
RefInv == HeapInv /\ ReasonInv

(* The empty heap is the empty set of timers.                               *)
LEMMA InitRef == Init => RefInv /\ Abs!Init
<1> SUFFICES ASSUME Init PROVE RefInv /\ Abs!Init
  OBVIOUS
<1>1. HeapInv
  BY InitHeap
<1>2. ReasonInv
  BY DEF Init, ReasonInv
<1>3. {n \in Node : iHeapIndex[n] # -1} = {}
  BY DEF Init
<1>4. (~Clean) = FALSE
  BY DEF Init, Clean
<1>5. Abs!Init
  BY <1>3, <1>4 DEF Init, Abs!Init
<1> QED BY <1>1, <1>2, <1>5 DEF RefInv

(* The abstract variables do not change when the armed set does not. *)
LEMMA Stutter ==
  ASSUME Armed' = Armed, UNCHANGED <<stTimeout, fate, clock>>, Clean, Clean'
  PROVE  UNCHANGED Abs!vars
  BY DEF Armed, Abs!vars, Clean

(* gettimeofday is a step of the clock of the set of timers.                *)
LEMMA RefreshClockRef ==
  ASSUME RefInv, Clean, Clean', RefreshClock
  PROVE  ReasonInv' /\ Abs!Next
<1>1. /\ clock' \in 0 .. MaxClock /\ pc = "idle"
      /\ UNCHANGED <<iHeapIndex, stTimeout, fate, oper, after, target>>
  BY DEF RefreshClock, Idle, heapVars, loopVars
<1>2. oper = "none" /\ target = NULL
  BY <1>1 DEF RefInv, HeapInv, CleanInv, Running
<1>3. after # "push"
  BY <1>2 DEF RefInv, ReasonInv
<1>4. ReasonInv'
  BY <1>1, <1>2, <1>3 DEF ReasonInv
<1>5. Abs!Clock
  BY <1>1 DEF Abs!Clock, Clean
<1> QED BY <1>4, <1>5 DEF Abs!Next

(* A new connection opens, not armed yet.                                   *)
LEMMA RegisterNewRef ==
  ASSUME RefInv, Clean, Clean', NEW n \in Node, RegisterNew(n)
  PROVE  ReasonInv' /\ Abs!Next
<1>1. /\ pc = "idle" /\ fate[n] # "live" /\ StartPush(n, iNodeUsed)
      /\ iHeapIndex' = [iHeapIndex EXCEPT ![n] = -1]
      /\ fate' = [fate EXCEPT ![n] = "live"]
      /\ stTimeout' = [stTimeout EXCEPT ![n] = clock + Interval]
      /\ UNCHANGED clock
  BY DEF RegisterNew, Idle
<1>2. iHeapIndex[n] = -1 /\ iHeapIndex' = iHeapIndex
  BY <1>1, IdleFacts DEF RefInv, HeapInv, SafeInv, TypeOK
<1>3. ReasonInv'
  BY <1>1 DEF StartPush, StopLoop, ReasonInv
<1>4. Abs!Open(n)
  BY <1>1, <1>2 DEF Abs!Open, Clean
<1> QED BY <1>3, <1>4 DEF Abs!Next

(* RegisterTimerOutEvent moves a deadline of the set of timers.             *)
LEMMA ReregisterRef ==
  ASSUME RefInv, Clean, Clean', NEW n \in Node, Reregister(n)
  PROVE  ReasonInv' /\ Abs!Next
<1>1. /\ fate[n] = "live" /\ UNCHANGED <<iHeapIndex, fate, clock>>
      /\ stTimeout' = [stTimeout EXCEPT ![n] = clock + Interval]
  BY DEF Reregister
<1>2. stTimeout'[n] = clock + Interval
  BY <1>1 DEF RefInv, HeapInv, SafeInv, TypeOK
<1>3. \/ oper' \in {"none", "push"} /\ after' = "none"
      \/ oper' = "erase" /\ target' = n
  BY DEF Reregister, StartPush, StartErase, StopLoop
<1>4. ReasonInv'
  BY <1>1, <1>2, <1>3 DEF ReasonInv
<1>5. Abs!Touch(n)
  BY <1>1 DEF Abs!Touch, Clean
<1> QED BY <1>4, <1>5 DEF Abs!Next

(* Closing a connection without a timer closes it in the set; with one,     *)
(* nothing changes there until the erase ends.                              *)
LEMMA UnregisterRef ==
  ASSUME RefInv, Clean, Clean', NEW n \in Node, Unregister(n)
  PROVE  ReasonInv' /\ [Abs!Next]_Abs!vars
<1>1. /\ fate[n] = "live" /\ UNCHANGED <<iHeapIndex, stTimeout, clock>>
  BY DEF Unregister, heapVars
<1>2. CASE iHeapIndex[n] = -1
  <2>1. /\ fate' = [fate EXCEPT ![n] = "closed"]
        /\ UNCHANGED <<oper, after, target>>
    BY <1>2 DEF Unregister, loopVars
  <2>2. ReasonInv'
    BY <1>1, <2>1 DEF RefInv, ReasonInv, Clean, Armed
  <2>3. {m \in Node : iHeapIndex'[m] # -1} = {m \in Node : iHeapIndex[m] # -1} \ {n}
    BY <1>1, <1>2
  <2>4. Abs!Close(n)
    BY <1>1, <2>1, <2>3 DEF Abs!Close, Clean
  <2> QED BY <2>2, <2>4 DEF Abs!Next
<1>3. CASE iHeapIndex[n] # -1
  <2>1. oper' = "erase" /\ after' = "free" /\ UNCHANGED fate
    BY <1>3 DEF Unregister, StartErase
  <2>2. ReasonInv'
    BY <2>1 DEF ReasonInv
  <2>3. Armed' = Armed
    BY <1>1 DEF Armed
  <2> QED BY <1>1, <2>1, <2>2, <2>3, Stutter
<1> QED BY <1>2, <1>3

(* MinheapPop takes the root, which is due and the earliest; nothing        *)
(* changes in the set until the pop ends.                                   *)
LEMMA PopExpiredRef ==
  ASSUME RefInv, Clean, Clean', PopExpired
  PROVE  ReasonInv' /\ UNCHANGED Abs!vars
<1>1. /\ pc = "idle" /\ stTimeout[heap[0]] <= clock /\ target' = heap[0]
      /\ oper' = "pop" /\ after' = "free"
      /\ UNCHANGED <<iHeapIndex, stTimeout, fate, clock>>
  BY DEF PopExpired, Idle, heapVars
<1>2. ASSUME NEW n \in Armed PROVE stTimeout[heap[0]] <= stTimeout[n]
  <2>1. n \in Node /\ iHeapIndex[n] # -1
    BY DEF Armed
  <2>2. /\ iHeapIndex[n] \in Slot /\ iHeapIndex[n] < iNodeUsed
        /\ heap[iHeapIndex[n]] = n
    BY <1>1, <2>1, IdleFacts DEF RefInv
  <2>3. iHeapIndex[n] \in 0 .. iNodeUsed - 1
    BY <2>2 DEF RefInv, HeapInv, SafeInv, TypeOK
  <2> QED BY <1>1, <2>2, <2>3, RootIsEarliest DEF RefInv
<1>3. Armed' = Armed
  BY <1>1 DEF Armed
<1>4. ReasonInv'
  BY <1>1, <1>2, <1>3 DEF ReasonInv
<1> QED BY <1>1, <1>3, <1>4, Stutter

(* An iteration of __MinheapShiftUp changes nothing in the set of timers.   *)
LEMMA ShiftUpStepRef ==
  ASSUME RefInv, Clean, Clean', ShiftUpStep
  PROVE  ReasonInv' /\ UNCHANGED Abs!vars
<1>1. /\ pc = "up" /\ oper = "push" /\ uHoleIndex # 0
      /\ iHeapIndex' = [iHeapIndex EXCEPT ![heap[Parent(uHoleIndex)]] = uHoleIndex]
      /\ UNCHANGED <<stTimeout, fate, clock, oper, after, target>>
  BY DEF ShiftUpStep, MustRise, RefInv, HeapInv, CleanInv, Running
<1>2. uHoleIndex \in Slot /\ uHoleIndex <= iNodeUsed
      /\ iHeapIndex \in [Node -> -1 .. MaxUsed - 1] /\ iNodeUsed \in Nat
  BY <1>1 DEF RefInv, HeapInv, SafeInv, TypeOK, CleanInv, Running
<1>3. Parent(uHoleIndex) \in Slot /\ Parent(uHoleIndex) < uHoleIndex
  BY <1>1, <1>2, ParentChild
<1>4. Held(Parent(uHoleIndex))
  BY <1>1, <1>2, <1>3 DEF Held, Size
<1>5. iHeapIndex[heap[Parent(uHoleIndex)]] = Parent(uHoleIndex)
      /\ heap[Parent(uHoleIndex)] \in Node
  BY <1>3, <1>4 DEF RefInv, HeapInv, CleanInv, Placed
<1>6. Armed' = Armed
  BY <1>1, <1>2, <1>3, <1>5 DEF Armed
<1>7. ReasonInv'
  BY <1>1 DEF RefInv, ReasonInv
<1> QED BY <1>1, <1>6, <1>7, Stutter

(* An iteration of __MinheapShiftDown changes nothing in the set of timers. *)
LEMMA ShiftDownStepRef ==
  ASSUME RefInv, Clean, Clean', ShiftDownStep
  PROVE  ReasonInv' /\ UNCHANGED Abs!vars
<1> DEFINE m == MinChild
<1>1. /\ pc = "down" /\ 2 * (uHoleIndex + 1) <= iNodeUsed
      /\ iHeapIndex' = [iHeapIndex EXCEPT ![heap[m]] = uHoleIndex]
      /\ UNCHANGED <<stTimeout, fate, clock, oper, after, target>>
  BY DEF ShiftDownStep, MustSink
<1>2. /\ uHoleIndex \in Slot /\ oper # "push"
      /\ iHeapIndex \in [Node -> -1 .. MaxUsed - 1] /\ iNodeUsed \in 0 .. MaxUsed
  BY <1>1 DEF RefInv, HeapInv, SafeInv, TypeOK, CleanInv, Running
<1>3. m \in Slot /\ m < iNodeUsed /\ m # uHoleIndex
  BY <1>1, <1>2 DEF MinChild
<1>4. Held(m)
  BY <1>1, <1>2, <1>3 DEF Held, Size
<1>5. iHeapIndex[heap[m]] = m /\ heap[m] \in Node
  BY <1>3, <1>4 DEF RefInv, HeapInv, CleanInv, Placed
<1>6. Armed' = Armed
  BY <1>1, <1>2, <1>3, <1>5 DEF Armed
<1>7. ReasonInv'
  BY <1>1, <1>6 DEF RefInv, ReasonInv
<1> QED BY <1>1, <1>6, <1>7, Stutter

(* The end of MinHeapPush arms the timer.                                   *)
LEMMA FinishPushRef ==
  ASSUME RefInv, Clean, Clean', FinishPush
  PROVE  ReasonInv' /\ Abs!Next
<1>1. /\ oper' = "none" /\ after' = "none"
      /\ iHeapIndex' = [iHeapIndex EXCEPT ![item] = uHoleIndex]
      /\ UNCHANGED <<stTimeout, fate, clock>>
  BY DEF FinishPush, StopLoop
<1>2. /\ item \in Node /\ fate[item] = "live" /\ iHeapIndex[item] = -1
      /\ uHoleIndex \in Slot /\ iHeapIndex \in [Node -> -1 .. MaxUsed - 1]
  BY DEF FinishPush, RefInv, HeapInv, SafeInv, TypeOK, CleanInv, Running
<1>3. ReasonInv'
  BY <1>1 DEF ReasonInv
<1>4. {n \in Node : iHeapIndex'[n] # -1} = {n \in Node : iHeapIndex[n] # -1} \cup {item}
  BY <1>1, <1>2
<1>5. PICK n \in Node : n = item
  BY <1>2
<1>6. Abs!Arm(n)
  BY <1>1, <1>2, <1>4, <1>5 DEF Abs!Arm, Clean
<1> QED BY <1>3, <1>6 DEF Abs!Next

(* The end of a removal disarms, closes or expires the timer.               *)
LEMMA FinishDownRef ==
  ASSUME RefInv, Clean, Clean', FinishDown
  PROVE  ReasonInv' /\ Abs!Next
<1>1. /\ target \in Node /\ fate[target] = "live"
      /\ iHeapIndex[target] # -1
      /\ item \in Node /\ fate[item] = "live" /\ iHeapIndex[item] # -1
      /\ oper \in {"erase", "pop"} /\ UNCHANGED <<stTimeout, clock>>
      /\ uHoleIndex \in Slot /\ iHeapIndex \in [Node -> -1 .. MaxUsed - 1]
      /\ iHeapIndex' = [iHeapIndex EXCEPT ![item] = uHoleIndex, ![target] = -1]
  <2>1. /\ pc = "down" /\ UNCHANGED <<stTimeout, clock>>
        /\ iHeapIndex' = [iHeapIndex EXCEPT ![item] = uHoleIndex, ![target] = -1]
    BY DEF FinishDown
  <2>2. /\ oper \in {"erase", "pop"} /\ target \in Node /\ item \in Node
        /\ iHeapIndex[target] # -1 /\ uHoleIndex < iNodeUsed
        /\ uHoleIndex = iNodeUsed - 1 => item = target
        /\ uHoleIndex # iNodeUsed - 1 => heap[iNodeUsed - 1] = item
    BY <2>1 DEF RefInv, HeapInv, CleanInv, Running
  <2>3. /\ uHoleIndex \in Slot /\ iHeapIndex \in [Node -> -1 .. MaxUsed - 1]
        /\ iNodeUsed \in 1 .. MaxUsed
    BY <2>2 DEF RefInv, HeapInv, SafeInv, TypeOK
  <2>4. iHeapIndex[item] # -1
    <3>1. CASE uHoleIndex = iNodeUsed - 1
      BY <2>2, <3>1
    <3>2. CASE uHoleIndex # iNodeUsed - 1
      <4>1. iNodeUsed - 1 \in Slot /\ Held(iNodeUsed - 1)
        BY <2>1, <2>2, <2>3, <3>2 DEF Held, Size
      <4>2. iHeapIndex[item] = iNodeUsed - 1
        BY <2>2, <3>2, <4>1 DEF RefInv, HeapInv, CleanInv, Placed
      <4> QED BY <2>3, <4>2
    <3> QED BY <3>1, <3>2
  <2>5. fate[target] = "live" /\ fate[item] = "live"
    BY <2>2, <2>4 DEF RefInv, HeapInv, CleanInv, Owned
  <2> QED BY <2>1, <2>2, <2>3, <2>4, <2>5
<1>2. {k \in Node : iHeapIndex'[k] # -1} = {k \in Node : iHeapIndex[k] # -1} \ {target}
  BY <1>1
<1> PICK n \in Node : n = target
  BY <1>1
<1>3. CASE after = "push"
  <2>1. oper = "erase" /\ stTimeout[target] = clock + Interval
    BY <1>3 DEF RefInv, ReasonInv
  <2>2. UNCHANGED fate /\ oper' \in {"none", "push"} /\ after' = "none"
    BY <1>3 DEF FinishDown, Continue, StartPush, StopLoop
  <2>3. ReasonInv'
    BY <2>2 DEF ReasonInv
  <2>4. Abs!Disarm(n)
    BY <1>1, <1>2, <2>1, <2>2 DEF Abs!Disarm, Clean
  <2> QED BY <1>1, <2>3, <2>4 DEF Abs!Next
<1>4. CASE after = "free"
  <2>1. /\ fate' = [fate EXCEPT ![target] =
                        IF oper = "pop" THEN "expired" ELSE "closed"]
        /\ oper' = "none" /\ after' = "none"
    BY <1>4 DEF FinishDown, Continue, StopLoop
  <2>2. ReasonInv'
    BY <2>1 DEF ReasonInv
  <2>3. CASE oper = "pop"
    <3>1. /\ stTimeout[target] <= clock
          /\ \A k \in {j \in Node : iHeapIndex[j] # -1} :
                 stTimeout[target] <= stTimeout[k]
      BY <2>3 DEF RefInv, ReasonInv, Armed
    <3>2. Abs!Expire(n)
      BY <1>1, <1>2, <2>1, <2>3, <3>1 DEF Abs!Expire, Clean
    <3> QED BY <1>1, <2>2, <3>2 DEF Abs!Next
  <2>4. CASE oper # "pop"
    <3>1. Abs!Close(n)
      BY <1>1, <1>2, <2>1, <2>4 DEF Abs!Close, Clean
    <3> QED BY <1>1, <2>2, <3>1 DEF Abs!Next
  <2> QED BY <2>3, <2>4
<1> QED BY <1>3, <1>4 DEF FinishDown, Continue

(* Every step of the heap is a step of the set of timers or changes nothing *)
(* in it.                                                                   *)
LEMMA NextRef == RefInv /\ [Next]_vars => RefInv' /\ [Abs!Next]_Abs!vars
<1> SUFFICES ASSUME RefInv, [Next]_vars PROVE RefInv' /\ [Abs!Next]_Abs!vars
  OBVIOUS
<1>1. HeapInv'
  BY NextHeap DEF RefInv
<1>2. CASE ~Clean'
  <2>1. ReasonInv'
    BY <1>2 DEF ReasonInv
  <2>2. Abs!Havoc
    BY <1>2 DEF Abs!Havoc
  <2> QED BY <1>1, <2>1, <2>2 DEF RefInv, Abs!Next
<1>3. CASE Clean'
  <2>1. Clean
    BY <1>3, CleanBefore DEF RefInv
  <2>2. ASSUME UNCHANGED vars PROVE ReasonInv' /\ UNCHANGED Abs!vars
    <3>1. UNCHANGED <<iHeapIndex, stTimeout, fate, clock, oper, after, target, history>>
      BY <2>2 DEF vars, heapVars, loopVars
    <3>2. Armed' = Armed
      BY <3>1 DEF Armed
    <3>3. ReasonInv'
      BY <3>1, <3>2 DEF RefInv, ReasonInv, Clean
    <3> QED BY <1>3, <2>1, <3>1, <3>2, <3>3, Stutter
  <2>3. ASSUME Next PROVE ReasonInv' /\ [Abs!Next]_Abs!vars
    <3>1. HeapInv
      BY DEF RefInv
    <3> QED
      BY <1>3, <2>1, <2>3, <3>1, RefreshClockRef, RegisterNewRef, ReregisterRef,
         UnregisterRef, PopExpiredRef, ShiftUpStepRef, FinishPushRef, NoEraseUp,
         ShiftDownStepRef, FinishDownRef DEF Next
  <2> QED BY <1>1, <2>2, <2>3 DEF RefInv
<1> QED BY <1>2, <1>3

(* The heap implements the set of timers, for every number of nodes: until  *)
(* an erase takes its ShiftUp branch, a connection is expired only when its *)
(* timer is due and no armed timer is earlier, and arming, re-arming and    *)
(* closing one connection never touches another one's timer.                *)
THEOREM Refinement == Spec => ImplementsTimerSet
<1>1. Init => RefInv /\ Abs!Init
  BY InitRef
<1>2. RefInv /\ [Next]_vars => RefInv' /\ [Abs!Next]_Abs!vars
  BY NextRef
<1> QED BY <1>1, <1>2, PTL DEF Spec, Abs!Spec, ImplementsTimerSet
=============================================================================
