---------------------------- MODULE MasterProofs ----------------------------
(***************************************************************************)
(* Proofs about Master, for any finite set of workers and any bounds: the   *)
(* types, and that workers to fork and workers not yet waited for always    *)
(* add up.  The count's lower and upper bound, which are part of the types, *)
(* follow from that balance and not from the guards alone, so the two are   *)
(* proved together.                                                         *)
(***************************************************************************)
EXTENDS Master, FiniteSetTheorems, TLAPS

(* The types without the bounds of iWorkerCount. *)
Shape ==
    /\ master \in {"loop", "term", "fork"} /\ masterTerm \in {"no", "yes"}
    /\ iWorkerCount \in Int
    /\ worker \in [Worker -> {"none", "young", "serving", "zombie"}]
    /\ term \in [Worker -> {"no", "yes"}]
    /\ failures \in 0 .. MaxFailures /\ kills \in 0 .. MaxKills

(* The inductive invariant. *)
Balanced == Shape /\ iWorkerCount \in Nat /\ WorkersBalance

(* The children of main are finitely many, and at most the workers. *)
LEMMA ChildrenFinite ==
    /\ IsFiniteSet(Children)
    /\ Cardinality(Children) \in Nat
    /\ Cardinality(Worker) \in Nat
    /\ Cardinality(Children) <= Cardinality(Worker)
<1>1. IsFiniteSet(Worker)
  BY MasterAssumption
<1>2. Children \subseteq Worker
  BY DEF Children
<1> QED
  BY <1>1, <1>2, FS_Subset, FS_CardinalityType

(* The balance and the shape give the types. *)
LEMMA BalancedTypeOK == Balanced => TypeOK
<1> SUFFICES ASSUME Balanced PROVE TypeOK
  OBVIOUS
<1>1. iWorkerCount \in 0 .. Cardinality(Worker)
  BY ChildrenFinite DEF Balanced, WorkersBalance
<1> QED
  BY <1>1 DEF Balanced, Shape, TypeOK

(* fork makes one child more, and wait one less; both are counted. *)
LEMMA ForkBalanced ==
    ASSUME Balanced, NEW w \in Worker, Fork(w)
    PROVE  Balanced'
<1>1. Shape' /\ iWorkerCount' \in Nat
  BY DEF Balanced, Shape, Fork
<1>2. Children' = Children \cup {w} /\ w \notin Children
  BY DEF Balanced, Shape, Fork, Children
<1>3. Cardinality(Children') = Cardinality(Children) + 1
  BY <1>2, ChildrenFinite, FS_AddElement
<1>4. WorkersBalance'
  BY <1>3, ChildrenFinite, SMT DEF Balanced, Shape, WorkersBalance, Fork
<1> QED
  BY <1>1, <1>4 DEF Balanced

(* wait gives a worker that ended back to be forked. *)
LEMMA WaitBalanced ==
    ASSUME Balanced, NEW w \in Worker, Wait(w)
    PROVE  Balanced'
<1>1. Shape' /\ iWorkerCount' \in Nat
  BY DEF Balanced, Shape, Wait
<1>2. Children' = Children \ {w} /\ w \in Children
  BY DEF Balanced, Shape, Wait, Children
<1>3. Cardinality(Children') = Cardinality(Children) - 1
  BY <1>2, ChildrenFinite, FS_RemoveElement
<1>4. WorkersBalance'
  BY <1>3, ChildrenFinite, SMT DEF Balanced, Shape, WorkersBalance, Wait
<1> QED
  BY <1>1, <1>4 DEF Balanced

(* A worker that was not forked, or not waited for, stays so in every other *)
(* step, whatever it does itself.                                           *)
LEMMA OtherBalanced ==
    ASSUME Balanced, Shape', UNCHANGED iWorkerCount, Children' = Children
    PROVE  Balanced'
BY DEF Balanced, WorkersBalance

(* A worker that begins to serve is the child it was. *)
LEMMA ServeBalanced ==
    ASSUME Balanced, NEW w \in Worker, Serve(w)
    PROVE  Balanced'
<1>1. Shape' /\ UNCHANGED iWorkerCount
  BY DEF Balanced, Shape, Serve
<1>2. Children' = Children
  BY DEF Balanced, Shape, Serve, Children
<1> QED
  BY <1>1, <1>2, OtherBalanced

(* A worker that fails is a child until it is waited for. *)
LEMMA FailBalanced ==
    ASSUME Balanced, NEW w \in Worker, Fail(w)
    PROVE  Balanced'
<1>1. Shape' /\ UNCHANGED iWorkerCount
  BY MasterAssumption DEF Balanced, Shape, Fail
<1>2. Children' = Children
  BY DEF Balanced, Shape, Fail, Children, Alive
<1> QED
  BY <1>1, <1>2, OtherBalanced

(* Stopping the service, and what main does about it, ends no child at      *)
(* once.                                                                    *)
LEMMA SignalsBalanced ==
    ASSUME Balanced, ParentSigHandler \/ StopService \/ ForkFails
    PROVE  Balanced'
<1>1. Shape' /\ UNCHANGED iWorkerCount
  BY DEF Balanced, Shape, ParentSigHandler, StopService, ForkFails, TermGroup
<1>2. Children' = Children
  BY DEF ParentSigHandler, StopService, ForkFails, Children
<1> QED
  BY <1>1, <1>2, OtherBalanced

(* A worker that a signal ends is a child until it is waited for. *)
LEMMA HandlersBalanced ==
    ASSUME Balanced, NEW w \in Worker,
           InheritedSigHandler(w) \/ ChildSigHandler(w) \/ KillWorker(w)
    PROVE  Balanced'
<1>1. Shape' /\ UNCHANGED iWorkerCount
  BY MasterAssumption
  DEF Balanced, Shape, InheritedSigHandler, ChildSigHandler, KillWorker, TermGroup
<1>2. Children' = Children
  BY DEF Balanced, Shape, InheritedSigHandler, ChildSigHandler, KillWorker, Children
<1> QED
  BY <1>1, <1>2, OtherBalanced

(* At the start all workers are to be forked. *)
LEMMA InitBalanced == Init => Balanced
<1> SUFFICES ASSUME Init PROVE Balanced
  OBVIOUS
<1>1. Children = {}
  BY DEF Init, Children
<1>2. Cardinality(Children) = 0
  BY <1>1, FS_EmptySet
<1>3. Shape /\ iWorkerCount \in Nat
  BY ChildrenFinite, MasterAssumption DEF Init, Shape
<1> QED
  BY <1>2, <1>3, ChildrenFinite DEF Init, Balanced, WorkersBalance

(* Every action keeps the balance. *)
LEMMA StepBalanced == Balanced /\ [Next]_vars => Balanced'
<1> SUFFICES ASSUME Balanced, [Next]_vars PROVE Balanced'
  OBVIOUS
<1>1. CASE Next
  BY <1>1, ForkBalanced, WaitBalanced, ServeBalanced, FailBalanced,
     SignalsBalanced, HandlersBalanced, Zenon DEF Next, Run
<1>2. CASE UNCHANGED vars
  BY <1>2 DEF vars, Balanced, Shape, WorkersBalance, Children
<1> QED
  BY <1>1, <1>2

(* Whatever the order of ends, waits, forks and signals, main of src/main.c *)
(* keeps workers to fork and workers not yet waited for in balance.         *)
THEOREM WorkersBalanceHolds == Spec => []WorkersBalance
<1>1. Balanced => WorkersBalance
  BY DEF Balanced
<1> QED
  BY <1>1, InitBalanced, StepBalanced, PTL DEF Spec

(* The state keeps its types; in particular iWorkerCount is never below     *)
(* zero and never above the configured number of workers.                   *)
THEOREM MasterTypeOK == Spec => []TypeOK
BY InitBalanced, StepBalanced, BalancedTypeOK, PTL DEF Spec
=============================================================================
