------------------------------- MODULE Master -------------------------------
(***************************************************************************)
(* The processes: main of src/main.c, which forks the workers, waits for    *)
(* them and replaces the ones that end, and the two SIGTERM handlers.  What *)
(* a worker does while it serves is the module Reactor; here it serves      *)
(* until it ends by itself or is told to.                                   *)
(***************************************************************************)
EXTENDS Integers, FiniteSets

CONSTANTS Worker,       \* process identifiers of workers
          MaxFailures,  \* bound: workers that end by themselves
          MaxKills      \* bound: workers an operator terminates

ASSUME MasterAssumption ==
    /\ IsFiniteSet(Worker) /\ Worker # {}
    /\ MaxFailures \in Nat /\ MaxKills \in Nat

VARIABLES master,       \* "loop", or how it ended: "term", "fork"
          masterTerm,   \* "no", "yes": SIGTERM is pending for it
          iWorkerCount, \* workers still to fork
          worker,       \* per worker: "none", "young" (it still has
                        \* ParentSigHandler), "serving", "zombie"
          term,         \* per worker: "no", "yes"
          failures,
          kills

vars == <<master, masterTerm, iWorkerCount, worker, term, failures, kills>>

Alive == {w \in Worker : worker[w] \in {"young", "serving"}}
Children == {w \in Worker : worker[w] # "none"}

Init ==
    /\ master = "loop" /\ masterTerm = "no"
    /\ iWorkerCount = Cardinality(Worker)
    /\ worker = [w \in Worker |-> "none"]
    /\ term = [w \in Worker |-> "no"]
    /\ failures = 0 /\ kills = 0

(***************************************************************************)
(* The loop of main.                                                       *)
(***************************************************************************)

(* Mutant: the fork is not counted. *)
Fork_NotCounted(w) ==
    /\ master = "loop" /\ iWorkerCount > 0 /\ worker[w] = "none"
    /\ worker' = [worker EXCEPT ![w] = "young"]
    /\ UNCHANGED <<master, masterTerm, iWorkerCount, term, failures, kills>>

Fork(w) ==
    /\ master = "loop" /\ iWorkerCount > 0 /\ worker[w] = "none"
    /\ worker' = [worker EXCEPT ![w] = "young"]
    /\ iWorkerCount' = iWorkerCount - 1
    /\ UNCHANGED <<master, masterTerm, term, failures, kills>>

(* main returns; nobody is told. *)
ForkFails ==
    /\ master = "loop" /\ iWorkerCount > 0
    /\ master' = "fork"
    /\ UNCHANGED <<masterTerm, iWorkerCount, worker, term, failures, kills>>

(* Mutant: a worker that ended is counted down. *)
Wait_Down(w) ==
    /\ master = "loop" /\ iWorkerCount <= 0 /\ worker[w] = "zombie"
    /\ worker' = [worker EXCEPT ![w] = "none"]
    /\ term' = [term EXCEPT ![w] = "no"]
    /\ iWorkerCount' = iWorkerCount - 1
    /\ UNCHANGED <<master, masterTerm, failures, kills>>

(* wait returns a worker that ended.  It could only fail without any child, *)
(* which WorkersBalance excludes.                                           *)
Wait(w) ==
    /\ master = "loop" /\ iWorkerCount <= 0 /\ worker[w] = "zombie"
    /\ worker' = [worker EXCEPT ![w] = "none"]
    /\ term' = [term EXCEPT ![w] = "no"]
    /\ iWorkerCount' = iWorkerCount + 1
    /\ UNCHANGED <<master, masterTerm, failures, kills>>

(***************************************************************************)
(* A worker: from fork to its own handler and loop, and its end.           *)
(***************************************************************************)

Serve(w) ==
    /\ worker[w] = "young" /\ term[w] = "no"
    /\ worker' = [worker EXCEPT ![w] = "serving"]
    /\ UNCHANGED <<master, masterTerm, iWorkerCount, term, failures, kills>>

(* No log file, no event base, or an exit of the reactor. *)
Fail(w) ==
    /\ w \in Alive /\ failures < MaxFailures
    /\ worker' = [worker EXCEPT ![w] = "zombie"]
    /\ failures' = failures + 1
    /\ UNCHANGED <<master, masterTerm, iWorkerCount, term, kills>>

(***************************************************************************)
(* Signals.  A handler logs before it acts; its step here is what it does   *)
(* after the line.  The line may wait for ever, so the step may never come: *)
(* ServerLog has the line, and says when it comes.  No fairness is assumed  *)
(* here.                                                                    *)
(***************************************************************************)

(* kill(0, SIGTERM) by a process that then exits. *)
TermGroup(sender) ==
    term' = [w \in Worker |-> IF w \in Alive \ {sender} THEN "yes" ELSE term[w]]

(* Mutant: the master exits without telling the workers. *)
ParentSigHandler_Silent ==
    /\ master = "loop" /\ masterTerm = "yes"
    /\ master' = "term" /\ masterTerm' = "no"
    /\ UNCHANGED <<iWorkerCount, worker, term, failures, kills>>

(* ParentSigHandler in the master. *)
ParentSigHandler ==
    /\ master = "loop" /\ masterTerm = "yes"
    /\ TermGroup("master")
    /\ master' = "term" /\ masterTerm' = "no"
    /\ UNCHANGED <<iWorkerCount, worker, failures, kills>>

(* ParentSigHandler in a worker that has not replaced it yet. *)
InheritedSigHandler(w) ==
    /\ worker[w] = "young" /\ term[w] = "yes"
    /\ TermGroup(w)
    /\ masterTerm' = IF master = "loop" THEN "yes" ELSE "no"
    /\ worker' = [worker EXCEPT ![w] = "zombie"]
    /\ UNCHANGED <<master, iWorkerCount, failures, kills>>

ChildSigHandler(w) ==
    /\ worker[w] = "serving" /\ term[w] = "yes"
    /\ worker' = [worker EXCEPT ![w] = "zombie"]
    /\ UNCHANGED <<master, masterTerm, iWorkerCount, term, failures, kills>>

(* An operator stops the service, or terminates one worker. *)
StopService ==
    /\ master = "loop"
    /\ masterTerm' = "yes"
    /\ UNCHANGED <<master, iWorkerCount, worker, term, failures, kills>>

KillWorker(w) ==
    /\ w \in Alive /\ kills < MaxKills
    /\ term' = [term EXCEPT ![w] = "yes"]
    /\ kills' = kills + 1
    /\ UNCHANGED <<master, masterTerm, iWorkerCount, worker, failures>>

(* Steps the processes take of themselves. *)
Run ==
    \/ ParentSigHandler
    \/ \E w \in Worker : \/ Fork(w) \/ Wait(w) \/ Serve(w)
                         \/ InheritedSigHandler(w) \/ ChildSigHandler(w)

Next ==
    \/ Run
    \/ ForkFails \/ StopService
    \/ \E w \in Worker : Fail(w) \/ KillWorker(w)

Spec == Init /\ [][Next]_vars

(***************************************************************************)
(* Properties.                                                             *)
(***************************************************************************)

(* The types of the state. *)
TypeOK ==
    /\ master \in {"loop", "term", "fork"} /\ masterTerm \in {"no", "yes"}
    /\ iWorkerCount \in 0 .. Cardinality(Worker)
    /\ worker \in [Worker -> {"none", "young", "serving", "zombie"}]
    /\ term \in [Worker -> {"no", "yes"}]
    /\ failures \in 0 .. MaxFailures /\ kills \in 0 .. MaxKills

(* Workers to fork and workers not yet waited for always add up to the      *)
(* configured number, so that wait has a child to wait for and main never   *)
(* forks one too many, whatever the order of ends, waits and forks.         *)
WorkersBalance == iWorkerCount + Cardinality(Children) = Cardinality(Worker)
=============================================================================
