--------------------------- MODULE ServerLogProofs ---------------------------
(***************************************************************************)
(* Proofs about ServerLog, for any finite set of workers: the processes     *)
(* with their logs implement Master, and whatever step SIGTERM, an end of a *)
(* worker or a turn of main falls on, a serving worker has its own log and  *)
(* no other, and the handle is whole between lock and unlock.               *)
(***************************************************************************)
EXTENDS ServerLog, FiniteSetTheorems, TLAPS

(***************************************************************************)
(* The processes are those of Master.                                      *)
(***************************************************************************)

(* Every step with a log is a step of Master or leaves its state alone. *)
LEMMA StepOfMaster == [Next]_vars => [M!Next]_M!vars
<1> SUFFICES ASSUME Next PROVE M!Next \/ UNCHANGED processVars
  BY DEF vars, processVars, M!vars
<1> USE DEF M!Next, M!Run
<1>1. CASE MasterRuns
  BY <1>1 DEF MasterRuns, Format, Lock, Unlock, Write, Fork, Wait, ForkFails,
     HandlerLogs, ParentSigHandler
<1>2. CASE ForkError \/ StopService
  BY <1>2 DEF ForkError, StopService
<1>3. ASSUME NEW w \in Worker, WorkerRuns(w)
      PROVE  M!Next \/ UNCHANGED processVars
  BY <1>3 DEF WorkerRuns, Format, Lock, Unlock, Write, DestroyMutex, CloseLog, FreeHandle,
     ForgetHandle, MallocHandle, InitHandle, OpenLog, Install, HandlerLogs,
     InheritedSigHandler, ChildSigHandler
<1>4. ASSUME NEW w \in Worker, LogMsg(w) \/ Fail(w) \/ KillWorker(w)
      PROVE  M!Next \/ UNCHANGED processVars
  BY <1>4 DEF LogMsg, Fail, KillWorker
<1> QED
  BY <1>1, <1>2, <1>3, <1>4 DEF Next

(* The processes of src/main.c with their logs behave as Master says: the   *)
(* lines and the change of the log in a worker only delay them.             *)
THEOREM ImplementsMaster == Spec => M!Spec
<1>1. Init => M!Init
  BY DEF Init
<1> QED
  BY <1>1, StepOfMaster, PTL DEF Spec, M!Spec

(* The state of Master, and its balance of workers.  Cardinality is taken   *)
(* as Master sees it, M!Cardinality, and is the same.                       *)
Processes ==
    /\ master \in {"loop", "term", "fork"} /\ masterTerm \in {"no", "yes"}
    /\ iWorkerCount \in Nat
    /\ worker \in [Worker -> {"none", "young", "serving", "zombie"}]
    /\ term \in [Worker -> {"no", "yes"}]
    /\ failures \in 0 .. MaxFailures /\ kills \in 0 .. MaxKills
    /\ iWorkerCount + Cardinality(M!Children) = Cardinality(Worker)

(* Cardinality as Master sees it is Cardinality. *)
LEMMA SameCardinality == ASSUME NEW S PROVE M!Cardinality(S) = Cardinality(S)
BY Zenon DEF M!Cardinality, Cardinality

(* The children of main are finitely many, and at most the workers. *)
LEMMA ChildrenFinite ==
    /\ IsFiniteSet(M!Children)
    /\ Cardinality(M!Children) \in Nat
    /\ Cardinality(Worker) \in Nat
    /\ Cardinality(M!Children) <= Cardinality(Worker)
<1>1. M!Children \subseteq Worker
  BY DEF M!Children
<1> QED
  BY <1>1, ServerLogAssumption, FS_Subset, FS_CardinalityType

(* At the start all workers are to be forked. *)
LEMMA InitProcesses == M!Init => Processes
<1> SUFFICES ASSUME M!Init PROVE Processes
  OBVIOUS
<1>1. Cardinality(M!Children) = 0
  <2>1. M!Children = {}
    BY DEF M!Init, M!Children
  <2> QED
    BY <2>1, FS_EmptySet
<1>2. iWorkerCount = Cardinality(Worker)
  BY SameCardinality DEF M!Init
<1> QED
  BY <1>1, <1>2, ChildrenFinite, ServerLogAssumption DEF M!Init, Processes

(* Every step of Master keeps its types and its balance. *)
LEMMA StepProcesses == Processes /\ [M!Next]_M!vars => Processes'
<1> SUFFICES ASSUME Processes, [M!Next]_M!vars PROVE Processes'
  OBVIOUS
<1> USE DEF Processes
<1>1. ASSUME NEW w \in Worker, M!Fork(w) PROVE Processes'
  <2>1. M!Children' = M!Children \cup {w} /\ w \notin M!Children
    BY <1>1 DEF M!Fork, M!Children
  <2>2. Cardinality(M!Children') = Cardinality(M!Children) + 1
    BY <2>1, ChildrenFinite, FS_AddElement
  <2> QED
    BY <1>1, <2>2, ChildrenFinite DEF M!Fork
<1>2. ASSUME NEW w \in Worker, M!Wait(w) PROVE Processes'
  <2>1. M!Children' = M!Children \ {w} /\ w \in M!Children
    BY <1>2 DEF M!Wait, M!Children
  <2>2. Cardinality(M!Children') = Cardinality(M!Children) - 1
    BY <2>1, ChildrenFinite, FS_RemoveElement
  <2> QED
    BY <1>2, <2>2, ChildrenFinite DEF M!Wait
<1>3. ASSUME NEW w \in Worker,
             M!Serve(w) \/ M!Fail(w) \/ M!InheritedSigHandler(w)
             \/ M!ChildSigHandler(w) \/ M!KillWorker(w)
      PROVE  Processes'
  <2>1. M!Children' = M!Children
    BY <1>3 DEF M!Serve, M!Fail, M!InheritedSigHandler, M!ChildSigHandler,
       M!KillWorker, M!Children, M!Alive
  <2> QED
    BY <1>3, <2>1, ServerLogAssumption DEF M!Serve, M!Fail, M!InheritedSigHandler,
       M!ChildSigHandler, M!KillWorker, M!TermGroup
<1>4. CASE M!ParentSigHandler \/ M!StopService \/ M!ForkFails \/ UNCHANGED M!vars
  <2>1. M!Children' = M!Children
    BY <1>4 DEF M!ParentSigHandler, M!StopService, M!ForkFails, M!vars, M!Children
  <2> QED
    BY <1>4, <2>1 DEF M!ParentSigHandler, M!StopService, M!ForkFails, M!vars,
       M!TermGroup
<1> QED
  BY <1>1, <1>2, <1>3, <1>4, Zenon DEF M!Next, M!Run

(* Both give the types of Master. *)
LEMMA ProcessesTypeOK == Processes => M!TypeOK
<1> SUFFICES ASSUME Processes PROVE M!TypeOK
  OBVIOUS
<1>1. iWorkerCount \in 0 .. M!Cardinality(Worker)
  BY ChildrenFinite, SameCardinality DEF Processes
<1> QED
  BY <1>1 DEF Processes, M!TypeOK

(* With the logs too, as ServerLog implements Master. *)
LEMMA AlwaysProcesses == Spec => []Processes
BY ImplementsMaster, InitProcesses, StepProcesses, PTL DEF M!Spec

(***************************************************************************)
(* The inductive invariant of the log: what a process has is determined by  *)
(* where its main flow is.                                                  *)
(***************************************************************************)

(* The types of the log of each process. *)
LogTypes ==
    /\ at \in [Proc -> Setup \cup Critical \cup {"gone", "idle", "libc", "lock"}]
    /\ hand \in [Proc -> {"none", "act", "stuck"}]
    /\ handle \in [Proc -> Handle]
    /\ mutex \in [Proc -> {"free", "held"}]
    /\ iLogFd \in [Proc -> Proc \cup {"none"}]
    /\ files \in [Proc -> SUBSET Proc]
    /\ failing \in BOOLEAN

(* From the moment the log is open the handle is whole. *)
Logging == {"idle", "libc", "lock"} \cup Critical

(* A process that logs, or is about to, has a handle. *)
HandleKept(p) == at[p] \in Logging \cup {"install"} => handle[p] = "ready"

(* main never gives its own log up. *)
MasterLog ==
    /\ at["master"] \in Logging \cup {"gone"}
    /\ iLogFd["master"] = "master" /\ files["master"] = {"master"}

(* A worker changes from the log of main to no log to its own, and serves   *)
(* only after that.                                                         *)
WorkerLog(w) ==
    /\ worker[w] = "serving" => at[w] \in Logging
    /\ worker[w] = "young" => at[w] \in Setup
    /\ worker[w] \in {"none", "zombie"} => at[w] = "gone"
    /\ at[w] \in {"destroy", "close"} => iLogFd[w] = "master" /\ files[w] = {"master"}
    /\ at[w] \in {"free", "null", "malloc", "init", "open"} => files[w] = {}
    /\ at[w] \in Logging \cup {"install"} => iLogFd[w] = w /\ files[w] = {w}

(* The inductive invariant of the logs. *)
LogInv ==
    /\ LogTypes
    /\ \A p \in Proc : HandleKept(p)
    /\ MasterLog
    /\ \A w \in Worker : WorkerLog(w)

(* main has opened its log before the first fork. *)
LEMMA InitLog == Init => LogInv
<1> SUFFICES ASSUME Init PROVE LogInv
  OBVIOUS
<1> USE ServerLogAssumption DEF Init, Proc
<1>1. LogTypes
  BY DEF LogTypes, Handle
<1>2. \A p \in Proc : HandleKept(p)
  BY DEF HandleKept, Logging, Critical
<1>3. MasterLog
  BY DEF MasterLog, Logging
<1>4. \A w \in Worker : WorkerLog(w)
  BY DEF WorkerLog, M!Init, Logging, Critical
<1> QED
  BY <1>1, <1>2, <1>3, <1>4 DEF LogInv

(* A line of the log: lock, write, a new file when it is large, unlock; or  *)
(* a handler that wants to log.                                             *)
LEMMA LineLog ==
    ASSUME Processes, LogInv, NEW p \in Proc,
           \/ Format(p) \/ Lock(p) \/ Unlock(p) \/ HandlerLogs(p)
           \/ \E large, opens \in BOOLEAN : Write(p, large, opens)
    PROVE  LogInv'
<1> USE ServerLogAssumption DEF LogInv, LogTypes, HandleKept, MasterLog,
   WorkerLog, Logging, Proc, Setup, Critical, Handle, processVars, Goes
<1>1. CASE Lock(p)
  BY <1>1 DEF Lock
<1>2. CASE Unlock(p)
  BY <1>2 DEF Unlock
<1>3. CASE HandlerLogs(p)
  BY <1>3 DEF HandlerLogs
<1>4. ASSUME NEW large \in BOOLEAN, NEW opens \in BOOLEAN, Write(p, large, opens)
      PROVE  LogInv'
  BY <1>4 DEF Write, CheckFileSize
<1>5. CASE Format(p)
  BY <1>5 DEF Format
<1> QED
  BY <1>1, <1>2, <1>3, <1>4, <1>5

(* main: a child inherits the log of main, as fork copies it. *)
LEMMA MasterStepLog ==
    ASSUME Processes, LogInv, NEW w \in Worker,
           Fork(w) \/ Wait(w) \/ ForkFails \/ ForkError \/ ParentSigHandler \/ StopService
    PROVE  LogInv'
<1> USE ServerLogAssumption DEF LogInv, LogTypes, HandleKept, MasterLog,
   WorkerLog, Logging, Proc, Setup, Critical, Handle, processVars, Goes, Processes
<1>1. CASE Fork(w)
  BY <1>1 DEF Fork, M!Fork
<1>2. CASE Wait(w)
  BY <1>2 DEF Wait, M!Wait
<1>3. CASE ForkFails
  BY <1>3 DEF ForkFails, M!ForkFails
<1>4. CASE ForkError
  BY <1>4 DEF ForkError
<1>5. CASE ParentSigHandler \/ StopService
  BY <1>5 DEF ParentSigHandler, StopService, M!ParentSigHandler, M!StopService, logVars
<1> QED
  BY <1>1, <1>2, <1>3, <1>4, <1>5

(* A worker gives the log of main up and opens its own. *)
LEMMA SetupLog ==
    ASSUME Processes, LogInv, NEW w \in Worker,
           \/ DestroyMutex(w) \/ CloseLog(w) \/ FreeHandle(w) \/ ForgetHandle(w)
           \/ MallocHandle(w) \/ InitHandle(w) \/ OpenLog(w) \/ Install(w)
    PROVE  LogInv'
<1> USE ServerLogAssumption DEF LogInv, LogTypes, HandleKept, MasterLog,
   WorkerLog, Logging, Proc, Setup, Critical, Handle, processVars, Goes, Processes
<1>1. CASE DestroyMutex(w)
  BY <1>1 DEF DestroyMutex
<1>2. CASE CloseLog(w)
  BY <1>2 DEF CloseLog
<1>3. CASE FreeHandle(w)
  BY <1>3 DEF FreeHandle
<1>4. CASE ForgetHandle(w)
  BY <1>4 DEF ForgetHandle
<1>5. CASE MallocHandle(w)
  BY <1>5 DEF MallocHandle
<1>6. CASE InitHandle(w)
  BY <1>6 DEF InitHandle
<1>7. CASE OpenLog(w)
  BY <1>7 DEF OpenLog
<1>8. CASE Install(w)
  BY <1>8 DEF Install, M!Serve
<1> QED
  BY <1>1, <1>2, <1>3, <1>4, <1>5, <1>6, <1>7, <1>8

(* A worker that serves, fails or gets a signal. *)
LEMMA WorkerStepLog ==
    ASSUME Processes, LogInv, NEW w \in Worker,
           LogMsg(w) \/ Fail(w) \/ KillWorker(w) \/ InheritedSigHandler(w) \/ ChildSigHandler(w)
    PROVE  LogInv'
<1> USE ServerLogAssumption DEF LogInv, LogTypes, HandleKept, MasterLog,
   WorkerLog, Logging, Proc, Setup, Critical, Handle, processVars, Goes, Processes
<1>1. CASE LogMsg(w)
  BY <1>1 DEF LogMsg
<1>2. CASE Fail(w)
  BY <1>2 DEF Fail, M!Fail, Leaves
<1>3. CASE KillWorker(w)
  BY <1>3 DEF KillWorker, M!KillWorker, logVars
<1>4. CASE InheritedSigHandler(w)
  BY <1>4 DEF InheritedSigHandler, M!InheritedSigHandler, Leaves
<1>5. CASE ChildSigHandler(w)
  BY <1>5 DEF ChildSigHandler, M!ChildSigHandler, Leaves
<1> QED
  BY <1>1, <1>2, <1>3, <1>4, <1>5

(* Every action keeps the invariant of the logs. *)
LEMMA StepLog == Processes /\ LogInv /\ [Next]_vars => LogInv'
<1> SUFFICES ASSUME Processes, LogInv, [Next]_vars PROVE LogInv'
  OBVIOUS
<1>0. Worker # {} /\ "master" \in Proc /\ Worker \subseteq Proc
  BY ServerLogAssumption DEF Proc
<1>1. CASE MasterRuns \/ ForkError \/ StopService
  BY <1>0, <1>1, LineLog, MasterStepLog DEF MasterRuns
<1>2. ASSUME NEW w \in Worker, WorkerRuns(w) \/ LogMsg(w) \/ Fail(w) \/ KillWorker(w)
      PROVE  LogInv'
  BY <1>0, <1>2, LineLog, SetupLog, WorkerStepLog DEF WorkerRuns
<1>3. CASE UNCHANGED vars
  BY <1>3 DEF vars, processVars, logVars, LogInv, LogTypes, HandleKept,
     MasterLog, WorkerLog
<1> QED
  BY <1>1, <1>2, <1>3 DEF Next

(* It holds always. *)
LEMMA AlwaysLog == Spec => []LogInv
BY InitLog, StepLog, AlwaysProcesses, PTL DEF Spec

(* The state of the processes and their logs has its types, for any number  *)
(* of workers.                                                              *)
THEOREM ServerLogTypeOK == Spec => []TypeOK
<1>1. Processes /\ LogInv => TypeOK
  BY ProcessesTypeOK DEF LogInv, LogTypes, TypeOK
<1> QED
  BY <1>1, AlwaysProcesses, AlwaysLog, PTL

(* A serving worker writes to its own log and has closed that of main. *)
THEOREM OwnLogHolds == Spec => []OwnLog
<1>1. LogInv => OwnLog
  BY DEF LogInv, WorkerLog, OwnLog
<1> QED
  BY <1>1, AlwaysLog, PTL

(* Whoever logs has a whole handle: none is freed or half made between lock *)
(* and unlock.                                                              *)
THEOREM HandleInUseHolds == Spec => []HandleInUse
<1>1. LogInv => HandleInUse
  BY DEF LogInv, HandleKept, HandleInUse, Logging
<1> QED
  BY <1>1, AlwaysLog, PTL
=============================================================================
