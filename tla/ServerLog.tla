------------------------------ MODULE ServerLog ------------------------------
(***************************************************************************)
(* The log of src/src/server_log.c under the processes of Master: every     *)
(* process has a handle g_pstServerLogHandle with a mutex and a descriptor; *)
(* a worker destroys the one it inherits and creates its own.  SIGTERM may  *)
(* come between any two steps below, and its handlers log before they act.  *)
(*                                                                          *)
(* Actions of Master are conjoined with what they do to the log.  A process *)
(* that was sent SIGTERM runs its handler before anything else, so its main *)
(* flow stays where it was; the handler cannot be interrupted by SIGTERM    *)
(* again and its logging is one step.                                       *)
(***************************************************************************)
EXTENDS Integers, FiniteSets

CONSTANTS Worker, MaxFailures, MaxKills

ASSUME ServerLogAssumption ==
    /\ IsFiniteSet(Worker) /\ Worker # {} /\ {"master", "none"} \cap Worker = {}
    /\ MaxFailures \in Nat /\ MaxKills \in Nat

VARIABLES master, masterTerm, iWorkerCount, worker, term, failures, kills,
          at,      \* per process: where its main flow is
          hand,    \* per process: its SIGTERM handler, "none" (not yet logged),
                   \* "act" (logged), "stuck"
          handle,  \* per process: what g_pstServerLogHandle points to
          mutex,   \* per process: stLogMutex, "free" or "held"
          iLogFd,  \* per process: the process whose log it writes, or "none"
          files,   \* per process: the logs it has a descriptor of
          failing  \* BOOLEAN: fork failed, main returns after its log line

M == INSTANCE Master

processVars == <<master, masterTerm, iWorkerCount, worker, term, failures, kills>>
logVars == <<at, hand, handle, mutex, iLogFd, files, failing>>
vars == <<processVars, logVars>>

Proc == Worker \cup {"master"}

(* The handle: none, whole, its mutex destroyed, its descriptor closed too, *)
(* freed but still pointed to, not yet written to, zeroed without a file.   *)
Handle == {"null", "ready", "destroyed", "closed", "freed", "raw", "blank"}

(* States in which reading the handle is undefined. *)
Undefined == {"freed", "raw"}

Setup == {"destroy", "close", "free", "null", "malloc", "init", "open", "install"}
Critical == {"write", "unlock"}

(* Where the main flow may hold a lock of the C library: in localtime_r or  *)
(* malloc, and in the free of the handle.  The malloc of the handle, and    *)
(* the one of CreateLogfileHandle after it, find the handle NULL or not yet *)
(* written to, which has outcomes of its own.                               *)
InLibc == {"libc", "free"}

Living(p) == IF p = "master" THEN master = "loop" ELSE worker[p] \in {"young", "serving"}
Told(p) == IF p = "master" THEN masterTerm = "yes" ELSE term[p] = "yes"

(* The main flow of p goes on from a to b. *)
Goes(p, a, b) ==
    /\ Living(p) /\ ~Told(p)
    /\ at[p] = a
    /\ at' = [at EXCEPT ![p] = b]

Init ==
    /\ M!Init
    /\ at = [p \in Proc |-> IF p = "master" THEN "idle" ELSE "gone"]
    /\ hand = [p \in Proc |-> "none"]
    /\ handle = [p \in Proc |-> IF p = "master" THEN "ready" ELSE "null"]
    /\ mutex = [p \in Proc |-> "free"]
    /\ iLogFd = [p \in Proc |-> IF p = "master" THEN "master" ELSE "none"]
    /\ files = [p \in Proc |-> IF p = "master" THEN {"master"} ELSE {}]
    /\ failing = FALSE

(***************************************************************************)
(* A line of the main flow: __LogMsg and __print_log.                      *)
(***************************************************************************)

(* The callbacks and the loop of a worker log at many places; what else     *)
(* they allocate and free is taken with the line.                           *)
LogMsg(w) ==
    /\ worker[w] = "serving" /\ Goes(w, "idle", "libc")
    /\ UNCHANGED <<processVars, hand, handle, mutex, iLogFd, files, failing>>

(* localtime_r, malloc and the text of the line, outside stLogMutex. *)
Format(p) ==
    /\ Goes(p, "libc", "lock")
    /\ UNCHANGED <<processVars, hand, handle, mutex, iLogFd, files, failing>>

Lock(p) ==
    /\ Goes(p, "lock", "write")
    /\ mutex[p] = "free"
    /\ mutex' = [mutex EXCEPT ![p] = "held"]
    /\ UNCHANGED <<processVars, hand, handle, iLogFd, files, failing>>

(* Mutant: a handle is looked at when there is one. *)
CheckFileSize_Repaired(p, large) == large

(* Whether the log is over its size.  The test for NULL is inverted: with a *)
(* handle it never is.                                                      *)
CheckFileSize(p, large) == IF handle[p] # "null" THEN FALSE ELSE large

(* __roll_oldfile2new: the file is closed and renamed, and one of the same  *)
(* name opened.  If that fails the handle is freed under the caller.        *)
Roll(p, opens) ==
    /\ handle' = [handle EXCEPT ![p] = IF opens THEN @ ELSE "null"]
    /\ files' = [files EXCEPT ![p] = IF opens THEN @ ELSE @ \ {iLogFd[p]}]

(* The line is written, after a roll if the log is too large. *)
Write(p, large, opens) ==
    /\ Goes(p, "write", "unlock")
    /\ IF CheckFileSize(p, large) THEN Roll(p, opens) ELSE UNCHANGED <<handle, files>>
    /\ UNCHANGED <<processVars, hand, mutex, iLogFd, failing>>

(* Mutant: the mutex is not released. *)
Unlock_Not(p) ==
    /\ Goes(p, "unlock", "idle")
    /\ UNCHANGED <<processVars, hand, handle, mutex, iLogFd, files, failing>>

Unlock(p) ==
    /\ Goes(p, "unlock", "idle")
    /\ mutex' = [mutex EXCEPT ![p] = "free"]
    /\ UNCHANGED <<processVars, hand, handle, iLogFd, files, failing>>

(***************************************************************************)
(* The master: each turn of its loop ends with a line.                     *)
(***************************************************************************)

(* The child inherits the handle, the mutex in it and the descriptor. *)
Fork(w) ==
    /\ ~Told("master") /\ ~failing /\ at["master"] = "idle"
    /\ M!Fork(w)
    /\ at' = [at EXCEPT !["master"] = "libc", ![w] = "destroy"]
    /\ handle' = [handle EXCEPT ![w] = handle["master"]]
    /\ mutex' = [mutex EXCEPT ![w] = mutex["master"]]
    /\ iLogFd' = [iLogFd EXCEPT ![w] = iLogFd["master"]]
    /\ files' = [files EXCEPT ![w] = files["master"]]
    /\ UNCHANGED <<hand, failing>>

(* fork fails; main returns once it has logged it. *)
ForkError ==
    /\ iWorkerCount > 0 /\ ~failing /\ Goes("master", "idle", "libc")
    /\ failing' = TRUE
    /\ UNCHANGED <<processVars, hand, handle, mutex, iLogFd, files>>

ForkFails ==
    /\ failing /\ Goes("master", "idle", "gone")
    /\ M!ForkFails
    /\ UNCHANGED <<hand, handle, mutex, iLogFd, files, failing>>

Wait(w) ==
    /\ ~failing /\ Goes("master", "idle", "libc")
    /\ M!Wait(w)
    /\ UNCHANGED <<hand, handle, mutex, iLogFd, files, failing>>

(***************************************************************************)
(* A worker on its way to its own log: DestroyLogfileHandle and             *)
(* CreateLogfileHandle, then its own SIGTERM handler.                       *)
(***************************************************************************)

DestroyMutex(w) ==
    /\ Goes(w, "destroy", "close")
    /\ handle' = [handle EXCEPT ![w] = "destroyed"]
    /\ UNCHANGED <<processVars, hand, mutex, iLogFd, files, failing>>

(* Mutant: the inherited descriptor stays open. *)
CloseLog_Not(w) ==
    /\ Goes(w, "close", "free")
    /\ handle' = [handle EXCEPT ![w] = "closed"]
    /\ UNCHANGED <<processVars, hand, mutex, iLogFd, files, failing>>

CloseLog(w) ==
    /\ Goes(w, "close", "free")
    /\ handle' = [handle EXCEPT ![w] = "closed"]
    /\ files' = [files EXCEPT ![w] = @ \ {iLogFd[w]}]
    /\ UNCHANGED <<processVars, hand, mutex, iLogFd, failing>>

FreeHandle(w) ==
    /\ Goes(w, "free", "null")
    /\ handle' = [handle EXCEPT ![w] = "freed"]
    /\ iLogFd' = [iLogFd EXCEPT ![w] = "none"]
    /\ UNCHANGED <<processVars, hand, mutex, files, failing>>

ForgetHandle(w) ==
    /\ Goes(w, "null", "malloc")
    /\ handle' = [handle EXCEPT ![w] = "null"]
    /\ UNCHANGED <<processVars, hand, mutex, iLogFd, files, failing>>

MallocHandle(w) ==
    /\ Goes(w, "malloc", "init")
    /\ handle' = [handle EXCEPT ![w] = "raw"]
    /\ UNCHANGED <<processVars, hand, mutex, iLogFd, files, failing>>

(* memset, the fields, pthread_mutex_init. *)
InitHandle(w) ==
    /\ Goes(w, "init", "open")
    /\ handle' = [handle EXCEPT ![w] = "blank"]
    /\ mutex' = [mutex EXCEPT ![w] = "free"]
    /\ UNCHANGED <<processVars, hand, iLogFd, files, failing>>

OpenLog(w) ==
    /\ Goes(w, "open", "install")
    /\ handle' = [handle EXCEPT ![w] = "ready"]
    /\ iLogFd' = [iLogFd EXCEPT ![w] = w]
    /\ files' = [files EXCEPT ![w] = @ \cup {w}]
    /\ UNCHANGED <<processVars, hand, mutex, failing>>

(* signal(SIGTERM, ChildSigHandler), and the worker serves. *)
Install(w) ==
    /\ Goes(w, "install", "idle")
    /\ M!Serve(w)
    /\ UNCHANGED <<hand, handle, mutex, iLogFd, files, failing>>

(* What a process leaves when it ends. *)
Leaves(w) ==
    /\ at' = [at EXCEPT ![w] = "gone"]
    /\ hand' = [hand EXCEPT ![w] = "none"]
    /\ handle' = [handle EXCEPT ![w] = "null"]
    /\ mutex' = [mutex EXCEPT ![w] = "free"]
    /\ iLogFd' = [iLogFd EXCEPT ![w] = "none"]
    /\ files' = [files EXCEPT ![w] = {}]
    /\ UNCHANGED failing

(* CreateLogfileHandle fails in malloc, pthread_mutex_init or open and main *)
(* returns, or the worker ends while it serves.                             *)
Fail(w) ==
    /\ at[w] \in {"malloc", "init", "open", "idle"} /\ ~Told(w)
    /\ M!Fail(w)
    /\ Leaves(w)

(***************************************************************************)
(* SIGTERM.                                                                *)
(***************************************************************************)

(* The LOG_ERROR of both handlers.  Without a handle it returns at once;    *)
(* without a file, or with a destroyed mutex, it waits for no mutex; one    *)
(* that the interrupted main flow holds is never released.  A handle that   *)
(* was freed or not yet written to may hold anything, and localtime_r and   *)
(* malloc may have been interrupted by the handler that calls them: it goes *)
(* on, or waits for a lock that is never released.                          *)
HandlerLogs(p) ==
    /\ Living(p) /\ Told(p) /\ hand[p] = "none"
    /\ handle[p] = "ready" => mutex[p] = "free"
    /\ \/ hand' = [hand EXCEPT ![p] = "act"]
       \/ /\ handle[p] \in Undefined \/ at[p] \in InLibc
          /\ hand' = [hand EXCEPT ![p] = "stuck"]
    /\ UNCHANGED <<processVars, at, handle, mutex, iLogFd, files, failing>>

(* kill and exit in the master. *)
ParentSigHandler ==
    /\ hand["master"] = "act"
    /\ M!ParentSigHandler
    /\ UNCHANGED logVars

(* The same in a worker that still has its parent's handler. *)
InheritedSigHandler(w) ==
    /\ hand[w] = "act"
    /\ M!InheritedSigHandler(w)
    /\ Leaves(w)

ChildSigHandler(w) ==
    /\ hand[w] = "act"
    /\ M!ChildSigHandler(w)
    /\ Leaves(w)

StopService == M!StopService /\ UNCHANGED logVars

KillWorker(w) == M!KillWorker(w) /\ UNCHANGED logVars

(* Steps of the master, and of a worker, that nothing else has to allow. *)
MasterRuns ==
    \/ Format("master") \/ Lock("master") \/ Unlock("master")
    \/ \E large, opens \in BOOLEAN : Write("master", large, opens)
    \/ \E w \in Worker : Fork(w) \/ Wait(w)
    \/ ForkFails
    \/ HandlerLogs("master") \/ ParentSigHandler

WorkerRuns(w) ==
    \/ Format(w) \/ Lock(w) \/ Unlock(w)
    \/ \E large, opens \in BOOLEAN : Write(w, large, opens)
    \/ DestroyMutex(w) \/ CloseLog(w) \/ FreeHandle(w) \/ ForgetHandle(w)
    \/ MallocHandle(w) \/ InitHandle(w) \/ OpenLog(w) \/ Install(w)
    \/ HandlerLogs(w) \/ InheritedSigHandler(w) \/ ChildSigHandler(w)

Next ==
    \/ MasterRuns \/ ForkError \/ StopService
    \/ \E w \in Worker : WorkerRuns(w) \/ LogMsg(w) \/ Fail(w) \/ KillWorker(w)

Spec == Init /\ [][Next]_vars

(* The scheduler runs every process. *)
Fairness == WF_vars(MasterRuns) /\ \A w \in Worker : WF_vars(WorkerRuns(w))

FairSpec == Spec /\ Fairness

(***************************************************************************)
(* Properties.                                                             *)
(***************************************************************************)

(* The types of the state. *)
TypeOK ==
    /\ M!TypeOK
    /\ at \in [Proc -> Setup \cup Critical \cup {"gone", "idle", "libc", "lock"}]
    /\ hand \in [Proc -> {"none", "act", "stuck"}]
    /\ handle \in [Proc -> Handle]
    /\ mutex \in [Proc -> {"free", "held"}]
    /\ iLogFd \in [Proc -> Proc \cup {"none"}]
    /\ files \in [Proc -> SUBSET Proc]
    /\ failing \in BOOLEAN

(* The comment before DestroyLogfileHandle in main: no two processes write  *)
(* the same log.  A worker that serves has its own log open and no other.   *)
OwnLog ==
    \A w \in Worker : worker[w] = "serving" => iLogFd[w] = w /\ files[w] = {w}

(* Between lock and unlock the handle is there, as __print_log assumes when *)
(* it writes to its descriptor and releases its mutex.                      *)
HandleInUse == \A p \in Proc : at[p] \in Critical => handle[p] = "ready"

(* Where SIGTERM may find a process that its handler cannot leave: between  *)
(* lock and unlock, in the C library, or with a handle that is not one.     *)
InLog(p) == at[p] \in Critical \cup InLibc \/ handle[p] \in Undefined

(* SIGTERM ends a process wherever else it finds it, before, during or      *)
(* after the change of its log, between lines and waiting for the mutex.    *)
EndsOutsideLog ==
    \A p \in Proc : (Living(p) /\ Told(p) /\ ~InLog(p)) ~> ~Living(p)

(* A master that ends on SIGTERM leaves no worker behind, also none that    *)
(* was forked a moment ago, but for the ones its signal found in a line of  *)
(* their log.                                                               *)
StopsEverybody ==
    master = "term" ~> \A w \in Worker : Living(w) => Told(w) /\ InLog(w)

(* A service that is not stopped gets its workers back, though every turn   *)
(* of the master and every worker logs, unless a process hangs in its       *)
(* handler.                                                                 *)
RestoredOrStuck ==
    <>[](\/ master # "loop"
         \/ \A w \in Worker : worker[w] = "serving"
         \/ \E p \in Proc : Living(p) /\ Told(p))

(* The comment in ChildSigHandler: a worker that gets SIGTERM exits.  What  *)
(* a handler does that interrupted malloc and calls it is left aside: this  *)
(* is about the mutex of the log alone.                                     *)
TermEnds ==
    \A w \in Worker :
        (worker[w] = "serving" /\ term[w] = "yes" /\ at[w] \notin InLibc)
            ~> worker[w] # "serving"
=============================================================================
