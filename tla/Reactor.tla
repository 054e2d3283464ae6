------------------------------- MODULE Reactor -------------------------------
(***************************************************************************)
(* One worker: the dispatch loop and the table of descriptors of            *)
(* src/src/reactor.c, the callbacks of src/src/socket_util.c, and as much   *)
(* of the kernel as they use: the epoll set, the descriptors, the listen    *)
(* queue the worker shares with its siblings, and the sockets.              *)
(*                                                                          *)
(* A packet is not spelled out: Connection models the bytes, and here the   *)
(* receive callback has one of its four outcomes (nothing complete yet, a   *)
(* packet that is answered, one that is not, the connection closed).        *)
(* Timers are the set of timers that MinHeap implements.  Time is relative: *)
(* ttl is a timer's deadline minus the cached time pstTimeCache, lag is how *)
(* far the cached time is behind.                                           *)
(***************************************************************************)
EXTENDS Integers, FiniteSets, FiniteSetsExt

CONSTANTS Conn,        \* ConnFd blocks malloc can hand out
          NULL,
          NoFile,      \* RLIMIT_NOFILE: descriptors are 0 .. NoFile - 1
          TableSize,   \* iFdEventArraySize (maxclients_num)
          Interval,    \* MAX_CONN_TIMEOUT, in ticks
          MaxBacklog,  \* bound: connections waiting in the listen queue
          MaxInbox,    \* bound: unread pieces of input of a connection
          GarbageMasks,\* what malloc may leave in iMask of the listen slot
          Daemon       \* daemon_sign = 1: SIGPIPE is ignored

ASSUME ReactorAssumption ==
    /\ NULL \notin Conn
    /\ NoFile \in Nat \ {0} /\ TableSize \in Nat \ {0}
    /\ Interval \in Nat \ {0}
    /\ MaxBacklog \in Nat /\ MaxInbox \in Nat
    /\ GarbageMasks \subseteq SUBSET {"R", "W"} /\ GarbageMasks # {}
    /\ Daemon \in BOOLEAN

(* Descriptor 0 stands for the listen socket; what else the process has     *)
(* open is left out.                                                        *)
Fd == 0 .. NoFile - 1
ListenFd == 0

VARIABLES iMask,        \* per descriptor: pstFdEventsArray[fd].iMask
          pstArg,       \* per descriptor: pstFdEventsArray[fd].pstArg
          interest,     \* per descriptor: the events of the epoll set
          open,         \* open descriptors
          iFd,          \* per connection; -1 for a freed block
          reply,        \* per connection: "none", or "pending" while iSendPacketLen > 0
          ttl,          \* per connection: stTimeout minus pstTimeCache, never below 0
          inbox,        \* per connection: unread input
          ending,       \* per connection: "open", "fin", "rst"
          iClientCount,
          backlog,      \* connections in the listen queue
          phase,        \* where the loop is, or what ended it
          sleep,        \* remaining time of epoll_wait, -1 for ever
          lag,          \* the clock minus pstTimeCache
          batch,        \* per descriptor: events returned, not yet dispatched
          seen,         \* per descriptor: the connection the events are about
          cur           \* descriptor being dispatched

tableVars == <<iMask, pstArg, interest, open>>
connVars  == <<iFd, reply, ttl, iClientCount>>
peerVars  == <<inbox, ending>>
loopVars  == <<phase, sleep, lag, batch, seen, cur>>
vars == <<tableVars, connVars, peerVars, backlog, loopVars>>

Live == {c \in Conn : iFd[c] # -1}

(* A worker ends because epoll_ctl failed, accept failed or SIGPIPE came;   *)
(* past the table the model stops.                                          *)
Ended == {"noctl", "noaccept", "sigpipe", "overrun"}

Running == phase \notin Ended \cup {"start"}

(***************************************************************************)
(* The descriptor table.                                                   *)
(***************************************************************************)

(* epoll_ctl fails for an ADD of a descriptor it has, and for a MOD or DEL  *)
(* of one it has not.                                                       *)
CtlOK(oper, f) == (oper = "ADD") <=> (interest[f] = {})

(* Mutant: the descriptor is added whether or not epoll has it. *)
EventAdd_AlwaysAdd(f, e, a, next) ==
    LET ok == CtlOK("ADD", f)
    IN  \/ /\ e \in iMask[f]
           /\ phase' = next
           /\ UNCHANGED <<iMask, pstArg, interest>>
        \/ /\ e \notin iMask[f]
           /\ iMask' = [iMask EXCEPT ![f] = @ \cup {e}]
           /\ pstArg' = [pstArg EXCEPT ![f] = a]
           /\ interest' = [interest EXCEPT ![f] = IF ok THEN iMask'[f] ELSE @]
           /\ phase' = IF ok THEN next ELSE "noctl"

(* EventAdd of event e with argument a; next is the phase that follows,     *)
(* and a failure ends the process in every caller.                          *)
EventAdd(f, e, a, next) ==
    LET oper == IF iMask[f] = {} THEN "ADD" ELSE "MOD"
        ok   == CtlOK(oper, f)
    IN  \/ /\ e \in iMask[f]
           /\ phase' = next
           /\ UNCHANGED <<iMask, pstArg, interest>>
        \/ /\ e \notin iMask[f]
           /\ iMask' = [iMask EXCEPT ![f] = @ \cup {e}]
           /\ pstArg' = [pstArg EXCEPT ![f] = a]
           /\ interest' = [interest EXCEPT ![f] = IF ok THEN iMask'[f] ELSE @]
           /\ phase' = IF ok THEN next ELSE "noctl"

(* Mutants: the descriptor is not closed; the slot is not cleared. *)
DestroyConn_NoClose(c, next) ==
    LET f == iFd[c]
    IN  /\ iClientCount' = iClientCount - 1
        /\ iMask' = [iMask EXCEPT ![f] = {}]
        /\ pstArg' = [pstArg EXCEPT ![f] = NULL]
        /\ interest' = [interest EXCEPT ![f] = {}]
        /\ iFd' = [iFd EXCEPT ![c] = -1]
        /\ reply' = [reply EXCEPT ![c] = "none"]
        /\ ttl' = [ttl EXCEPT ![c] = 0]
        /\ inbox' = [inbox EXCEPT ![c] = 0]
        /\ ending' = [ending EXCEPT ![c] = "open"]
        /\ phase' = next
        /\ UNCHANGED open

DestroyConn_KeepsSlot(c, next) ==
    LET f == iFd[c]
    IN  /\ iClientCount' = iClientCount - 1
        /\ iMask' = [iMask EXCEPT ![f] = {}]
        /\ interest' = [interest EXCEPT ![f] = {}]
        /\ open' = open \ {f}
        /\ iFd' = [iFd EXCEPT ![c] = -1]
        /\ reply' = [reply EXCEPT ![c] = "none"]
        /\ ttl' = [ttl EXCEPT ![c] = 0]
        /\ inbox' = [inbox EXCEPT ![c] = 0]
        /\ ending' = [ending EXCEPT ![c] = "open"]
        /\ phase' = next
        /\ UNCHANGED pstArg

(* __DestroyConn: count, EventDel of both events, close, timer, slot, free. *)
(* close takes the descriptor out of the epoll set too.                     *)
DestroyConn(c, next) ==
    LET f  == iFd[c]
        ok == iMask[f] = {} \/ CtlOK("DEL", f)
    IN  /\ iClientCount' = iClientCount - 1
        /\ iMask' = [iMask EXCEPT ![f] = {}]
        /\ pstArg' = [pstArg EXCEPT ![f] = NULL]
        /\ interest' = [interest EXCEPT ![f] = {}]
        /\ open' = open \ {f}
        /\ iFd' = [iFd EXCEPT ![c] = -1]
        /\ reply' = [reply EXCEPT ![c] = "none"]
        /\ ttl' = [ttl EXCEPT ![c] = 0]
        /\ inbox' = [inbox EXCEPT ![c] = 0]
        /\ ending' = [ending EXCEPT ![c] = "open"]
        /\ phase' = IF ok THEN next ELSE "noctl"

(***************************************************************************)
(* Start.                                                                  *)
(***************************************************************************)

(* __CreateNewEventBase: the table comes from malloc and only the slots of  *)
(* accepted descriptors are ever cleared.  Clients connect since before the *)
(* worker was forked.                                                       *)
Init ==
    /\ \E m \in GarbageMasks :
          iMask = [f \in Fd |-> IF f = ListenFd THEN m ELSE {}]
    /\ interest = [f \in Fd |-> {}]
    /\ phase = "start"
    /\ pstArg = [f \in Fd |-> NULL]
    /\ open = {ListenFd}
    /\ iFd = [c \in Conn |-> -1]
    /\ reply = [c \in Conn |-> "none"]
    /\ ttl = [c \in Conn |-> 0]
    /\ inbox = [c \in Conn |-> 0]
    /\ ending = [c \in Conn |-> "open"]
    /\ iClientCount = 0
    /\ backlog \in 0 .. MaxBacklog
    /\ sleep = -1 /\ lag = 0
    /\ batch = [f \in Fd |-> {}]
    /\ seen = [f \in Fd |-> NULL]
    /\ cur = -1

(* Mutant: the listen socket is not registered. *)
EventBaseCreate_NoListener ==
    /\ phase = "start" /\ phase' = "top"
    /\ UNCHANGED <<tableVars, connVars, peerVars, backlog, sleep, lag, batch, seen, cur>>

(* EventBaseCreate registers the listen socket; if that fails main returns. *)
EventBaseCreate ==
    /\ phase = "start"
    /\ EventAdd(ListenFd, "R", NULL, "top")
    /\ UNCHANGED <<open, connVars, peerVars, backlog, sleep, lag, batch, seen, cur>>

(***************************************************************************)
(* The environment: clients, sibling workers, time.                        *)
(***************************************************************************)

Connect ==
    /\ Running /\ backlog < MaxBacklog
    /\ backlog' = backlog + 1
    /\ UNCHANGED <<tableVars, connVars, peerVars, loopVars>>

(* A sibling accepts a connection this worker was woken for as well. *)
Steal ==
    /\ Running /\ backlog > 0
    /\ backlog' = backlog - 1
    /\ UNCHANGED <<tableVars, connVars, peerVars, loopVars>>

ClientSends(c) ==
    /\ Running /\ c \in Live /\ ending[c] = "open" /\ inbox[c] < MaxInbox
    /\ inbox' = [inbox EXCEPT ![c] = @ + 1]
    /\ UNCHANGED <<tableVars, connVars, ending, backlog, loopVars>>

(* The client closes, or resets the connection. *)
ClientEnds(c) ==
    /\ Running /\ c \in Live
    /\ \/ ending[c] = "open" /\ ending' = [ending EXCEPT ![c] = "fin"]
       \/ ending[c] # "rst" /\ ending' = [ending EXCEPT ![c] = "rst"]
    /\ UNCHANGED <<tableVars, connVars, inbox, backlog, loopVars>>

(* Time passes; a lag past Interval makes every timer due and is not        *)
(* counted further.                                                         *)
Tick ==
    /\ Running
    /\ lag < Interval \/ sleep > 0
    /\ lag' = Min({lag + 1, Interval})
    /\ sleep' = IF sleep > 0 THEN sleep - 1 ELSE sleep
    /\ UNCHANGED <<tableVars, connVars, peerVars, backlog,
                   phase, batch, seen, cur>>

(***************************************************************************)
(* ReactorEventDispatchLoop.                                               *)
(***************************************************************************)

(* GetEPollwaitTimeoutValue: until the earliest timer, for ever without one.*)
(* Every live connection has its timer: this is a heap in which no realloc  *)
(* failed and no erase took its ShiftUp branch.  MinHeap has the rounding.  *)
WaitTimeoutValue == IF Live = {} THEN -1 ELSE Min({ttl[c] : c \in Live})

EnterWait ==
    /\ phase = "top"
    /\ phase' = "wait"
    /\ sleep' = WaitTimeoutValue
    /\ UNCHANGED <<tableVars, connVars, peerVars, backlog, lag, batch, seen, cur>>

(* The connection whose socket is descriptor f. *)
SocketOf(f) == IF \E c \in Live : iFd[c] = f
               THEN CHOOSE c \in Live : iFd[c] = f
               ELSE NULL

(* The events the loop makes of what epoll reports for f: EPOLLIN is a read *)
(* event, EPOLLOUT, EPOLLHUP and EPOLLERR a write event; full are the       *)
(* sockets whose send buffer has no room.                                   *)
Ready(f, full) ==
    IF interest[f] = {} THEN {}
    ELSE IF f = ListenFd THEN IF backlog > 0 THEN {"R"} ELSE {}
    ELSE LET c == SocketOf(f)
         IN  IF ending[c] = "rst" THEN {"R", "W"}
             ELSE (IF "R" \in interest[f] /\ (inbox[c] > 0 \/ ending[c] = "fin")
                   THEN {"R"} ELSE {})
                  \cup (IF "W" \in interest[f] /\ c \notin full THEN {"W"} ELSE {})

(* gettimeofday after epoll_wait.  The code keeps deadlines and stores the  *)
(* time; here that moves every timer nearer.  How long one is overdue makes *)
(* no difference to the loop, so ttl stops at 0.                            *)
RefreshTimeCache ==
    /\ ttl' = [c \in Conn |-> Max({ttl[c] - lag, 0})]
    /\ lag' = 0
    /\ sleep' = -1

(* epoll_wait returns the ready descriptors, or none when its time is up. *)
WaitReturns ==
    /\ phase = "wait"
    /\ \E full \in SUBSET Live :
          /\ batch' = [f \in Fd |-> Ready(f, full)]
          /\ (\E f \in Fd : batch'[f] # {}) \/ sleep = 0
    /\ seen' = [f \in Fd |-> SocketOf(f)]
    /\ phase' = "dispatch"
    /\ RefreshTimeCache
    /\ UNCHANGED <<tableVars, iFd, reply, iClientCount, peerVars, backlog, cur>>

(* Mutant: the cached time is refreshed only after a wait that succeeded. *)
WaitInterrupted_OldTime ==
    /\ phase = "wait" /\ sleep # 0
    /\ \A f \in Fd : Ready(f, Live) = {}
    /\ phase' = "top" /\ sleep' = -1
    /\ UNCHANGED <<tableVars, connVars, peerVars, backlog, lag, batch, seen, cur>>

(* A signal interrupts an epoll_wait that blocks: the loop starts over      *)
(* without looking at the timers.                                           *)
WaitInterrupted ==
    /\ phase = "wait" /\ sleep # 0
    /\ \A f \in Fd : Ready(f, Live) = {}
    /\ phase' = "top"
    /\ RefreshTimeCache
    /\ UNCHANGED <<tableVars, iFd, reply, iClientCount, peerVars, backlog,
                   batch, seen, cur>>

(* The read half of an event is done; the write half comes next. *)
ReadDone(f) == cur' = f

Readable(f) == "R" \in iMask[f] \cap batch[f]
Writable(f) == "W" \in iMask[f] \cap batch[f]

(* An event without a read callback. *)
SkipRead(f) ==
    /\ phase = "dispatch" /\ batch[f] # {} /\ ~Readable(f)
    /\ phase' = "write" /\ ReadDone(f)
    /\ UNCHANGED <<tableVars, connVars, peerVars, backlog, sleep, lag, batch, seen>>

LowestFree == Min(Fd \ open)

(* ProcessAcceptCallback: a sibling was faster (EAGAIN), accept fails for   *)
(* another reason (the worker exits), the new descriptor does not fit the   *)
(* table, or a new connection: the count, __CreateNewConn with              *)
(* FdFileEventInit, the timer, EventAdd.                                    *)
AcceptConn(c) ==
    LET f == LowestFree
    IN  /\ backlog > 0 /\ Fd \ open # {} /\ f < TableSize
        /\ c \notin Live
        /\ backlog' = backlog - 1
        /\ open' = open \cup {f}
        /\ iFd' = [iFd EXCEPT ![c] = f]
        /\ iClientCount' = iClientCount + 1
        /\ ttl' = [ttl EXCEPT ![c] = Interval]
        /\ iMask' = [iMask EXCEPT ![f] = {"R"}]
        /\ pstArg' = [pstArg EXCEPT ![f] = c]
        /\ interest' = [interest EXCEPT ![f] = IF CtlOK("ADD", f) THEN {"R"} ELSE @]
        /\ phase' = IF CtlOK("ADD", f) THEN "write" ELSE "noctl"
        /\ UNCHANGED <<reply, peerVars>>

(* FdFileEventInit writes the slot before EventAdd looks at the bound, and  *)
(* EventAdd lets the first descriptor past the table through: memory that   *)
(* is not the table's is overwritten, and the model stops.                  *)
AcceptPastTable ==
    /\ backlog > 0 /\ Fd \ open # {} /\ LowestFree >= TableSize
    /\ phase' = "overrun"
    /\ UNCHANGED <<tableVars, connVars, peerVars, backlog>>

AcceptNone ==
    /\ backlog = 0
    /\ phase' = "write"
    /\ UNCHANGED <<tableVars, connVars, peerVars, backlog>>

(* Every other errno ends the worker: EMFILE once all descriptors are open, *)
(* and at any time ECONNABORTED, ENFILE, ENOBUFS, EPROTO...                 *)
AcceptFails ==
    /\ phase' = "noaccept"
    /\ UNCHANGED <<tableVars, connVars, peerVars, backlog>>

ProcessAccept ==
    /\ phase = "dispatch" /\ Readable(ListenFd)
    /\ \/ \E c \in Conn : AcceptConn(c)
       \/ AcceptPastTable \/ AcceptNone \/ AcceptFails
    /\ ReadDone(ListenFd)
    /\ UNCHANGED <<sleep, lag, batch, seen>>

(* The outcomes of ProcessRecvCallback for connection c, after it has read  *)
(* some of the input.                                                       *)
Consume(c) == \E left \in 0 .. inbox[c] - 1 : inbox' = [inbox EXCEPT ![c] = left]

RecvPartial(c) ==
    /\ Consume(c)
    /\ phase' = "write"
    /\ UNCHANGED <<tableVars, connVars, ending>>

(* Mutant: the timer is renewed from its old deadline. *)
RecvPacket_Extends(c) ==
    /\ Consume(c)
    /\ ttl' = [ttl EXCEPT ![c] = @ + Interval]
    /\ \/ /\ EventAdd(iFd[c], "W", c, "write")
          /\ reply' = [reply EXCEPT ![c] = "pending"]
       \/ /\ phase' = "write"
          /\ UNCHANGED <<iMask, pstArg, interest, reply>>
    /\ UNCHANGED <<open, iFd, iClientCount, ending>>

RecvPacket(c) ==
    /\ Consume(c)
    /\ ttl' = [ttl EXCEPT ![c] = Interval]
    /\ \/ /\ EventAdd(iFd[c], "W", c, "write")
          /\ reply' = [reply EXCEPT ![c] = "pending"]
       \/ /\ phase' = "write"
          /\ UNCHANGED <<iMask, pstArg, interest, reply>>
    /\ UNCHANGED <<open, iFd, iClientCount, ending>>

(* An end of file, an error, nothing to read, or a malformed header. *)
RecvClose(c) == DestroyConn(c, "write")

(* The read callback runs with the argument in the slot. *)
RecvOn(f, Outcome(_)) ==
    /\ phase = "dispatch" /\ f # ListenFd /\ Readable(f)
    /\ Outcome(pstArg[f])
    /\ ReadDone(f)
    /\ UNCHANGED <<backlog, sleep, lag, batch, seen>>

ProcessRecvPartial == \E f \in Fd : RecvOn(f, RecvPartial)
ProcessRecvPacket(c) == \E f \in Fd : pstArg[f] = c /\ RecvOn(f, RecvPacket)
ProcessRecvClose == \E f \in Fd : RecvOn(f, RecvClose)

(* The write half of the event is done. *)
EventDone ==
    /\ batch' = [batch EXCEPT ![cur] = {}]
    /\ cur' = -1

(* The mask is read again: the read callback may have closed the            *)
(* connection, or asked for write events.                                   *)
SkipWrite ==
    /\ phase = "write" /\ ~Writable(cur)
    /\ phase' = "dispatch" /\ EventDone
    /\ UNCHANGED <<tableVars, connVars, peerVars, backlog, sleep, lag, seen>>

(* Mutants: the write event stays in the epoll set; it stays altogether. *)
SendAll_NoCtl(c) ==
    /\ reply[c] = "pending" /\ ending[c] # "rst"
    /\ iMask' = [iMask EXCEPT ![iFd[c]] = @ \ {"W"}]
    /\ reply' = [reply EXCEPT ![c] = "none"]
    /\ phase' = "dispatch"
    /\ UNCHANGED <<interest, pstArg, open, iFd, ttl, iClientCount, peerVars>>

SendAll_KeepsEvent(c) ==
    /\ reply[c] = "pending" /\ ending[c] # "rst"
    /\ reply' = [reply EXCEPT ![c] = "none"]
    /\ phase' = "dispatch"
    /\ UNCHANGED <<tableVars, iFd, ttl, iClientCount, peerVars>>

(* ProcessSendCallback: nothing to send; all sent (EventDel of the write    *)
(* event); a part sent; an error, or SIGPIPE, on a connection that was      *)
(* reset.                                                                   *)
SendAll(c) ==
    LET f  == iFd[c]
        ok == CtlOK("MOD", f)
    IN  /\ reply[c] = "pending" /\ ending[c] # "rst"
        /\ iMask' = [iMask EXCEPT ![f] = @ \ {"W"}]
        /\ interest' = [interest EXCEPT ![f] = iMask'[f]]
        /\ reply' = [reply EXCEPT ![c] = "none"]
        /\ phase' = IF ok THEN "dispatch" ELSE "noctl"
        /\ UNCHANGED <<pstArg, open, iFd, ttl, iClientCount, peerVars>>

SendSome(c) ==
    /\ reply[c] # "pending" \/ ending[c] # "rst"
    /\ phase' = "dispatch"
    /\ UNCHANGED <<tableVars, connVars, peerVars>>

SendError(c) ==
    /\ reply[c] = "pending" /\ ending[c] = "rst"
    /\ \/ DestroyConn(c, "dispatch")
       \/ /\ ~Daemon
          /\ phase' = "sigpipe"
          /\ UNCHANGED <<tableVars, connVars, peerVars>>

ProcessSend ==
    /\ phase = "write" /\ Writable(cur)
    /\ LET c == pstArg[cur]
       IN  SendAll(c) \/ SendSome(c) \/ SendError(c)
    /\ EventDone
    /\ UNCHANGED <<backlog, sleep, lag, seen>>

BatchDone ==
    /\ phase = "dispatch" /\ \A f \in Fd : batch[f] = {}
    /\ phase' = "timeouts"
    /\ UNCHANGED <<tableVars, connVars, peerVars, backlog,
                   sleep, lag, batch, seen, cur>>

(* Mutant: timers are looked at before the events of the batch. *)
Expire_BeforeBatch(c) ==
    /\ phase \in {"dispatch", "timeouts"} /\ c \in Live /\ ttl[c] = 0
    /\ DestroyConn(c, phase)
    /\ UNCHANGED <<backlog, sleep, lag, batch, seen, cur>>

(* ReactorProcessTimeoutEvent: one due timer, ConnectionTimeoutCallback. *)
Expire(c) ==
    /\ phase = "timeouts" /\ c \in Live /\ ttl[c] = 0
    /\ DestroyConn(c, "timeouts")
    /\ UNCHANGED <<backlog, sleep, lag, batch, seen, cur>>

TimeoutsDone ==
    /\ phase = "timeouts" /\ \A c \in Live : ttl[c] > 0
    /\ phase' = "top"
    /\ UNCHANGED <<tableVars, connVars, peerVars, backlog,
                   sleep, lag, batch, seen, cur>>

(* A step of the worker's only thread. *)
LoopStep ==
    \/ EventBaseCreate
    \/ EnterWait \/ WaitReturns
    \/ \E f \in Fd : SkipRead(f)
    \/ ProcessAccept
    \/ ProcessRecvPartial \/ ProcessRecvClose
    \/ \E c \in Conn : ProcessRecvPacket(c)
    \/ SkipWrite \/ ProcessSend
    \/ BatchDone
    \/ \E c \in Conn : Expire(c)
    \/ TimeoutsDone

Next ==
    \/ LoopStep \/ WaitInterrupted
    \/ Connect \/ Steal \/ Tick
    \/ \E c \in Conn : ClientSends(c) \/ ClientEnds(c)

Spec == Init /\ [][Next]_vars

(* The operating system runs the worker and time passes. *)
Fairness == WF_vars(LoopStep) /\ WF_vars(Tick)

FairSpec == Spec /\ Fairness

(***************************************************************************)
(* Properties.                                                             *)
(***************************************************************************)

(* The types of the state. *)
TypeOK ==
    /\ iMask \in [Fd -> SUBSET {"R", "W"}]
    /\ interest \in [Fd -> SUBSET {"R", "W"}]
    /\ pstArg \in [Fd -> Conn \cup {NULL}]
    /\ open \subseteq Fd
    /\ iFd \in [Conn -> Fd \cup {-1}]
    /\ reply \in [Conn -> {"none", "pending"}]
    /\ ttl \in [Conn -> 0 .. Interval]
    /\ inbox \in [Conn -> 0 .. MaxInbox]
    /\ ending \in [Conn -> {"open", "fin", "rst"}]
    /\ iClientCount \in Int
    /\ backlog \in 0 .. MaxBacklog
    /\ phase \in {"start", "top", "wait", "dispatch", "write", "timeouts",
                "noctl", "noaccept", "sigpipe", "overrun"}
    /\ sleep \in -1 .. Interval /\ lag \in 0 .. Interval
    /\ batch \in [Fd -> SUBSET {"R", "W"}]
    /\ seen \in [Fd -> Conn \cup {NULL}]
    /\ cur \in Fd \cup {-1}

(* The epoll set holds what iMask says, for every descriptor, and watches   *)
(* exactly the open ones: what EventAdd and EventDel rely on when they      *)
(* choose between ADD, MOD and DEL, whose failure would end the worker.     *)
(* The listen slot is the exception: it may hold what malloc left in it.    *)
KernelAgrees ==
    Running => /\ \A f \in Fd \ {ListenFd} : interest[f] = iMask[f]
               /\ open = {f \in Fd : iMask[f] # {}}
               /\ interest[ListenFd] \subseteq iMask[ListenFd]

(* The argument a callback will get is a connection that was not freed, and *)
(* it is the connection of that very descriptor, whatever was closed and    *)
(* accepted since the slot was filled.                                      *)
ArgIsLive ==
    /\ \A f \in Fd : pstArg[f] # NULL => iFd[pstArg[f]] = f
    /\ \A c \in Live : pstArg[iFd[c]] = c

(* An event that waits in the batch is dispatched to the connection it was  *)
(* reported for: a descriptor closed and reused while the batch is being    *)
(* worked off has no event left in it.  The read callback may only have     *)
(* closed it before the write half of the same event.                       *)
BatchFresh ==
    Running => \A f \in Fd \ {ListenFd} : batch[f] # {} =>
        /\ seen[f] # NULL
        /\ pstArg[f] = seen[f] \/ (f = cur /\ iMask[f] = {})

(* A connection has a write event registered exactly while it has something *)
(* to send: no reply waits without one, and the level-triggered loop does   *)
(* not spin on an idle socket.                                              *)
WriteArmed ==
    \A c \in Live : "W" \in iMask[iFd[c]] <=> reply[c] = "pending"

(* Descriptors and counts balance over every way a connection can end: the  *)
(* open descriptors are the listen socket and one for each live connection, *)
(* and iClientCount counts them.                                            *)
NothingLeaks ==
    /\ open = {ListenFd} \cup {iFd[c] : c \in Live}
    /\ iClientCount = Cardinality(open) - 1

(* The exits of EventAdd, EventDel and __DestroyConn when epoll_ctl fails   *)
(* are never taken by a worker that runs, whatever was closed, reused or    *)
(* armed: only accept and SIGPIPE end it.                                   *)
CtlNeverFails == [][Running => phase' # "noctl"]_vars

(* A connection that never completes a packet is closed, even when its      *)
(* client keeps sending pieces of one, signals interrupt epoll_wait and     *)
(* other connections keep the loop busy: only a whole packet renews the     *)
(* timer.                                                                   *)
SilentIsReaped ==
    \A c \in Conn :
        \/ []<>(c \notin Live \/ phase \in Ended)
        \/ []<><<ProcessRecvPacket(c)>>_vars

(* The listen queue moves: while connections wait in it and no sibling      *)
(* takes them, the worker goes on accepting, although it accepts only one   *)
(* for each read event.                                                     *)
QueueMoves ==
    \/ []<>(backlog = 0 \/ phase \in Ended)
    \/ []<><<ProcessAccept>>_vars
==============================================================================
