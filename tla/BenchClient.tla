----------------------------- MODULE BenchClient -----------------------------
(***************************************************************************)
(* The benchmark client, src/client/http/worker.c: one process that keeps   *)
(* needClientNum connections busy until needRequestNum answers were read.   *)
(*                                                                          *)
(* A client's slot is its descriptor modulo needClientNum.  The functions   *)
(* of the source that a handler strings together (ReactorCloseConnection,   *)
(* ReactorClientInit, ...) are operators from a pool to a pool: p.slot are  *)
(* the ClientFD structures, p.sock the kernel's sockets, p.live is          *)
(* liveClientNum.  Requests and answers are counted in pieces.  Time goes   *)
(* in ticks of TIMEOUT_USEC_TIMEVAL; age is how long ago touchTime was, up  *)
(* to CONNECT_TIMEOUT.                                                      *)
(***************************************************************************)
EXTENDS Integers, FiniteSets, FiniteSetsExt

CONSTANTS needClientNum,
          needRequestNum,
          FirstFd,       \* descriptors below are taken before the first client:
                         \* stdio, the epoll instance, and the two that the
                         \* calls of TestConnect in ParseOptions leave open
          NoFile,        \* RLIMIT_NOFILE
          ReqLen,        \* sendBufLen, in pieces
          Pieces,        \* segments in which an answer arrives
          SndBuf,        \* pieces the server may leave unread
          RecvMax,       \* MAX_RECV_BUF_LEN, in pieces
          Timeout,       \* CONNECT_TIMEOUT, in ticks
          MaxFail,       \* MAX_FAIL_COUNT
          Modes,         \* ways to call it: "short", "keep" (-k), "udp" (-u)
          MaxTimeouts,   \* bound: answers that come too late
          MaxEnds        \* bound: times that connections are refused, closed or
                         \* reset, or datagrams lost

ASSUME BenchAssumption ==
    /\ needClientNum \in Nat \ {0} /\ needRequestNum \in Nat \ {0}
    /\ FirstFd \in Nat /\ NoFile \in Nat
    /\ ReqLen \in Nat \ {0} /\ Pieces \in Nat \ {0}
    /\ SndBuf \in Nat /\ SndBuf >= ReqLen
    /\ RecvMax \in Nat \ {0} /\ Timeout \in Nat \ {0} /\ MaxFail \in Nat
    /\ Modes \subseteq {"short", "keep", "udp"} /\ Modes # {}
    /\ MaxTimeouts \in Nat /\ MaxEnds \in Nat

Slot == 0 .. needClientNum - 1
Fd == FirstFd .. NoFile - 1
SlotOf(f) == f % needClientNum

VARIABLES mode,
          slot,     \* per slot: fd (-1: free), mask, sendedLen, age of touchTime
          sock,     \* per descriptor: state, interest of the epoll set, wire
                    \* (pieces the server has not read), inq (pieces to read),
                    \* rest (pieces of the current answer still to come)
          liveClientNum,
          doneRequests,
          written,  \* history: requests written out whole, re-sent ones included
          timeoutClientNum,
          epoll_fail,
          stop,     \* BOOLEAN: the loop is told to end
          phase,    \* where the process is, or how it ended
          due,      \* BOOLEAN: 200 ms passed since the last check
          batch,    \* per descriptor: the event returned, "none" when handled
          ends

poolVars == <<slot, sock, liveClientNum>>
countVars == <<doneRequests, written, timeoutClientNum, epoll_fail>>
loopVars == <<stop, phase, due, batch>>
vars == <<mode, poolVars, countVars, loopVars, ends>>

Ended == {"report", "failures", "noclient", "full", "sigpipe"}

NoSock == [st |-> "closed", interest |-> {}, wire |-> 0, inq |-> 0, rest |-> 0]

Pool == [slot |-> slot, sock |-> sock, live |-> liveClientNum]
Becomes(p) == slot' = p.slot /\ sock' = p.sock /\ liveClientNum' = p.live

Used(p) == {s \in Slot : p.slot[s].fd # -1}
Free(p) == {f \in Fd : p.sock[f].st = "closed"}

(***************************************************************************)
(* Events of a client.                                                     *)
(***************************************************************************)

(* epoll_ctl: ADD of a member fails, MOD and DEL of a stranger too. *)
CtlOK(p, op, f) == (op = "ADD") <=> (p.sock[f].interest = {})

ReactorAddEvent(p, s, e) ==
    LET c  == p.slot[s]
        op == IF c.mask = {} THEN "ADD" ELSE "MOD"
    IN  [p EXCEPT !.slot[s].mask = @ \cup {e},
                  !.sock[c.fd].interest = IF CtlOK(p, op, c.fd)
                                          THEN c.mask \cup {e} ELSE @]

(* EPOLL_CTL_DEL when nothing is left, MOD otherwise. *)
ReactorDelEvent(p, s, e) ==
    LET c  == p.slot[s]
        op == IF c.mask \subseteq {e} THEN "DEL" ELSE "MOD"
    IN  [p EXCEPT !.slot[s].mask = @ \ {e},
                  !.sock[c.fd].interest = IF CtlOK(p, op, c.fd)
                                          THEN c.mask \ {e} ELSE @]

(***************************************************************************)
(* The life of a client.                                                   *)
(***************************************************************************)

(* Mutant: the slot is not freed. *)
ReactorCloseConnection_KeepsSlot(p, s) ==
    [p EXCEPT !.sock[p.slot[s].fd] = NoSock, !.live = @ - 1]

(* Mutant: the client is not counted off. *)
ReactorCloseConnection_KeepsCount(p, s) ==
    [p EXCEPT !.sock[p.slot[s].fd] = NoSock, !.slot[s].fd = -1]

(* close takes the descriptor out of the epoll set. *)
ReactorCloseConnection(p, s) ==
    [p EXCEPT !.sock[p.slot[s].fd] = NoSock,
              !.slot[s].fd = -1,
              !.live = @ - 1]

(* socket hands out the lowest free descriptor. *)
NewFd(p) == Min(Free(p))

(* Whether ReactorClientInit returns 0; connects is the outcome of socket   *)
(* and connect.  A taken slot is the "fd collison" of the source.           *)
InitOK(p, connects) ==
    /\ connects /\ Free(p) # {}
    /\ p.slot[SlotOf(NewFd(p))].fd = -1

(* On failure the descriptor is closed again.  touchTime is not set.        *)
ReactorClientInit(p, connects) ==
    LET f == NewFd(p)
        s == SlotOf(f)
        q == [slot |-> [p.slot EXCEPT ![s] = [@ EXCEPT !.fd = f, !.mask = {}, !.sendedLen = 0]],
              sock |-> [p.sock EXCEPT ![f] = [NoSock EXCEPT !.st = IF mode = "udp" THEN "up"
                                                                   ELSE "connecting"]],
              live |-> p.live + 1]
    IN  IF InitOK(p, connects) THEN ReactorAddEvent(q, s, "W") ELSE p

(* Mutant: the client goes on reading. *)
ReactorResetClient_StillReads(p, s) ==
    [ReactorAddEvent(p, s, "W") EXCEPT !.slot[s].sendedLen = 0]

ReactorResetClient(p, s) ==
    LET q == ReactorAddEvent(ReactorDelEvent(p, s, "R"), s, "W")
    IN  [q EXCEPT !.slot[s].sendedLen = 0]

(* A new client in the place of s, as five error paths do; the outcome of   *)
(* ReactorClientInit is not looked at.                                      *)
Replaced(p, s, connects) == ReactorClientInit(ReactorCloseConnection(p, s), connects)

(* What follows an answer unless it was the last one that is needed. *)
ReactorCloseConnectionNormal(p, s, connects) ==
    IF mode \in {"keep", "udp"} THEN ReactorResetClient(p, s)
                                ELSE Replaced(p, s, connects)

Touched(p, s) == [p EXCEPT !.slot[s].age = 0]

(***************************************************************************)
(* The loop.                                                               *)
(***************************************************************************)

(* A socket is writable while less than this is unread. *)
Room == IF mode = "udp" THEN SndBuf - ReqLen + 1 ELSE SndBuf

(* What epoll_wait says of a socket: an error whatever the interest. *)
Event(f) ==
    LET k == sock[f]
    IN  IF k.interest = {} THEN "none"
        ELSE IF k.st = "rst" THEN "ERR"
        ELSE IF "R" \in k.interest /\ (k.inq > 0 \/ k.st = "fin") THEN "IN"
        ELSE IF "W" \in k.interest /\ k.st \in {"up", "fin"} /\ k.wire < Room
             THEN "OUT"
        ELSE "none"

(* Client s may time out: while the bound lasts, or when no answer to what  *)
(* it sent is under way.                                                    *)
MayExpire(s) ==
    \/ timeoutClientNum < MaxTimeouts
    \/ slot[s].fd = -1
    \/ LET k == sock[slot[s].fd] IN k.wire < ReqLen /\ k.inq = 0 /\ k.rest = 0

Aged(s, d) ==
    LET a == slot[s].age + d
    IN  IF a < Timeout THEN a
        ELSE IF slot[s].age = Timeout \/ MayExpire(s) THEN Timeout
        ELSE Timeout - 1

BatchDone == \A f \in Fd : batch[f] = "none"

(* epoll_wait and TouchTime; without an event time passes. *)
EpollWait(d) ==
    /\ phase = "loop" /\ BatchDone /\ ~due /\ ~stop
    /\ d > 0 \/ \E f \in Fd : Event(f) # "none"
    /\ batch' = [f \in Fd |-> Event(f)]
    /\ slot' = [s \in Slot |-> [slot[s] EXCEPT !.age = Aged(s, d)]]
    /\ due' = (d > 0)
    /\ UNCHANGED <<mode, sock, liveClientNum, countVars, stop, phase, ends>>

Handled(f) == batch' = [batch EXCEPT ![f] = "none"]

Dispatches(f, event) == phase = "loop" /\ batch[f] = event

(* EPOLLERR or EPOLLHUP. *)
DispatchError(f, connects) ==
    /\ Dispatches(f, "ERR")
    /\ epoll_fail' = epoll_fail + 1
    /\ IF epoll_fail' > MaxFail
       THEN phase' = "failures" /\ UNCHANGED poolVars
       ELSE UNCHANGED phase /\ Becomes(Replaced(Pool, SlotOf(f), connects))
    /\ Handled(f)
    /\ UNCHANGED <<mode, doneRequests, written, timeoutClientNum, stop, due, ends>>

(* How much of the request write may take; a datagram goes as a whole. *)
Writable(f) ==
    LET left == ReqLen - slot[SlotOf(f)].sendedLen
    IN  IF mode = "udp" THEN {left} ELSE 1 .. Min({left, SndBuf - sock[f].wire})

(* A request went out as a whole, first or again; counted up to as many as  *)
(* AnsweredOnce can tell apart.                                             *)
CountRequest(whole) ==
    written' = IF whole THEN Min({written + 1, needRequestNum + needClientNum}) ELSE written

(* Mutant: the write event is not removed with the last piece. *)
SendToServer_KeepsEvent(f) ==
    /\ Dispatches(f, "OUT")
    /\ sock[f].st # "rst"
    /\ LET s == SlotOf(f)
       IN  \E n \in Writable(f) :
              LET p == [Touched(Pool, s) EXCEPT !.slot[s].sendedLen = @ + n,
                                                !.sock[f].wire = @ + n]
                  whole == p.slot[s].sendedLen = ReqLen
              IN  /\ Becomes(IF whole THEN ReactorAddEvent(p, s, "R") ELSE p)
                  /\ CountRequest(whole)
    /\ Handled(f)
    /\ UNCHANGED <<mode, doneRequests, timeoutClientNum, epoll_fail, stop, phase, due, ends>>

(* SendToServerCallback: write takes some of the request.  EAGAIN does not  *)
(* follow a report of room, as nobody else writes; no handler is installed  *)
(* that could cause EINTR.                                                  *)
SendToServer(f) ==
    /\ Dispatches(f, "OUT")
    /\ sock[f].st # "rst"
    /\ LET s == SlotOf(f)
       IN  \E n \in Writable(f) :
              LET p == [Touched(Pool, s) EXCEPT !.slot[s].sendedLen = @ + n,
                                                !.sock[f].wire = @ + n]
                  whole == p.slot[s].sendedLen = ReqLen
              IN  /\ Becomes(IF whole
                             THEN ReactorAddEvent(ReactorDelEvent(p, s, "W"), s, "R")
                             ELSE p)
                  /\ CountRequest(whole)
    /\ Handled(f)
    /\ UNCHANGED <<mode, doneRequests, timeoutClientNum, epoll_fail, stop, phase, due, ends>>

(* The connection was reset after epoll_wait returned: write fails, or      *)
(* raises SIGPIPE, which main does not ignore.                              *)
SendFails(f, connects) ==
    /\ Dispatches(f, "OUT")
    /\ sock[f].st = "rst"
    /\ \/ Becomes(Replaced(Touched(Pool, SlotOf(f)), SlotOf(f), connects)) /\ UNCHANGED phase
       \/ mode # "udp" /\ phase' = "sigpipe" /\ UNCHANGED poolVars
    /\ Handled(f)
    /\ UNCHANGED <<mode, countVars, stop, due, ends>>

(* RecvFromServerCallback when there is input: one datagram, or all there   *)
(* is up to one piece more than MAX_RECV_BUF_LEN.  DecodeResponse takes     *)
(* whatever came for a whole answer.                                        *)
RecvFromServer(f, connects) ==
    LET s == SlotOf(f)
        n == Min({sock[f].inq, IF mode = "udp" THEN 1 ELSE RecvMax + 1})
        p == [Touched(Pool, s) EXCEPT !.sock[f].inq = @ - n]
    IN  /\ Dispatches(f, "IN")
        /\ n > 0
        /\ Handled(f)
        /\ IF n > RecvMax
           THEN phase' = "full" /\ Becomes(p) /\ UNCHANGED <<doneRequests, stop>>
           ELSE /\ doneRequests' = Min({doneRequests + 1, needRequestNum})
                /\ IF doneRequests' >= needRequestNum
                   THEN stop' = TRUE /\ Becomes(p)
                   ELSE /\ Becomes(ReactorCloseConnectionNormal(p, s, connects))
                        /\ UNCHANGED stop
                /\ UNCHANGED phase
        /\ UNCHANGED <<mode, written, timeoutClientNum, epoll_fail, due, ends>>

(* read returns 0 or an error. *)
RecvFails(f, connects) ==
    /\ Dispatches(f, "IN")
    /\ sock[f].inq = 0
    /\ Becomes(Replaced(Touched(Pool, SlotOf(f)), SlotOf(f), connects))
    /\ Handled(f)
    /\ UNCHANGED <<mode, countVars, stop, phase, due, ends>>

Expired == {s \in Slot : slot[s].fd > 0 /\ slot[s].age >= Timeout}

(* Every slot of S reset; each reset changes its own slot and descriptor. *)
ResetAll(S) ==
    LET after(s) == ReactorResetClient(Pool, s)
        InS(f)   == SlotOf(f) \in S /\ slot[SlotOf(f)].fd = f
    IN  [Pool EXCEPT
            !.slot = [s \in Slot |-> IF s \in S THEN after(s).slot[s] ELSE slot[s]],
            !.sock = [f \in Fd |-> IF InS(f) THEN after(SlotOf(f)).sock[f] ELSE sock[f]]]

(* After the check clients that are missing are created. *)
Checked ==
    /\ phase' = IF liveClientNum < needClientNum THEN "refill" ELSE "loop"
    /\ due' = FALSE

(* Mutants: clients that time out are only counted; the check does not wait *)
(* for the rest of the batch.                                               *)
ClearTimeoutConnection_CountsOnly ==
    /\ phase = "loop" /\ BatchDone /\ due
    /\ timeoutClientNum' = Min({timeoutClientNum + Cardinality(Expired), MaxTimeouts})
    /\ Checked
    /\ UNCHANGED <<mode, poolVars, doneRequests, written, epoll_fail,
                   stop, batch, ends>>

ClearTimeoutConnection_Early ==
    /\ phase = "loop" /\ due
    /\ timeoutClientNum' = Min({timeoutClientNum + Cardinality(Expired), MaxTimeouts})
    /\ Becomes(ResetAll(Expired))
    /\ Checked
    /\ UNCHANGED <<mode, doneRequests, written, epoll_fail, stop, batch, ends>>

(* ClearTimeoutConnection, when 200 ms have passed; timeoutClientNum is only *)
(* shown, and counted up to its bound.                                      *)
ClearTimeoutConnection ==
    /\ phase = "loop" /\ BatchDone /\ due
    /\ timeoutClientNum' = Min({timeoutClientNum + Cardinality(Expired), MaxTimeouts})
    /\ Becomes(ResetAll(Expired))
    /\ Checked
    /\ UNCHANGED <<mode, doneRequests, written, epoll_fail, stop, batch, ends>>

(* One client more, at the start or after the check; no client, no run. *)
Refill(connects) ==
    /\ phase = "refill"
    /\ Becomes(ReactorClientInit(Pool, connects))
    /\ phase' = IF ~InitOK(Pool, connects) THEN "noclient"
                ELSE IF liveClientNum' < needClientNum THEN "refill" ELSE "loop"
    /\ UNCHANGED <<mode, countVars, stop, due, batch, ends>>

(* The loop ends and the report is shown. *)
Report ==
    /\ phase = "loop" /\ BatchDone /\ ~due /\ stop
    /\ phase' = "report"
    /\ UNCHANGED <<mode, poolVars, countVars, stop, due, batch, ends>>

(***************************************************************************)
(* The server and the network.                                             *)
(***************************************************************************)

Net(socks) ==
    /\ phase \notin Ended
    /\ sock' = socks
    /\ UNCHANGED <<mode, slot, liveClientNum, countVars, loopVars>>

Connected(f) ==
    /\ sock[f].st = "connecting"
    /\ Net([sock EXCEPT ![f].st = "up"])
    /\ UNCHANGED ends

(* The next segment of the answer the server is at, or the first one of the *)
(* answer to the next request.                                              *)
Answer(f) ==
    LET more == sock[f].rest > 0
    IN  /\ sock[f].st = "up" /\ (more \/ sock[f].wire >= ReqLen)
        /\ Net([sock EXCEPT ![f].inq = @ + 1,
                            ![f].rest = IF more THEN @ - 1 ELSE Pieces - 1,
                            ![f].wire = IF more THEN @ ELSE @ - ReqLen])
        /\ UNCHANGED ends

(* The peer closes the connections of some clients, or resets or refuses    *)
(* them (for datagrams: the port is unreachable); all at once when the      *)
(* server ends.                                                             *)
PeerEnds(F, how) ==
    /\ ends < MaxEnds /\ (mode = "udp" => how = "rst")
    /\ F # {} /\ \A f \in F :
          sock[f].st \in IF how = "fin" THEN {"up"} ELSE {"connecting", "up"}
    /\ Net([f \in Fd |-> [sock[f] EXCEPT !.st = IF f \in F THEN how ELSE @]])
    /\ ends' = ends + 1

(* Data for a connection its server has closed is answered by a reset. *)
ResetAfterClose(f) ==
    /\ sock[f].st = "fin" /\ sock[f].wire > 0
    /\ Net([sock EXCEPT ![f].st = "rst"])
    /\ UNCHANGED ends

(* The datagrams of some clients are lost. *)
Lost(F) ==
    /\ ends < MaxEnds /\ mode = "udp"
    /\ F # {} /\ \A f \in F : sock[f].wire > 0
    /\ Net([f \in Fd |-> [sock[f] EXCEPT !.wire = IF f \in F THEN 0 ELSE @]])
    /\ ends' = ends + 1

Init ==
    /\ mode \in Modes
    /\ slot = [s \in Slot |-> [fd |-> -1, mask |-> {}, sendedLen |-> 0, age |-> Timeout]]
    /\ sock = [f \in Fd |-> NoSock]
    /\ liveClientNum = 0 /\ doneRequests = 0 /\ written = 0
    /\ timeoutClientNum = 0 /\ epoll_fail = 0
    /\ stop = FALSE /\ phase = "refill" /\ due = FALSE
    /\ batch = [f \in Fd |-> "none"]
    /\ ends = 0

Loop ==
    \/ \E d \in 0 .. Timeout : EpollWait(d)
    \/ \E f \in Fd : SendToServer(f)
    \/ \E f \in Fd, connects \in BOOLEAN :
          \/ DispatchError(f, connects) \/ SendFails(f, connects)
          \/ RecvFromServer(f, connects) \/ RecvFails(f, connects)
    \/ ClearTimeoutConnection \/ Report
    \/ \E connects \in BOOLEAN : Refill(connects)

Serves == \E f \in Fd : Connected(f) \/ Answer(f) \/ ResetAfterClose(f)

Troubles ==
    \E F \in SUBSET Fd : Lost(F) \/ \E how \in {"fin", "rst"} : PeerEnds(F, how)

Next == Loop \/ Serves \/ Troubles

Spec == Init /\ [][Next]_vars

(* The process runs; connections get established and what the server got    *)
(* is answered, by a reset if it has closed the connection, in whatever     *)
(* order it likes.                                                          *)
Fairness == WF_vars(Loop) /\ WF_vars(Serves)

FairSpec == Spec /\ Fairness

(***************************************************************************)
(* Properties.                                                             *)
(***************************************************************************)

Waiting == {s \in Used(Pool) : "R" \in slot[s].mask}

(* The types of the state. *)
TypeOK ==
    /\ mode \in Modes
    /\ slot \in [Slot -> [fd : Fd \cup {-1}, mask : SUBSET {"R", "W"},
                          sendedLen : 0 .. ReqLen, age : 0 .. Timeout]]
    /\ sock \in [Fd -> [st : {"closed", "connecting", "up", "fin", "rst"},
                        interest : SUBSET {"R", "W"}, wire : 0 .. SndBuf,
                        inq : Nat, rest : 0 .. Pieces - 1]]
    /\ liveClientNum \in 0 .. needClientNum
    /\ doneRequests \in 0 .. needRequestNum
    /\ written \in 0 .. needRequestNum + needClientNum
    /\ timeoutClientNum \in 0 .. MaxTimeouts /\ epoll_fail \in 0 .. MaxFail + 1
    /\ stop \in BOOLEAN /\ due \in BOOLEAN
    /\ phase \in Ended \cup {"loop", "refill"}
    /\ batch \in [Fd -> {"none", "ERR", "IN", "OUT"}]
    /\ ends \in 0 .. MaxEnds

(* Slots and descriptors: every open descriptor of a client is in the slot  *)
(* the loop looks it up in, no slot holds a closed one, and liveClientNum   *)
(* counts them, however connections end and are replaced.  The comment in   *)
(* the loop fears that two descriptors meet in a slot: a client that is     *)
(* missing always finds its slot free, because socket returns the lowest    *)
(* free descriptor.                                                         *)
SlotExact ==
    /\ \A f \in Fd : sock[f].st # "closed" => slot[SlotOf(f)].fd = f
    /\ \A s \in Used(Pool) : sock[slot[s].fd].st # "closed"
    /\ liveClientNum = Cardinality(Used(Pool))
    /\ liveClientNum < needClientNum /\ Free(Pool) # {} =>
          slot[SlotOf(NewFd(Pool))].fd = -1

(* A client listens for one thing at a time and the epoll set agrees: it    *)
(* writes until its request is out, then reads.  The loop relies on it when *)
(* it runs both callbacks of an event without looking at the slot again.    *)
TurnTaking ==
    \A s \in Used(Pool) :
        /\ slot[s].mask = IF slot[s].sendedLen < ReqLen THEN {"W"} ELSE {"R"}
        /\ sock[slot[s].fd].interest = slot[s].mask

(* An event still to be dispatched is for the client that caused it, though *)
(* the callbacks before it closed and opened connections.                   *)
BatchFresh ==
    phase \notin Ended =>
        \A f \in Fd : batch[f] # "none" =>
            /\ slot[SlotOf(f)].fd = f
            /\ batch[f] = "IN" => "R" \in slot[SlotOf(f)].mask
            /\ batch[f] = "OUT" => "W" \in slot[SlotOf(f)].mask

(* Between two answers that are counted for a client a whole request of its *)
(* goes out, also when a late answer comes after the request was sent again: *)
(* answers counted and answers waited for never exceed the requests written *)
(* out whole.  (The client that stops the loop stays as it is.)             *)
AnsweredOnce ==
    doneRequests + (IF stop THEN 0 ELSE Cardinality(Waiting)) <= written

(* With a server that answers, the benchmark ends: with its report, or with *)
(* one of the exits of the source.                                          *)
Finishes == <>(phase \in Ended)
=============================================================================
