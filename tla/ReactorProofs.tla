---------------------------- MODULE ReactorProofs ----------------------------
(***************************************************************************)
(* Proofs about Reactor, for any number of descriptors, connections and     *)
(* table slots and any contents malloc leaves in the listen slot: the six   *)
(* invariants of the worker, none of them inductive by itself, and that     *)
(* epoll_ctl never fails.                                                   *)
(*                                                                          *)
(* The argument: while the worker runs a slot with a mask is the slot of an *)
(* open descriptor, the open descriptors are the listen socket and those of *)
(* live connections, and a connection's slot points back to it.  So every   *)
(* callback gets a live connection, every epoll_ctl is the one the kernel   *)
(* expects and none of the exits on failure of one is ever taken; and a     *)
(* descriptor that accept hands out again has no event left in the batch,   *)
(* for one with an event in it was not closed since epoll_wait returned.    *)
(***************************************************************************)
EXTENDS Reactor, FiniteSetTheorems, TLAPS

(***************************************************************************)
(* The inductive invariant.                                                *)
(***************************************************************************)

(* Before EventBaseCreate there is no connection and epoll watches nothing. *)
Starting ==
    phase = "start" => /\ Live = {}
                       /\ \A f \in Fd : interest[f] = {} /\ (f # ListenFd => iMask[f] = {})

(* A live connection always waits for input, so that its mask is not empty  *)
(* after the write event is deleted.                                        *)
Reads == \A c \in Live : "R" \in iMask[iFd[c]]

(* A freed block has nothing to send. *)
DeadQuiet == \A c \in Conn : iFd[c] = -1 => reply[c] = "none"

(* The listen slot belongs to no connection. *)
NoListenArg == pstArg[ListenFd] = NULL

(* What holds of the slots, the descriptors and the connections. *)
TableInv == ArgIsLive /\ WriteArmed /\ NothingLeaks /\ Reads /\ DeadQuiet /\ NoListenArg

(* A descriptor is current exactly between the two halves of its event. *)
Dispatching == phase \notin Ended => (phase = "write" <=> cur # -1)

(* The batch is worked off before the timers are looked at, and the listen  *)
(* socket has no write event.                                               *)
BatchIdle ==
    phase \in {"start", "top", "wait", "timeouts"} => \A f \in Fd : batch[f] = {}
NoListenWrite == "W" \notin batch[ListenFd]

(* What holds of the batch. *)
LoopInv == BatchFresh /\ Dispatching /\ BatchIdle /\ NoListenWrite

(* The inductive invariant of the worker. *)
Inv == TypeOK /\ Starting /\ KernelAgrees /\ TableInv /\ LoopInv

(* What KernelAgrees says of a worker that runs. *)
Agree ==
    /\ \A f \in Fd \ {ListenFd} : interest[f] = iMask[f]
    /\ open = {f \in Fd : iMask[f] # {}}
    /\ interest[ListenFd] \subseteq iMask[ListenFd]

(***************************************************************************)
(* Operators.                                                              *)
(***************************************************************************)

(* The least element of a nonempty set of naturals. *)
LEMMA MinNat ==
    ASSUME NEW S, S \subseteq Nat, S # {}
    PROVE  Min(S) \in S /\ \A y \in S : Min(S) <= y
<1>1. PICK x \in S : \A y \in S : ~(<<y, x>> \in OpToRel(<, Nat))
  BY NatLessThanWellFounded, WFMin, Zenon
<1>2. ASSUME NEW y \in S PROVE x <= y
  <2>1. ~(y < x)
    <3> SUFFICES ASSUME y < x PROVE FALSE
      OBVIOUS
    <3>1. <<y, x>> \in OpToRel(<, Nat)
      BY DEF OpToRel
    <3> QED
      BY <3>1, <1>1
  <2> QED
    BY <2>1
<1> QED
  BY <1>2 DEF Min

(* The greater and the smaller of two integers. *)
LEMMA MinMaxOfTwo ==
    ASSUME NEW a \in Int, NEW b \in Int
    PROVE  /\ Min({a, b}) = IF a <= b THEN a ELSE b
           /\ Max({a, b}) = IF a >= b THEN a ELSE b
BY DEF Min, Max

(* The descriptors are finitely many, and so are the open ones. *)
LEMMA OpenFinite ==
    ASSUME TypeOK
    PROVE  IsFiniteSet(open) /\ Cardinality(open) \in Nat
<1>1. IsFiniteSet(Fd)
  BY FS_Interval, ReactorAssumption DEF Fd
<1> QED
  BY <1>1, FS_Subset, FS_CardinalityType DEF TypeOK

(* accept returns a descriptor that is not open. *)
LEMMA LowestFreeIsFree ==
    ASSUME TypeOK, Fd \ open # {}
    PROVE  LowestFree \in Fd \ open
<1>1. Fd \ open \subseteq Nat
  BY ReactorAssumption DEF Fd
<1> QED
  BY <1>1, MinNat DEF LowestFree

(* epoll_wait sleeps no longer than a connection may stay silent. *)
LEMMA WaitTimeoutType ==
    ASSUME TypeOK
    PROVE  WaitTimeoutValue \in -1 .. Interval
<1>1. CASE Live = {}
  BY <1>1, ReactorAssumption DEF WaitTimeoutValue
<1>2. CASE Live # {}
  <2> DEFINE S == {ttl[c] : c \in Live}
  <2>1. \A c \in Live : ttl[c] \in 0 .. Interval
    BY DEF TypeOK, Live
  <2>2. S \subseteq 0 .. Interval /\ S \subseteq Nat /\ S # {}
    BY <1>2, <2>1, ReactorAssumption
  <2>3. Min(S) \in S
    BY <2>2, MinNat, Zenon
  <2> QED
    BY <1>2, <2>2, <2>3, ReactorAssumption DEF WaitTimeoutValue
<1> QED
  BY <1>1, <1>2

(* The listen socket is a descriptor. *)
LEMMA ListenIsFd == ListenFd \in Fd /\ ListenFd # -1
BY ReactorAssumption DEF Fd, ListenFd

(***************************************************************************)
(* Slots and connections.                                                  *)
(***************************************************************************)

(* A live connection has an open descriptor that is not the listen socket,  *)
(* and the slot of that descriptor.                                         *)
LEMMA LiveHasSlot ==
    ASSUME TypeOK, TableInv, NEW c \in Live
    PROVE  /\ c \in Conn /\ iFd[c] \in Fd \ {ListenFd} /\ iFd[c] \in open
           /\ pstArg[iFd[c]] = c
BY ReactorAssumption DEF TypeOK, TableInv, Live, ArgIsLive, NothingLeaks, NoListenArg

(* A slot with a mask, other than the listen slot, holds the connection of  *)
(* its descriptor; so a callback gets a connection that was not freed.      *)
LEMMA SlotHasLive ==
    ASSUME TypeOK, TableInv, Agree, NEW f \in Fd \ {ListenFd}, iMask[f] # {}
    PROVE  pstArg[f] \in Live /\ iFd[pstArg[f]] = f /\ interest[f] = iMask[f]
<1>1. f \in open
  BY DEF Agree
<1>2. PICK c \in Live : iFd[c] = f
  BY <1>1 DEF TableInv, NothingLeaks
<1> QED
  BY <1>2, LiveHasSlot DEF Agree

(***************************************************************************)
(* What the operations do to the table.                                    *)
(***************************************************************************)

(* What a step that may change the table has to leave behind. *)
TableTypes ==
    /\ iMask \in [Fd -> SUBSET {"R", "W"}]
    /\ interest \in [Fd -> SUBSET {"R", "W"}]
    /\ pstArg \in [Fd -> Conn \cup {NULL}]
    /\ open \subseteq Fd
    /\ iFd \in [Conn -> Fd \cup {-1}]
    /\ reply \in [Conn -> {"none", "pending"}]
    /\ iClientCount \in Int

(* The table of a worker that runs. *)
TableOK == TableTypes /\ TableInv /\ Agree

(* __DestroyConn of a live connection: EventDel finds what it expects, the  *)
(* descriptor is given back, and the slot is nobody's.                      *)
LEMMA DestroyKeepsTable ==
    ASSUME TypeOK, TableInv, Agree, NEW c \in Live, NEW next, DestroyConn(c, next)
    PROVE  /\ phase' = next /\ TableOK'
           /\ ttl' \in [Conn -> 0 .. Interval] /\ inbox' \in [Conn -> 0 .. MaxInbox]
           /\ ending' \in [Conn -> {"open", "fin", "rst"}]
           /\ pstArg'[iFd[c]] = NULL /\ iMask'[iFd[c]] = {}
           /\ \A g \in Fd \ {iFd[c]} : pstArg'[g] = pstArg[g] /\ iMask'[g] = iMask[g]
<1> DEFINE f == iFd[c]
<1>1. c \in Conn /\ f \in Fd \ {ListenFd} /\ f \in open /\ pstArg[f] = c
  BY LiveHasSlot
<1>2. iMask[f] # {} /\ interest[f] = iMask[f]
  BY <1>1 DEF Agree
<1>3. phase' = next
  BY <1>2 DEF DestroyConn, CtlOK
<1>4. TableTypes'
  BY <1>1 DEF TypeOK, TableTypes, DestroyConn
<1>5. /\ ttl' \in [Conn -> 0 .. Interval] /\ inbox' \in [Conn -> 0 .. MaxInbox]
      /\ ending' \in [Conn -> {"open", "fin", "rst"}]
  BY <1>1, ReactorAssumption DEF TypeOK, DestroyConn
<1>6. /\ pstArg'[f] = NULL /\ iMask'[f] = {}
      /\ \A g \in Fd \ {f} : pstArg'[g] = pstArg[g] /\ iMask'[g] = iMask[g]
  BY <1>1 DEF TypeOK, DestroyConn
<1>7. Live' = Live \ {c} /\ \A d \in Live' : iFd'[d] = iFd[d] /\ iFd[d] # f
  <2>1. Live' = Live \ {c} /\ \A d \in Live' : iFd'[d] = iFd[d]
    BY <1>1 DEF TypeOK, DestroyConn, Live
  <2>2. \A d \in Live : iFd[d] = f => d = c
    BY <1>1, LiveHasSlot
  <2> QED
    BY <2>1, <2>2
<1>8. ArgIsLive'
  BY <1>1, <1>6, <1>7, ReactorAssumption DEF TypeOK, TableInv, ArgIsLive, DestroyConn, Live
<1>9. NothingLeaks'
  <2>1. open' = {ListenFd} \cup {iFd'[d] : d \in Live'}
    BY <1>1, <1>7 DEF TableInv, NothingLeaks, DestroyConn
  <2>2. Cardinality(open') = Cardinality(open) - 1
    BY <1>1, OpenFinite, FS_RemoveElement DEF DestroyConn
  <2> QED
    BY <2>1, <2>2, OpenFinite DEF TableInv, NothingLeaks, DestroyConn
<1>10. WriteArmed' /\ Reads'
  <2>1. \A d \in Live' : d \in Conn /\ d # c /\ reply'[d] = reply[d] /\ iMask'[iFd'[d]] = iMask[iFd[d]]
    BY <1>1, <1>6, <1>7, LiveHasSlot DEF TypeOK, DestroyConn, Live
  <2> QED
    BY <1>7, <2>1 DEF TableInv, WriteArmed, Reads
<1>11. DeadQuiet' /\ NoListenArg'
  BY <1>1, <1>6, ListenIsFd DEF TypeOK, TableInv, DeadQuiet, NoListenArg, DestroyConn
<1>12. Agree'
  BY <1>1, <1>2 DEF TypeOK, Agree, DestroyConn
<1> QED
  BY <1>3, <1>4, <1>5, <1>6, <1>8, <1>9, <1>10, <1>11, <1>12 DEF TableOK, TableInv

(* EventAdd of the write event when a packet is answered: epoll_ctl is the  *)
(* MOD the kernel expects, or there is nothing to do.                       *)
LEMMA ArmKeepsTable ==
    ASSUME TypeOK, TableInv, Agree, NEW c \in Live,
           EventAdd(iFd[c], "W", c, "write"),
           reply' = [reply EXCEPT ![c] = "pending"],
           UNCHANGED <<open, iFd, iClientCount>>
    PROVE  phase' = "write" /\ TableOK' /\ pstArg' = pstArg
<1> DEFINE f == iFd[c]
<1>1. c \in Conn /\ f \in Fd \ {ListenFd} /\ f \in open /\ pstArg[f] = c
  BY LiveHasSlot
<1>2. iMask[f] # {} /\ interest[f] = iMask[f]
  BY <1>1 DEF Agree
<1>3. /\ phase' = "write" /\ pstArg' = pstArg
      /\ iMask' = [iMask EXCEPT ![f] = @ \cup {"W"}]
      /\ interest' = [interest EXCEPT ![f] = iMask[f] \cup {"W"}]
  BY <1>1, <1>2 DEF EventAdd, CtlOK, TypeOK
<1>4. TableTypes'
  BY <1>1, <1>3 DEF TypeOK, TableTypes
<1>5. Live' = Live
  BY DEF Live
<1>6. ArgIsLive' /\ NothingLeaks' /\ NoListenArg'
  BY <1>3, <1>5 DEF TableInv, ArgIsLive, NothingLeaks, NoListenArg
<1>7. \A d \in Live : d # c => d \in Conn /\ iFd[d] \in Fd /\ iFd[d] # f
  BY <1>1, LiveHasSlot
<1>8. WriteArmed' /\ Reads'
  BY <1>1, <1>3, <1>5, <1>7 DEF TypeOK, TableInv, WriteArmed, Reads
<1>9. DeadQuiet'
  BY <1>1 DEF TypeOK, TableInv, DeadQuiet, Live
<1>10. Agree'
  BY <1>1, <1>2, <1>3 DEF TypeOK, Agree
<1> QED
  BY <1>3, <1>4, <1>6, <1>8, <1>9, <1>10 DEF TableOK, TableInv

(* EventDel of the write event when a reply is sent: the read event stays,  *)
(* so that epoll_ctl is a MOD the kernel expects.                           *)
LEMMA SentKeepsTable ==
    ASSUME TypeOK, TableInv, Agree, NEW c \in Live, SendAll(c)
    PROVE  phase' = "dispatch" /\ TableOK' /\ pstArg' = pstArg
<1> DEFINE f == iFd[c]
<1>1. c \in Conn /\ f \in Fd \ {ListenFd} /\ f \in open /\ pstArg[f] = c
  BY LiveHasSlot
<1>2. iMask[f] # {} /\ interest[f] = iMask[f] /\ "R" \in iMask[f]
  BY <1>1 DEF Agree, TableInv, Reads
<1>3. /\ phase' = "dispatch" /\ pstArg' = pstArg
      /\ iMask' = [iMask EXCEPT ![f] = @ \ {"W"}]
      /\ interest' = [interest EXCEPT ![f] = iMask[f] \ {"W"}]
      /\ UNCHANGED <<open, iFd, iClientCount>>
  BY <1>1, <1>2 DEF SendAll, CtlOK, TypeOK
<1>4. TableTypes'
  BY <1>1, <1>3 DEF TypeOK, TableTypes, SendAll
<1>5. Live' = Live
  BY <1>3 DEF Live
<1>6. ArgIsLive' /\ NothingLeaks' /\ NoListenArg'
  BY <1>3, <1>5 DEF TableInv, ArgIsLive, NothingLeaks, NoListenArg
<1>7. \A d \in Live : d # c => d \in Conn /\ iFd[d] \in Fd /\ iFd[d] # f
  BY <1>1, LiveHasSlot
<1>8. WriteArmed' /\ Reads'
  BY <1>1, <1>3, <1>5, <1>7 DEF TypeOK, TableInv, WriteArmed, Reads, SendAll
<1>9. DeadQuiet'
  BY <1>1, <1>3 DEF TypeOK, TableInv, DeadQuiet, Live, SendAll
<1>10. Agree'
  BY <1>1, <1>2, <1>3 DEF TypeOK, Agree
<1> QED
  BY <1>3, <1>4, <1>6, <1>8, <1>9, <1>10 DEF TableOK, TableInv

(* accept: the descriptor was not open, so that epoll does not know it and  *)
(* its slot is nobody's.                                                    *)
LEMMA AcceptKeepsTable ==
    ASSUME TypeOK, TableInv, Agree, NEW c \in Conn, AcceptConn(c)
    PROVE  /\ phase' = "write" /\ TableOK'
           /\ ttl' \in [Conn -> 0 .. Interval] /\ backlog' \in 0 .. MaxBacklog
           /\ LowestFree \in Fd \ {ListenFd} /\ pstArg[LowestFree] = NULL
           /\ \A g \in Fd \ {LowestFree} : pstArg'[g] = pstArg[g] /\ iMask'[g] = iMask[g]
<1> DEFINE f == LowestFree
<1>1. f \in Fd \ open /\ f # ListenFd /\ c \notin Live
  BY LowestFreeIsFree DEF AcceptConn, TableInv, NothingLeaks
<1>2. iMask[f] = {} /\ interest[f] = {}
  BY <1>1 DEF Agree
<1>3. pstArg[f] = NULL
  <2> SUFFICES ASSUME pstArg[f] # NULL PROVE FALSE
    OBVIOUS
  <2>1. iFd[pstArg[f]] = f /\ pstArg[f] \in Live
    BY <1>1, ReactorAssumption DEF TypeOK, TableInv, ArgIsLive, Live, Fd
  <2> QED
    BY <1>1, <2>1, LiveHasSlot
<1>4. /\ phase' = "write"
      /\ iMask' = [iMask EXCEPT ![f] = {"R"}]
      /\ interest' = [interest EXCEPT ![f] = {"R"}]
      /\ pstArg' = [pstArg EXCEPT ![f] = c]
      /\ iFd' = [iFd EXCEPT ![c] = f]
      /\ open' = open \cup {f} /\ reply' = reply
  BY <1>2 DEF AcceptConn, CtlOK
<1>5. TableTypes'
  BY <1>1, <1>4 DEF TypeOK, TableTypes, AcceptConn
<1>6. ttl' \in [Conn -> 0 .. Interval] /\ backlog' \in 0 .. MaxBacklog
  BY ReactorAssumption DEF TypeOK, AcceptConn
<1>7. /\ Live' = Live \cup {c} /\ iFd'[c] = f
      /\ \A d \in Live : iFd'[d] = iFd[d] /\ iFd[d] # f /\ iFd[d] \in Fd
  <2>1. \A d \in Live : d # c /\ d \in Conn /\ iFd[d] # f /\ iFd[d] \in Fd
    BY <1>1, LiveHasSlot
  <2>2. f # -1
    BY <1>1, ReactorAssumption DEF Fd
  <2> QED
    BY <1>4, <2>1, <2>2 DEF TypeOK, Live
<1>8. ArgIsLive' /\ NoListenArg'
  <2>1. ASSUME NEW g \in Fd, pstArg'[g] # NULL PROVE iFd'[pstArg'[g]] = g
    <3>1. CASE g = f
      BY <1>1, <1>4, <1>7, <3>1 DEF TypeOK
    <3>2. CASE g # f
      <4>1. pstArg'[g] = pstArg[g] /\ pstArg[g] \in Conn /\ iFd[pstArg[g]] = g
        BY <1>4, <2>1, <3>2 DEF TypeOK, TableInv, ArgIsLive
      <4>2. pstArg[g] # c
        BY <1>1, <4>1, ReactorAssumption DEF Live, Fd
      <4> QED
        BY <1>4, <4>1, <4>2 DEF TypeOK
    <3> QED
      BY <3>1, <3>2
  <2>2. \A d \in Live' : pstArg'[iFd'[d]] = d
    BY <1>1, <1>4, <1>7 DEF TypeOK, TableInv, ArgIsLive
  <2>3. NoListenArg'
    BY <1>1, <1>4, ListenIsFd DEF TypeOK, TableInv, NoListenArg
  <2> QED
    BY <2>1, <2>2, <2>3 DEF ArgIsLive
<1>9. NothingLeaks'
  <2>1. open' = {ListenFd} \cup {iFd'[d] : d \in Live'}
    BY <1>4, <1>7 DEF TableInv, NothingLeaks
  <2>2. Cardinality(open') = Cardinality(open) + 1
    BY <1>1, <1>4, OpenFinite, FS_AddElement
  <2> QED
    BY <2>1, <2>2, OpenFinite DEF TableInv, NothingLeaks, AcceptConn
<1>10. WriteArmed' /\ Reads'
  <2>1. reply[c] = "none"
    BY <1>1 DEF TableInv, DeadQuiet, Live
  <2> QED
    BY <1>1, <1>4, <1>7, <2>1 DEF TypeOK, TableInv, WriteArmed, Reads
<1>11. DeadQuiet'
  BY <1>1, <1>4, ReactorAssumption DEF TypeOK, TableInv, DeadQuiet, Fd
<1>12. Agree'
  <2>1. iMask'[f] = {"R"} /\ interest'[f] = {"R"}
        /\ \A g \in Fd \ {f} : iMask'[g] = iMask[g] /\ interest'[g] = interest[g]
    BY <1>1, <1>4 DEF TypeOK
  <2>2. \A g \in Fd \ {ListenFd} : interest'[g] = iMask'[g]
    BY <2>1 DEF Agree
  <2>3. open' = {g \in Fd : iMask'[g] # {}}
    BY <1>1, <1>4, <2>1 DEF Agree
  <2>4. interest'[ListenFd] \subseteq iMask'[ListenFd]
    BY <1>1, <2>1, ListenIsFd DEF Agree
  <2> QED
    BY <2>2, <2>3, <2>4 DEF Agree
<1>13. \A g \in Fd \ {f} : pstArg'[g] = pstArg[g] /\ iMask'[g] = iMask[g]
  BY <1>1, <1>4 DEF TypeOK
<1> QED
  BY <1>1, <1>3, <1>4, <1>5, <1>6, <1>8, <1>9, <1>10, <1>11, <1>12, <1>13 DEF TableOK, TableInv

(***************************************************************************)
(* The steps.  LoopTypes are the types TableTypes leaves out.              *)
(***************************************************************************)

(* The types of the loop and of the peers. *)
LoopTypes ==
    /\ ttl \in [Conn -> 0 .. Interval]
    /\ inbox \in [Conn -> 0 .. MaxInbox]
    /\ ending \in [Conn -> {"open", "fin", "rst"}]
    /\ backlog \in 0 .. MaxBacklog
    /\ phase \in {"start", "top", "wait", "dispatch", "write", "timeouts",
                "noctl", "noaccept", "sigpipe", "overrun"}
    /\ sleep \in -1 .. Interval /\ lag \in 0 .. Interval
    /\ batch \in [Fd -> SUBSET {"R", "W"}]
    /\ seen \in [Fd -> Conn \cup {NULL}]
    /\ cur \in Fd \cup {-1}

(* The types are those of the table and those of the loop. *)
LEMMA TypesSplit == TypeOK <=> TableTypes /\ LoopTypes
BY DEF TypeOK, TableTypes, LoopTypes

(* In a running worker the kernel agrees; Inv is put together again from    *)
(* what a step shows of the table and of the loop.                          *)
LEMMA InvParts == Inv => TypeOK /\ TableInv /\ LoopInv /\ (Running => Agree)
BY DEF Inv, KernelAgrees, Agree

(* A step that leaves a sound table and a sound loop keeps the invariant. *)
LEMMA InvFrom ==
    ASSUME TableOK', LoopTypes', LoopInv', phase' # "start"
    PROVE  Inv'
BY TypesSplit DEF Inv, TableOK, KernelAgrees, Agree, Starting, TypeOK, TableTypes, LoopTypes

(* A step that leaves the slots and the connections alone. *)
LEMMA SameTable ==
    ASSUME Inv, UNCHANGED <<tableVars, iFd, reply, iClientCount>>
    PROVE  TableTypes' /\ TableInv' /\ (Agree => Agree') /\ Live' = Live
<1>1. Live' = Live
  BY DEF Live
<1>2. TableTypes'
  BY DEF Inv, TypeOK, TableTypes, tableVars
<1>3. TableInv'
  BY <1>1 DEF Inv, TableInv, ArgIsLive, WriteArmed, NothingLeaks, Reads, DeadQuiet,
     NoListenArg, tableVars
<1>4. Agree => Agree'
  BY DEF Agree, tableVars
<1> QED
  BY <1>1, <1>2, <1>3, <1>4

(* Before EventBaseCreate, whatever malloc left in the listen slot. *)
LEMMA InitInv == Init => Inv
<1> SUFFICES ASSUME Init PROVE Inv
  OBVIOUS
<1>1. Live = {}
  BY DEF Init, Live
<1>2. TypeOK
  BY ReactorAssumption, ListenIsFd DEF Init, TypeOK
<1>3. TableInv
  <2>1. open = {ListenFd} /\ Cardinality(open) = 1
    BY FS_Singleton DEF Init
  <2> QED
    BY <1>1, <2>1, ListenIsFd DEF Init, TableInv, ArgIsLive, WriteArmed, NothingLeaks,
       Reads, DeadQuiet, NoListenArg
<1>4. LoopInv /\ KernelAgrees
  BY ListenIsFd DEF Ended, Init, LoopInv, BatchFresh, Dispatching, BatchIdle, NoListenWrite,
     Running, KernelAgrees
<1>5. Starting
  BY <1>1 DEF Init, Starting
<1> QED
  BY <1>2, <1>3, <1>4, <1>5 DEF Inv

(* EventBaseCreate: whatever malloc left in the listen slot, its mask is    *)
(* not empty afterwards and epoll has no more than it.                      *)
LEMMA CreateInv ==
    ASSUME Inv, EventBaseCreate
    PROVE  Inv'
<1>1. /\ phase = "start" /\ Live = {} /\ TypeOK /\ TableInv /\ LoopInv
      /\ \A f \in Fd : interest[f] = {} /\ (f # ListenFd => iMask[f] = {})
  BY DEF Inv, Starting, EventBaseCreate
<1>2. /\ "R" \in iMask'[ListenFd] /\ iMask' \in [Fd -> SUBSET {"R", "W"}]
      /\ \A f \in Fd \ {ListenFd} : iMask'[f] = {}
  BY <1>1, ListenIsFd DEF TypeOK, EventBaseCreate, EventAdd
<1>3. /\ interest' \in [Fd -> SUBSET {"R", "W"}] /\ pstArg' = pstArg
      /\ interest'[ListenFd] \subseteq iMask'[ListenFd]
      /\ \A f \in Fd \ {ListenFd} : interest'[f] = {}
  <2>1. CASE "R" \in iMask[ListenFd]
    BY <1>1, <2>1, ListenIsFd DEF TypeOK, EventBaseCreate, EventAdd
  <2>2. CASE "R" \notin iMask[ListenFd]
    BY <1>1, <1>2, <2>2, ListenIsFd DEF TypeOK, EventBaseCreate, EventAdd, TableInv, NoListenArg
  <2> QED
    BY <2>1, <2>2
<1>4. phase' \in {"top", "noctl"}
  BY DEF EventBaseCreate, EventAdd
<1>5. Live' = {}
  BY <1>1 DEF EventBaseCreate, connVars, Live
<1>6. TableTypes' /\ LoopTypes'
  BY <1>1, <1>2, <1>3, <1>4 DEF TypeOK, TableTypes, LoopTypes, EventBaseCreate, connVars, peerVars
<1>7. open = {ListenFd}
  BY <1>1 DEF TableInv, NothingLeaks
<1>8. Agree'
  BY <1>2, <1>3, <1>7, ListenIsFd DEF Agree, EventBaseCreate
<1>9. TableInv'
  BY <1>1, <1>3, <1>5 DEF TableInv, ArgIsLive, WriteArmed, NothingLeaks, Reads, DeadQuiet,
     NoListenArg, EventBaseCreate, connVars
<1>10. LoopInv'
  BY <1>1, <1>4, ListenIsFd DEF LoopInv, BatchFresh, Dispatching, BatchIdle, NoListenWrite, Running,
     Ended, EventBaseCreate
<1> QED
  BY <1>4, <1>6, <1>8, <1>9, <1>10, InvFrom DEF TableOK

(* Clients, siblings and time change nothing the loop relies on. *)
LEMMA EnvironmentInv ==
    ASSUME Inv,
           \/ Connect \/ Steal \/ Tick
           \/ \E c \in Conn : ClientSends(c) \/ ClientEnds(c)
    PROVE  Inv'
<1>1. Running /\ UNCHANGED <<tableVars, iFd, reply, iClientCount, phase, batch, seen, cur>>
  BY DEF Connect, Steal, Tick, ClientSends, ClientEnds, connVars, loopVars, tableVars
<1>2. TypeOK /\ TableInv /\ LoopInv /\ Agree
  BY <1>1, InvParts
<1>3. LoopTypes'
  <2>1. CASE Connect \/ Steal
    BY <1>2, <2>1, ReactorAssumption
    DEF TypeOK, LoopTypes, Connect, Steal, connVars, peerVars, loopVars
  <2>2. CASE Tick
    <3>1. lag + 1 \in Int /\ Interval \in Int
      BY <1>2, ReactorAssumption DEF TypeOK
    <3>2. lag' \in 0 .. Interval
      BY <1>2, <2>2, <3>1, MinMaxOfTwo, ReactorAssumption DEF TypeOK, Tick
    <3>3. sleep' \in -1 .. Interval
      BY <1>2, <2>2, ReactorAssumption DEF TypeOK, Tick
    <3> QED
      BY <1>2, <2>2, <3>2, <3>3 DEF TypeOK, LoopTypes, Tick, connVars, peerVars
  <2>3. ASSUME NEW c \in Conn, ClientSends(c) \/ ClientEnds(c)
        PROVE  LoopTypes'
    BY <1>2, <2>3, ReactorAssumption
    DEF TypeOK, LoopTypes, ClientSends, ClientEnds, connVars, loopVars
  <2> QED
    BY <2>1, <2>2, <2>3
<1>4. LoopInv'
  BY <1>1, <1>2 DEF LoopInv, BatchFresh, Dispatching, BatchIdle, NoListenWrite, Running, Ended,
     tableVars
<1> QED
  BY <1>1, <1>2, <1>3, <1>4, SameTable, InvFrom DEF Ended, TableOK, Running

(* epoll_wait: what it may report for a descriptor is about the connection  *)
(* whose socket the descriptor is at that moment.                           *)
LEMMA ReadyIsLive ==
    ASSUME TypeOK, TableInv, Agree, NEW f \in Fd, NEW full
    PROVE  /\ Ready(f, full) \subseteq {"R", "W"}
           /\ f = ListenFd => "W" \notin Ready(f, full)
           /\ SocketOf(f) \in Conn \cup {NULL}
           /\ f # ListenFd /\ Ready(f, full) # {} =>
                SocketOf(f) \in Conn /\ pstArg[f] = SocketOf(f)
<1>1. Ready(f, full) \subseteq {"R", "W"} /\ (f = ListenFd => "W" \notin Ready(f, full))
  BY Zenon DEF Ready
<1>2. \A c \in Live : iFd[c] = f => pstArg[f] = c
  BY LiveHasSlot
<1>3. /\ SocketOf(f) \in Conn \cup {NULL}
      /\ (\E c \in Live : iFd[c] = f) => SocketOf(f) \in Live /\ iFd[SocketOf(f)] = f
  BY DEF SocketOf, Live
<1>4. ASSUME f # ListenFd, Ready(f, full) # {}
      PROVE  SocketOf(f) \in Conn /\ pstArg[f] = SocketOf(f)
  <2>1. interest[f] # {}
    BY <1>4 DEF Ready
  <2>2. pstArg[f] \in Live /\ iFd[pstArg[f]] = f
    BY <1>4, <2>1, SlotHasLive DEF Agree
  <2> QED
    BY <1>2, <1>3, <2>2 DEF Live
<1> QED
  BY <1>1, <1>3, <1>4

(* RefreshTimeCache leaves times in their range. *)
LEMMA RefreshTypes ==
    ASSUME TypeOK, RefreshTimeCache
    PROVE  ttl' \in [Conn -> 0 .. Interval] /\ lag' \in 0 .. Interval /\ sleep' \in -1 .. Interval
<1>1. ASSUME NEW c \in Conn PROVE Max({ttl[c] - lag, 0}) \in 0 .. Interval
  <2>1. ttl[c] - lag \in Int /\ ttl[c] - lag <= Interval
    BY ReactorAssumption DEF TypeOK
  <2>2. 0 \in Int
    OBVIOUS
  <2>3. Max({ttl[c] - lag, 0}) = IF ttl[c] - lag >= 0 THEN ttl[c] - lag ELSE 0
    BY <2>1, <2>2, MinMaxOfTwo, Zenon
  <2> QED
    BY <2>1, <2>3, ReactorAssumption
<1> QED
  BY <1>1, ReactorAssumption DEF RefreshTimeCache

(* The loop between callbacks. *)
LEMMA WaitReturnsInv ==
    ASSUME Inv, WaitReturns
    PROVE  Inv'
<1>1. TypeOK /\ TableInv /\ LoopInv /\ Agree /\ cur = -1
  BY InvParts DEF Ended, WaitReturns, Running, LoopInv, Dispatching
<1>2. PICK full \in SUBSET Live : batch' = [f \in Fd |-> Ready(f, full)]
  BY DEF WaitReturns
<1>3. /\ batch' \in [Fd -> SUBSET {"R", "W"}] /\ "W" \notin batch'[ListenFd]
      /\ seen' \in [Fd -> Conn \cup {NULL}]
  BY <1>1, <1>2, ReadyIsLive, ListenIsFd DEF WaitReturns
<1>4. LoopTypes'
  BY <1>1, <1>3, RefreshTypes DEF TypeOK, LoopTypes, WaitReturns, peerVars
<1>5. BatchFresh'
  <2> SUFFICES ASSUME NEW f \in Fd \ {ListenFd}, batch'[f] # {}
               PROVE  seen'[f] # NULL /\ pstArg'[f] = seen'[f]
    BY DEF BatchFresh
  <2>1. batch'[f] = Ready(f, full) /\ seen'[f] = SocketOf(f) /\ pstArg' = pstArg
    BY <1>2 DEF WaitReturns, tableVars
  <2> QED
    BY <1>1, <2>1, ReadyIsLive, ReactorAssumption
<1>6. LoopInv'
  BY <1>1, <1>3, <1>5 DEF Ended, LoopInv, Dispatching, BatchIdle, NoListenWrite, WaitReturns
<1>7. TableOK'
  BY <1>1, SameTable DEF TableOK, WaitReturns
<1> QED
  BY <1>4, <1>6, <1>7, InvFrom DEF WaitReturns

(* The turns of the loop between its parts. *)
LEMMA TurnInv ==
    ASSUME Inv, EnterWait \/ WaitInterrupted \/ BatchDone \/ TimeoutsDone
    PROVE  Inv'
<1>1. /\ UNCHANGED <<tableVars, iFd, reply, iClientCount, peerVars, backlog, batch, seen, cur>>
      /\ phase' # "start"
  BY DEF EnterWait, WaitInterrupted, BatchDone, TimeoutsDone, connVars
<1>2. TypeOK /\ TableInv /\ LoopInv /\ Agree
  BY InvParts DEF Ended, EnterWait, WaitInterrupted, BatchDone, TimeoutsDone, Running
<1>3. LoopTypes'
  <2>1. CASE EnterWait
    BY <1>1, <1>2, <2>1, WaitTimeoutType DEF TypeOK, LoopTypes, EnterWait, connVars, peerVars
  <2>2. CASE WaitInterrupted
    BY <1>1, <1>2, <2>2, RefreshTypes DEF TypeOK, LoopTypes, WaitInterrupted, peerVars
  <2>3. CASE BatchDone \/ TimeoutsDone
    BY <1>1, <1>2, <2>3 DEF TypeOK, LoopTypes, BatchDone, TimeoutsDone, connVars, peerVars
  <2> QED
    BY <2>1, <2>2, <2>3
<1>4. LoopInv'
  <2>1. phase \in {"top", "wait", "dispatch", "timeouts"} /\ phase' \in {"wait", "top", "timeouts"}
    BY DEF EnterWait, WaitInterrupted, BatchDone, TimeoutsDone
  <2>2. \A f \in Fd : batch[f] = {}
    BY <1>2 DEF LoopInv, BatchIdle, EnterWait, WaitInterrupted, BatchDone, TimeoutsDone
  <2> QED
    BY <1>1, <1>2, <2>1, <2>2 DEF Ended, LoopInv, BatchFresh, Dispatching, BatchIdle, NoListenWrite
<1> QED
  BY <1>1, <1>2, <1>3, <1>4, SameTable, InvFrom DEF TableOK

(* An event without a read half goes on to its write half. *)
LEMMA SkipReadInv ==
    ASSUME Inv, NEW f \in Fd, SkipRead(f)
    PROVE  Inv'
<1>1. TypeOK /\ TableInv /\ LoopInv /\ Agree
  BY InvParts DEF Ended, SkipRead, Running
<1>2. \A g \in Fd : g # -1
  BY ReactorAssumption DEF Fd
<1>3. LoopTypes'
  BY <1>1 DEF TypeOK, LoopTypes, SkipRead, ReadDone, connVars, peerVars
<1>4. LoopInv'
  BY <1>1, <1>2 DEF LoopInv, BatchFresh, Dispatching, BatchIdle, NoListenWrite, Running, Ended, tableVars,
     SkipRead, ReadDone
<1> QED
  BY <1>1, <1>3, <1>4, SameTable, InvFrom DEF TableOK, SkipRead, connVars

(* The end of an event takes it out of the batch. *)
LEMMA EventDoneBatch ==
    ASSUME TypeOK, LoopInv, phase = "write", EventDone
    PROVE  /\ cur \in Fd /\ batch'[cur] = {} /\ cur' = -1
           /\ \A g \in Fd \ {cur} : batch'[g] = batch[g]
           /\ batch' \in [Fd -> SUBSET {"R", "W"}]
           /\ NoListenWrite'
BY ListenIsFd DEF Ended, TypeOK, LoopInv, Dispatching, NoListenWrite, EventDone

(* An event without a write half, or one whose read half closed the         *)
(* connection, is done.                                                     *)
LEMMA SkipWriteInv ==
    ASSUME Inv, SkipWrite
    PROVE  Inv'
<1>1. TypeOK /\ TableInv /\ LoopInv /\ Agree /\ phase = "write" /\ phase' = "dispatch"
  BY InvParts DEF Ended, SkipWrite, Running
<1>2. /\ cur \in Fd /\ batch'[cur] = {} /\ cur' = -1 /\ NoListenWrite'
      /\ \A g \in Fd \ {cur} : batch'[g] = batch[g]
      /\ batch' \in [Fd -> SUBSET {"R", "W"}]
  BY <1>1, EventDoneBatch DEF SkipWrite
<1>3. LoopTypes'
  BY <1>1, <1>2 DEF TypeOK, LoopTypes, SkipWrite, connVars, peerVars
<1>4. LoopInv'
  BY <1>1, <1>2 DEF Ended, LoopInv, BatchFresh, Dispatching, BatchIdle, Running, tableVars, SkipWrite
<1> QED
  BY <1>1, <1>3, <1>4, SameTable, InvFrom DEF TableOK, SkipWrite, connVars

(* ProcessAcceptCallback. *)
LEMMA AcceptInv ==
    ASSUME Inv, ProcessAccept
    PROVE  Inv'
<1>1. /\ TypeOK /\ TableInv /\ LoopInv /\ Agree /\ Running
      /\ phase = "dispatch" /\ cur = -1 /\ cur' = ListenFd
      /\ UNCHANGED <<sleep, lag, batch, seen>>
  BY InvParts DEF Ended, ProcessAccept, Running, ReadDone, LoopInv, Dispatching
<1>2. ASSUME NEW c \in Conn, AcceptConn(c) PROVE Inv'
  <2>1. /\ phase' = "write" /\ TableOK' 
        /\ ttl' \in [Conn -> 0 .. Interval] /\ backlog' \in 0 .. MaxBacklog
        /\ LowestFree \in Fd \ {ListenFd} /\ pstArg[LowestFree] = NULL
        /\ \A g \in Fd \ {LowestFree} : pstArg'[g] = pstArg[g] /\ iMask'[g] = iMask[g]
    BY <1>1, <1>2, AcceptKeepsTable
  <2>2. LoopTypes'
    BY <1>1, <1>2, <2>1, ListenIsFd DEF TypeOK, LoopTypes, AcceptConn, peerVars
  <2>3. batch[LowestFree] = {}
    BY <1>1, <2>1, ReactorAssumption DEF LoopInv, BatchFresh, Fd
  <2>4. BatchFresh'
    BY <1>1, <2>1, <2>3, ReactorAssumption DEF LoopInv, BatchFresh, Fd
  <2>5. LoopInv'
    BY <1>1, <2>1, <2>4, ListenIsFd DEF Ended, LoopInv, Dispatching, BatchIdle, NoListenWrite
  <2> QED
    BY <2>1, <2>2, <2>5, InvFrom
<1>3. CASE AcceptPastTable \/ AcceptNone \/ AcceptFails
  <2>1. /\ phase' \in {"write", "overrun", "noaccept"}
        /\ UNCHANGED <<tableVars, connVars, peerVars, backlog>>
    BY <1>3 DEF AcceptPastTable, AcceptNone, AcceptFails
  <2>2. LoopTypes'
    BY <1>1, <2>1, ListenIsFd DEF TypeOK, LoopTypes, connVars, peerVars
  <2>3. BatchFresh'
    BY <1>1, <2>1, ReactorAssumption DEF LoopInv, BatchFresh, Fd, tableVars
  <2>4. LoopInv'
    BY <1>1, <2>1, <2>3, ListenIsFd DEF Ended, LoopInv, Dispatching, BatchIdle, NoListenWrite
  <2>5. TableOK'
    BY <1>1, <2>1, SameTable DEF TableOK, connVars
  <2> QED
    BY <2>1, <2>2, <2>4, <2>5, InvFrom
<1> QED
  BY <1>2, <1>3 DEF ProcessAccept

(* ProcessRecvCallback runs with the connection of its descriptor, live.    *)
LEMMA RecvGetsLive ==
    ASSUME Inv, phase = "dispatch", NEW f \in Fd \ {ListenFd}, Readable(f)
    PROVE  /\ TypeOK /\ TableInv /\ LoopInv /\ Agree /\ cur = -1
           /\ pstArg[f] \in Live /\ pstArg[f] \in Conn /\ iFd[pstArg[f]] = f
<1>1. TypeOK /\ TableInv /\ LoopInv /\ Agree /\ cur = -1
  BY InvParts DEF Ended, Running, LoopInv, Dispatching
<1>2. iMask[f] # {}
  BY DEF Readable
<1> QED
  BY <1>1, <1>2, SlotHasLive DEF Live

(* The batch after a read callback: only the slot of its own descriptor may *)
(* have been cleared.                                                       *)
LEMMA RecvBatchFresh ==
    ASSUME LoopInv, phase = "dispatch", cur = -1, NEW f \in Fd, cur' = f,
           phase' = "write", UNCHANGED <<batch, seen>>,
           \A g \in Fd \ {f} : pstArg'[g] = pstArg[g],
           pstArg'[f] = pstArg[f] \/ iMask'[f] = {}
    PROVE  LoopInv'
<1>1. \A g \in Fd : g # -1
  BY ReactorAssumption DEF Fd
<1>2. BatchFresh'
  BY <1>1 DEF Ended, LoopInv, BatchFresh, Running
<1> QED
  BY <1>1, <1>2 DEF Ended, LoopInv, Dispatching, BatchIdle, NoListenWrite

(* A piece of a packet. *)
LEMMA RecvPartialInv ==
    ASSUME Inv, NEW f \in Fd, RecvOn(f, RecvPartial)
    PROVE  Inv'
<1> DEFINE c == pstArg[f]
<1>1. /\ phase = "dispatch" /\ f # ListenFd /\ Readable(f)
      /\ RecvPartial(c) /\ cur' = f /\ UNCHANGED <<backlog, sleep, lag, batch, seen>>
  BY DEF RecvOn, ReadDone
<1>2. /\ TypeOK /\ TableInv /\ LoopInv /\ Agree /\ cur = -1 /\ c \in Conn
  BY <1>1, RecvGetsLive
<1>3. LoopTypes'
  BY <1>1, <1>2, ReactorAssumption DEF TypeOK, LoopTypes, RecvPartial, Consume, connVars
<1>4. LoopInv'
  BY <1>1, <1>2, RecvBatchFresh DEF RecvPartial, tableVars
<1>5. TableOK'
  BY <1>1, <1>2, SameTable DEF TableOK, RecvPartial, connVars
<1> QED
  BY <1>1, <1>3, <1>4, <1>5, InvFrom DEF RecvPartial

(* A packet: the reply is queued and the write event registered. *)
LEMMA RecvPacketInv ==
    ASSUME Inv, NEW f \in Fd, RecvOn(f, RecvPacket)
    PROVE  Inv'
<1> DEFINE c == pstArg[f]
<1>1. /\ phase = "dispatch" /\ f # ListenFd /\ Readable(f)
      /\ RecvPacket(c) /\ cur' = f /\ UNCHANGED <<backlog, sleep, lag, batch, seen>>
  BY DEF RecvOn, ReadDone
<1>2. /\ TypeOK /\ TableInv /\ LoopInv /\ Agree /\ cur = -1 /\ c \in Conn /\ c \in Live
  BY <1>1, RecvGetsLive
<1>3. phase' = "write" /\ TableOK' /\ pstArg' = pstArg
  <2>1. CASE EventAdd(iFd[c], "W", c, "write") /\ reply' = [reply EXCEPT ![c] = "pending"]
    BY <1>1, <1>2, <2>1, ArmKeepsTable DEF RecvPacket
  <2>2. CASE phase' = "write" /\ UNCHANGED <<iMask, pstArg, interest, reply>>
    BY <1>1, <1>2, <2>2, SameTable DEF TableOK, RecvPacket, tableVars
  <2> QED
    BY <1>1, <2>1, <2>2 DEF RecvPacket
<1>4. LoopTypes'
  BY <1>1, <1>2, <1>3, ReactorAssumption DEF TypeOK, LoopTypes, RecvPacket, Consume
<1>5. LoopInv'
  BY <1>1, <1>2, <1>3, RecvBatchFresh
<1> QED
  BY <1>3, <1>4, <1>5, InvFrom

(* The read callback closes its connection: its descriptor is current until *)
(* the write half is skipped.                                               *)
LEMMA RecvCloseInv ==
    ASSUME Inv, NEW f \in Fd, RecvOn(f, RecvClose)
    PROVE  Inv'
<1> DEFINE c == pstArg[f]
<1>1. /\ phase = "dispatch" /\ f # ListenFd /\ Readable(f)
      /\ DestroyConn(c, "write") /\ cur' = f /\ UNCHANGED <<backlog, sleep, lag, batch, seen>>
  BY DEF RecvOn, ReadDone, RecvClose
<1>2. /\ TypeOK /\ TableInv /\ LoopInv /\ Agree /\ cur = -1 /\ c \in Live /\ iFd[c] = f
  BY <1>1, RecvGetsLive
<1>3. /\ phase' = "write" /\ TableOK'
      /\ ttl' \in [Conn -> 0 .. Interval] /\ inbox' \in [Conn -> 0 .. MaxInbox]
      /\ ending' \in [Conn -> {"open", "fin", "rst"}]
      /\ iMask'[f] = {} /\ \A g \in Fd \ {f} : pstArg'[g] = pstArg[g]
  BY <1>1, <1>2, DestroyKeepsTable
<1>4. LoopTypes'
  BY <1>1, <1>2, <1>3 DEF TypeOK, LoopTypes
<1>5. LoopInv'
  BY <1>1, <1>2, <1>3, RecvBatchFresh
<1> QED
  BY <1>3, <1>4, <1>5, InvFrom

(* ProcessSendCallback. *)
LEMMA SendInv ==
    ASSUME Inv, ProcessSend
    PROVE  Inv'
<1> DEFINE c == pstArg[cur]
<1>1. /\ TypeOK /\ TableInv /\ LoopInv /\ Agree /\ phase = "write"
      /\ UNCHANGED <<backlog, sleep, lag, seen>> /\ Writable(cur)
      /\ SendAll(c) \/ SendSome(c) \/ SendError(c)
  BY InvParts DEF Ended, ProcessSend, Running
<1>2. /\ cur \in Fd /\ batch'[cur] = {} /\ cur' = -1 /\ NoListenWrite'
      /\ \A g \in Fd \ {cur} : batch'[g] = batch[g]
      /\ batch' \in [Fd -> SUBSET {"R", "W"}]
  BY <1>1, EventDoneBatch DEF ProcessSend
<1>3. cur # ListenFd /\ iMask[cur] # {}
  BY <1>1 DEF Writable, LoopInv, NoListenWrite
<1>4. c \in Live /\ iFd[c] = cur
  BY <1>1, <1>2, <1>3, SlotHasLive
<1>5. /\ phase' \in {"dispatch", "sigpipe"} /\ TableOK'
      /\ ttl' \in [Conn -> 0 .. Interval] /\ inbox' \in [Conn -> 0 .. MaxInbox]
      /\ ending' \in [Conn -> {"open", "fin", "rst"}]
      /\ \A g \in Fd \ {cur} : pstArg'[g] = pstArg[g]
  <2>1. CASE SendAll(c)
    <3>1. phase' = "dispatch" /\ TableOK' /\ pstArg' = pstArg
      BY <1>1, <1>4, <2>1, SentKeepsTable
    <3> QED
      BY <1>1, <2>1, <3>1 DEF TypeOK, SendAll, peerVars
  <2>2. CASE DestroyConn(c, "dispatch")
    BY <1>1, <1>4, <2>2, DestroyKeepsTable
  <2>3. CASE /\ phase' \in {"dispatch", "sigpipe"} /\ UNCHANGED <<tableVars, connVars, peerVars>>
    <3>1. TableOK'
      BY <1>1, <2>3, SameTable DEF TableOK, connVars
    <3> QED
      BY <1>1, <2>3, <3>1 DEF TypeOK, tableVars, connVars, peerVars
  <2> QED
    BY <1>1, <2>1, <2>2, <2>3 DEF SendSome, SendError
<1>6. LoopTypes'
  BY <1>1, <1>2, <1>5 DEF TypeOK, LoopTypes
<1>7. BatchFresh'
  BY <1>1, <1>2, <1>5 DEF Ended, LoopInv, BatchFresh, Running
<1>8. LoopInv'
  BY <1>2, <1>5, <1>7 DEF Ended, LoopInv, Dispatching, BatchIdle
<1> QED
  BY <1>5, <1>6, <1>8, InvFrom

(* ConnectionTimeoutCallback: no event waits when it closes a descriptor. *)
LEMMA ExpireInv ==
    ASSUME Inv, NEW c \in Conn, Expire(c)
    PROVE  Inv'
<1>1. /\ TypeOK /\ TableInv /\ LoopInv /\ Agree /\ phase = "timeouts" /\ c \in Live
      /\ DestroyConn(c, "timeouts") /\ UNCHANGED <<backlog, sleep, lag, batch, seen, cur>>
  BY InvParts DEF Ended, Expire, Running
<1>2. /\ phase' = "timeouts" /\ TableOK'
      /\ ttl' \in [Conn -> 0 .. Interval] /\ inbox' \in [Conn -> 0 .. MaxInbox]
      /\ ending' \in [Conn -> {"open", "fin", "rst"}]
  BY <1>1, DestroyKeepsTable
<1>3. LoopTypes'
  BY <1>1, <1>2 DEF TypeOK, LoopTypes
<1>4. LoopInv'
  BY <1>1, <1>2 DEF Ended, LoopInv, BatchFresh, Dispatching, BatchIdle, NoListenWrite
<1> QED
  BY <1>2, <1>3, <1>4, InvFrom

(* Nothing happens. *)
LEMMA StutterInv ==
    ASSUME Inv, UNCHANGED vars
    PROVE  Inv'
<1>1. Live' = Live
  BY DEF vars, connVars, Live
<1> QED
  BY <1>1 DEF Ended, vars, tableVars, connVars, peerVars, loopVars, Inv, TypeOK, Starting, KernelAgrees,
     Running, TableInv, ArgIsLive, WriteArmed, NothingLeaks, Reads, DeadQuiet, NoListenArg,
     LoopInv, BatchFresh, Dispatching, BatchIdle, NoListenWrite

(* Every action keeps the invariant. *)
LEMMA StepInv == Inv /\ [Next]_vars => Inv'
<1> SUFFICES ASSUME Inv, [Next]_vars PROVE Inv'
  OBVIOUS
<1>1. CASE LoopStep
  <2>1. CASE ProcessRecvPartial
    BY <2>1, RecvPartialInv DEF ProcessRecvPartial
  <2>2. CASE ProcessRecvClose
    BY <2>2, RecvCloseInv DEF ProcessRecvClose
  <2>3. ASSUME NEW c \in Conn, ProcessRecvPacket(c) PROVE Inv'
    BY <2>3, RecvPacketInv DEF ProcessRecvPacket
  <2> QED
    BY <1>1, <2>1, <2>2, <2>3, CreateInv, TurnInv, WaitReturnsInv, SkipReadInv, AcceptInv,
       SkipWriteInv, SendInv, ExpireInv DEF LoopStep
<1>2. CASE WaitInterrupted
  BY <1>2, TurnInv
<1>3. CASE \/ Connect \/ Steal \/ Tick
           \/ \E c \in Conn : ClientSends(c) \/ ClientEnds(c)
  BY <1>3, EnvironmentInv
<1>4. CASE UNCHANGED vars
  BY <1>4, StutterInv
<1> QED
  BY <1>1, <1>2, <1>3, <1>4 DEF Next

(* It holds always. *)
LEMMA AlwaysInv == Spec => []Inv
BY InitInv, StepInv, PTL DEF Spec

(***************************************************************************)
(* The theorems.                                                           *)
(***************************************************************************)

(* The state of a worker has its types, for any number of connections,      *)
(* descriptors and table slots.                                             *)
THEOREM ReactorTypeOK == Spec => []TypeOK
<1>1. Inv => TypeOK
  BY DEF Inv
<1> QED
  BY <1>1, AlwaysInv, PTL

(* EventAdd and EventDel choose the epoll_ctl the kernel expects, because   *)
(* the epoll set holds what iMask says.                                     *)
THEOREM KernelAgreesHolds == Spec => []KernelAgrees
<1>1. Inv => KernelAgrees
  BY DEF Inv
<1> QED
  BY <1>1, AlwaysInv, PTL

(* No callback gets a connection that __DestroyConn has freed, or that of   *)
(* another descriptor.                                                      *)
THEOREM ArgIsLiveHolds == Spec => []ArgIsLive
<1>1. Inv => ArgIsLive
  BY DEF Inv, TableInv
<1> QED
  BY <1>1, AlwaysInv, PTL

(* A descriptor closed and accepted again while a batch is dispatched has   *)
(* no event of the old connection left in the batch.                        *)
THEOREM BatchFreshHolds == Spec => []BatchFresh
<1>1. Inv => BatchFresh
  BY DEF Inv, LoopInv
<1> QED
  BY <1>1, AlwaysInv, PTL

(* A live connection has a write event exactly while it has something to    *)
(* send.                                                                    *)
THEOREM WriteArmedHolds == Spec => []WriteArmed
<1>1. Inv => WriteArmed
  BY DEF Inv, TableInv
<1> QED
  BY <1>1, AlwaysInv, PTL

(* Over every way a connection can end no descriptor leaks, and             *)
(* iClientCount is exact.                                                   *)
THEOREM NothingLeaksHolds == Spec => []NothingLeaks
<1>1. Inv => NothingLeaks
  BY DEF Inv, TableInv
<1> QED
  BY <1>1, AlwaysInv, PTL

(* accept does not end the worker by EventAdd.                              *)
LEMMA AcceptCtl ==
    ASSUME Inv, ProcessAccept
    PROVE  phase' # "noctl"
<1>1. TypeOK /\ TableInv /\ Agree
  BY InvParts DEF ProcessAccept, Running, Ended
<1>2. ASSUME NEW c \in Conn, AcceptConn(c) PROVE phase' # "noctl"
  BY <1>1, <1>2, AcceptKeepsTable
<1> QED
  BY <1>2 DEF ProcessAccept, AcceptPastTable, AcceptNone, AcceptFails

(* Reading from a connection never ends the worker. *)
LEMMA RecvCtl ==
    ASSUME Inv, NEW f \in Fd,
           RecvOn(f, RecvPartial) \/ RecvOn(f, RecvPacket) \/ RecvOn(f, RecvClose)
    PROVE  phase' = "write"
<1> DEFINE c == pstArg[f]
<1>1. /\ phase = "dispatch" /\ f # ListenFd /\ Readable(f)
      /\ RecvPartial(c) \/ RecvPacket(c) \/ DestroyConn(c, "write")
  BY DEF RecvOn, RecvClose
<1>2. TypeOK /\ TableInv /\ Agree /\ c \in Live
  BY <1>1, RecvGetsLive
<1>3. CASE RecvPartial(c)
  BY <1>3 DEF RecvPartial
<1>4. CASE RecvPacket(c)
  BY <1>2, <1>4, ArmKeepsTable DEF RecvPacket
<1>5. CASE DestroyConn(c, "write")
  BY <1>2, <1>5, DestroyKeepsTable
<1> QED
  BY <1>1, <1>3, <1>4, <1>5

(* Writing to one, whole or with an error, finds epoll as expected. *)
LEMMA SendCtl ==
    ASSUME Inv, ProcessSend
    PROVE  phase' # "noctl"
<1> DEFINE c == pstArg[cur]
<1>1. /\ TypeOK /\ TableInv /\ LoopInv /\ Agree /\ phase = "write" /\ Writable(cur)
      /\ SendAll(c) \/ SendSome(c) \/ SendError(c)
  BY InvParts DEF ProcessSend, Running, Ended
<1>2. cur \in Fd \ {ListenFd} /\ iMask[cur] # {}
  BY <1>1 DEF TypeOK, Writable, LoopInv, NoListenWrite, Dispatching, Ended
<1>3. c \in Live
  BY <1>1, <1>2, SlotHasLive
<1>4. SendAll(c) \/ DestroyConn(c, "dispatch") => phase' = "dispatch"
  BY <1>1, <1>3, SentKeepsTable, DestroyKeepsTable
<1> QED
  BY <1>1, <1>4 DEF SendSome, SendError

(* No epoll_ctl of src/src/reactor.c fails while the worker runs, for any   *)
(* number of descriptors and connections: EventAdd, EventDel and            *)
(* __DestroyConn never end it.                                              *)
THEOREM CtlNeverFailsHolds == Spec => CtlNeverFails
<1>1. ASSUME Inv, [Next]_vars, Running PROVE phase' # "noctl"
  <2>1. CASE ProcessRecvPartial \/ ProcessRecvClose \/ \E c \in Conn : ProcessRecvPacket(c)
    BY <1>1, <2>1, RecvCtl DEF ProcessRecvPartial, ProcessRecvClose, ProcessRecvPacket
  <2>2. CASE ProcessAccept \/ ProcessSend
    BY <1>1, <2>2, AcceptCtl, SendCtl
  <2>3. ASSUME NEW c \in Conn, Expire(c) PROVE phase' # "noctl"
    BY <1>1, <2>3, InvParts, DestroyKeepsTable DEF Expire
  <2>4. ~EventBaseCreate
    BY <1>1 DEF Ended, EventBaseCreate, Running
  <2>5. CASE \/ EnterWait \/ WaitReturns \/ WaitInterrupted \/ BatchDone \/ TimeoutsDone
             \/ SkipWrite \/ \E f \in Fd : SkipRead(f)
    BY <2>5 DEF EnterWait, WaitReturns, WaitInterrupted, BatchDone, TimeoutsDone, SkipWrite, SkipRead
  <2>6. CASE \/ Connect \/ Steal \/ Tick \/ UNCHANGED vars
             \/ \E c \in Conn : ClientSends(c) \/ ClientEnds(c)
    BY <1>1, <2>6
    DEF Connect, Steal, Tick, ClientSends, ClientEnds, vars, loopVars, Running, Ended
  <2> QED
    BY <1>1, <2>1, <2>2, <2>3, <2>4, <2>5, <2>6 DEF Next, LoopStep
<1>2. Inv /\ [Next]_vars => [Running => phase' # "noctl"]_vars
  BY <1>1
<1> QED
  BY <1>2, AlwaysInv, PTL DEF Spec, CtlNeverFails
=============================================================================
