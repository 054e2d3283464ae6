-------------------------- MODULE BenchClientProofs --------------------------
(***************************************************************************)
(* Proofs about BenchClient, for any number of clients, requests and        *)
(* descriptors: the slots and what is in them, the turns of the clients,    *)
(* the events still to be dispatched and the count of the answers.          *)
(***************************************************************************)
EXTENDS BenchClient, FiniteSetTheorems, TLAPS

(***************************************************************************)
(* The inductive invariant.                                                *)
(***************************************************************************)

(* The contents of a ClientFD, of a socket, and a pool of them. *)
Client == [fd : Fd \cup {-1}, mask : SUBSET {"R", "W"},
           sendedLen : 0 .. ReqLen, age : 0 .. Timeout]
Sock == [st : {"closed", "connecting", "up", "fin", "rst"},
         interest : SUBSET {"R", "W"}, wire : 0 .. SndBuf,
         inq : Nat, rest : 0 .. Pieces - 1]
IsPool(p) == p \in [slot : [Slot -> Client], sock : [Fd -> Sock], live : Int]

(* The callback that client c waits for. *)
Turn(c) == IF c.sendedLen < ReqLen THEN {"W"} ELSE {"R"}

(* Slot s holds an open descriptor that belongs there, one of the first     *)
(* needClientNum, and the epoll set has the event whose turn it is.         *)
Held(p, s) ==
    LET c == p.slot[s]
    IN  /\ c.fd \in Fd /\ SlotOf(c.fd) = s /\ c.fd < FirstFd + needClientNum
        /\ p.sock[c.fd].st # "closed"
        /\ c.mask = Turn(c) /\ p.sock[c.fd].interest = c.mask

(* The pool is sound: types, every slot in use held by its client, every    *)
(* open descriptor in its slot, none of the closed ones in the epoll set,   *)
(* and liveClientNum exact.                                                 *)
PoolInv(p) ==
    /\ IsPool(p)
    /\ \A s \in Slot : p.slot[s].fd # -1 => Held(p, s)
    /\ \A f \in Fd : /\ p.sock[f].st # "closed" => p.slot[SlotOf(f)].fd = f
                     /\ p.sock[f].st = "closed" => p.sock[f].interest = {}
    /\ p.live = Cardinality(Used(p))

(* The clients that wait for an answer. *)
Waits(p) == {s \in Slot : p.slot[s].fd # -1 /\ "R" \in p.slot[s].mask}

(* The clients of p other than s are as they were in q. *)
Keeps(p, q, s) ==
    \A t \in Slot : t # s /\ p.slot[t].fd # -1 =>
        q.slot[t] = p.slot[t] /\ q.sock[p.slot[t].fd] = p.sock[p.slot[t].fd]

(* Client s and its socket become c and k. *)
With(p, s, c, k) ==
    [slot |-> [p.slot EXCEPT ![s] = c],
     sock |-> [p.sock EXCEPT ![p.slot[s].fd] = k],
     live |-> p.live]

(* c and k are a client and a socket with which the client in slot s can go *)
(* on: the same descriptor, still open, and the event whose turn it is.     *)
GoesOn(p, s, c, k) ==
    /\ s \in Slot /\ p.slot[s].fd # -1
    /\ c \in Client /\ c.fd = p.slot[s].fd /\ c.mask = Turn(c)
    /\ k \in Sock /\ k.st # "closed" /\ k.interest = c.mask

(* The client in slot s listens for d and for nothing else. *)
ListensFor(p, s, d) ==
    /\ IsPool(p) /\ s \in Slot /\ p.slot[s].fd \in Fd
    /\ p.slot[s].mask = {d} /\ p.sock[p.slot[s].fd].interest = p.slot[s].mask

(* The types of everything but the pool. *)
CountTypes ==
    /\ mode \in Modes
    /\ doneRequests \in 0 .. needRequestNum
    /\ written \in 0 .. needRequestNum + needClientNum
    /\ timeoutClientNum \in 0 .. MaxTimeouts /\ epoll_fail \in 0 .. MaxFail + 1
    /\ stop \in BOOLEAN /\ due \in BOOLEAN
    /\ phase \in Ended \cup {"loop", "refill"}
    /\ batch \in [Fd -> {"none", "ERR", "IN", "OUT"}]
    /\ ends \in 0 .. MaxEnds

(* Until the process has ended it has not failed too often, and a datagram  *)
(* that is to be written still has room.                                    *)
Running ==
    phase \notin Ended =>
        /\ epoll_fail <= MaxFail
        /\ \A f \in Fd : batch[f] = "OUT" /\ mode = "udp" => sock[f].wire < Room

(* The inductive invariant.  That the loop stops only with all answers      *)
(* counted makes the answers after that not count again.                    *)
Inv ==
    /\ PoolInv(Pool) /\ CountTypes /\ Running /\ BatchFresh
    /\ stop => doneRequests = needRequestNum
    /\ AnsweredOnce

(***************************************************************************)
(* Descriptors and slots.                                                  *)
(***************************************************************************)

(* Quotient and remainder. *)
LEMMA ModFacts ==
    ASSUME NEW n \in Nat \ {0}, NEW a \in Int
    PROVE  \E q \in Int, r \in 0 .. n - 1 : a = n * q + r /\ a % n = r
<1>1. a % n \in 0 .. n - 1 /\ a \div n \in Int /\ a = n * (a \div n) + (a % n)
  OBVIOUS
<1> QED
  BY <1>1, Zenon

(* The remainder is unique. *)
LEMMA ModUnique ==
    ASSUME NEW n \in Nat \ {0}, NEW a \in Int, NEW q \in Int, NEW r \in 0 .. n - 1,
           a = n * q + r
    PROVE  a % n = r
<1> PICK k \in Int, m \in 0 .. n - 1 : a = n * k + m /\ a % n = m
  BY ModFacts, Zenon
<1>1. n * (q - k) = m - r
  <2>1. n * (q - k) = n * q - n * k
    OBVIOUS
  <2> QED
   BY <2>1
<1>2. q = k
  <2>1. ~(q - k >= 1)
    <3> SUFFICES ASSUME q - k >= 1 PROVE FALSE
      OBVIOUS
    <3>1. n * (q - k) >= n
      OBVIOUS
    <3> QED
      BY <1>1, <3>1
  <2>2. ~(k - q >= 1)
    <3> SUFFICES ASSUME k - q >= 1 PROVE FALSE
      OBVIOUS
    <3>1. n * (k - q) >= n
      OBVIOUS
    <3>2. n * (k - q) = r - m
      BY <1>1
    <3> QED
      BY <3>2, <3>1
  <2> QED
    BY <2>1, <2>2
<1>3. m = r
  BY <1>1, <1>2
<1> QED
  BY <1>3

(* Among n numbers in a row one has remainder s. *)
LEMMA WindowHas ==
    ASSUME NEW n \in Nat \ {0}, NEW lo \in Nat, NEW s \in 0 .. n - 1
    PROVE  \E f \in lo .. lo + n - 1 : f % n = s
<1>1. s - lo \in Int
  OBVIOUS
<1>2. PICK q \in Int, r \in 0 .. n - 1 : s - lo = n * q + r
  BY <1>1, ModFacts, Zenon
<1>3. lo + r \in lo .. lo + n - 1 /\ lo + r \in Int /\ -q \in Int
  OBVIOUS
<1>4. lo + r = n * (-q) + s
  <2>1. n * (-q) = -(n * q) /\ n * q \in Int
    OBVIOUS
  <2> QED
    BY <1>2, <2>1
<1>5. (lo + r) % n = s
  BY <1>3, <1>4, ModUnique, Zenon
<1> QED
  BY <1>3, <1>5, Zenon

(* And only one has it. *)
LEMMA WindowOnce ==
    ASSUME NEW n \in Nat \ {0}, NEW lo \in Nat, NEW f \in lo .. lo + n - 1,
           NEW g \in lo .. lo + n - 1, f % n = g % n
    PROVE  f = g
<1>0. f \in Int /\ g \in Int
  OBVIOUS
<1>1. PICK a \in Int, r \in 0 .. n - 1 : f = n * a + r /\ f % n = r
  BY <1>0, ModFacts, Zenon
<1>2. PICK b \in Int, t \in 0 .. n - 1 : g = n * b + t /\ g % n = t
  BY <1>0, ModFacts, Zenon
<1>3. r = t
  BY <1>1, <1>2, Zenon
<1>4. ~(a - b >= 1)
  <2> SUFFICES ASSUME a - b >= 1 PROVE FALSE
    OBVIOUS
  <2>1. n * (a - b) >= n
    OBVIOUS
  <2>2. f - g = n * (a - b)
    <3>1. n * (a - b) = n * a - n * b /\ n * a \in Int /\ n * b \in Int
      OBVIOUS
    <3> QED
      BY <1>1, <1>2, <1>3, <3>1
  <2> QED
    BY <2>1, <2>2
<1>5. ~(b - a >= 1)
  <2> SUFFICES ASSUME b - a >= 1 PROVE FALSE
    OBVIOUS
  <2>1. n * (b - a) >= n
    OBVIOUS
  <2>2. g - f = n * (b - a)
    <3>1. n * (b - a) = n * b - n * a /\ n * a \in Int /\ n * b \in Int
      OBVIOUS
    <3> QED
      BY <1>1, <1>2, <1>3, <3>1
  <2> QED
    BY <2>1, <2>2
<1>6. a = b
  BY <1>4, <1>5
<1> QED
  BY <1>1, <1>2, <1>3, <1>6, Zenon

(* The slot of a descriptor is a slot, and a descriptor is not the -1 of a  *)
(* free one.                                                                *)
LEMMA SlotOfType ==
    ASSUME NEW f \in Fd
    PROVE  SlotOf(f) \in Slot /\ f \in Nat /\ f # -1
<1>1. f \in Int /\ f >= 0 /\ needClientNum \in Nat \ {0}
  BY BenchAssumption DEF Fd
<1>2. PICK q \in Int, r \in 0 .. needClientNum - 1 : f = needClientNum * q + r /\ f % needClientNum = r
  BY <1>1, ModFacts, Zenon
<1> QED
  BY <1>1, <1>2 DEF SlotOf, Slot

(* The least element of a nonempty set of naturals. *)
LEMMA MinNat ==
    ASSUME NEW S, S \subseteq Nat, S # {}
    PROVE  Min(S) \in S /\ \A y \in S : Min(S) <= y
<1>1. PICK x \in S : \A y \in S : ~(<<y, x>> \in OpToRel(<, Nat))
  BY NatLessThanWellFounded, WFMin, Zenon
<1>2. ASSUME NEW y \in S PROVE x <= y
  <2>1. ~(y < x)
    <3> SUFFICES ASSUME y < x PROVE FALSE
      OBVIOUS
    <3>1. <<y, x>> \in OpToRel(<, Nat)
      BY DEF OpToRel
    <3> QED
      BY <3>1, <1>1
  <2> QED
    BY <2>1
<1> QED
  BY <1>2 DEF Min

(* The smaller of two integers. *)
LEMMA MinOfTwo ==
    ASSUME NEW a \in Int, NEW b \in Int
    PROVE  Min({a, b}) = IF a <= b THEN a ELSE b
BY DEF Min

(* While a slot is free, the lowest free descriptor is one of the first     *)
(* needClientNum, and its slot is free.                                     *)
LEMMA NewFdFits ==
    ASSUME NEW p, PoolInv(p), NEW s \in Slot, p.slot[s].fd = -1, Free(p) # {}
    PROVE  /\ NewFd(p) \in Fd /\ p.sock[NewFd(p)].st = "closed"
           /\ NewFd(p) < FirstFd + needClientNum
           /\ SlotOf(NewFd(p)) \in Slot /\ p.slot[SlotOf(NewFd(p))].fd = -1
<1>1. /\ FirstFd \in Nat /\ NoFile \in Nat /\ needClientNum \in Nat \ {0}
      /\ s \in 0 .. needClientNum - 1
  BY BenchAssumption DEF Slot
<1> PICK g : g = NewFd(p)
  OBVIOUS
<1>2. g \in Free(p) /\ \A f \in Free(p) : g <= f
  <2>1. Free(p) \subseteq Nat
    BY SlotOfType DEF Free
  <2> QED
    BY <2>1, MinNat DEF NewFd
<1>3. g \in Fd /\ p.sock[g].st = "closed" /\ SlotOf(g) \in Slot
  BY <1>2, SlotOfType DEF Free
<1>4. g < FirstFd + needClientNum
  <2>1. PICK f \in FirstFd .. FirstFd + needClientNum - 1 : f % needClientNum = s
    BY <1>1, WindowHas, Zenon
  <2>2. CASE f \in Fd
    <3>1. SlotOf(f) = s /\ f # -1
      BY <2>1, <2>2, SlotOfType DEF SlotOf
    <3>2. f \in Free(p)
      BY <2>2, <3>1 DEF PoolInv, Free
    <3> QED
      BY <1>1, <1>2, <1>3, <2>1, <3>2 DEF Fd
  <2>3. CASE f \notin Fd
    BY <1>1, <1>3, <2>1, <2>3 DEF Fd
  <2> QED
    BY <2>2, <2>3
<1>5. p.slot[SlotOf(g)].fd = -1
  <2> SUFFICES ASSUME p.slot[SlotOf(g)].fd # -1 PROVE FALSE
    OBVIOUS
  <2> PICK h : h = p.slot[SlotOf(g)].fd
    OBVIOUS
  <2>1. /\ h \in Fd /\ SlotOf(h) = SlotOf(g) /\ h < FirstFd + needClientNum
        /\ p.sock[h].st # "closed"
    BY <1>3 DEF PoolInv, Held
  <2>2. h \in FirstFd .. FirstFd + needClientNum - 1 /\ g \in FirstFd .. FirstFd + needClientNum - 1
    BY <1>1, <1>3, <1>4, <2>1 DEF Fd
  <2>3. h % needClientNum = g % needClientNum
    BY <2>1 DEF SlotOf
  <2>4. h = g
    BY <1>1, <2>2, <2>3, WindowOnce, Zenon
  <2> QED
    BY <1>3, <2>1, <2>4
<1> QED
  BY <1>3, <1>4, <1>5

(***************************************************************************)
(* One client changed.                                                     *)
(***************************************************************************)

(* A pool is made of its three parts. *)
LEMMA PoolParts ==
    ASSUME NEW p, IsPool(p)
    PROVE  /\ p = [slot |-> p.slot, sock |-> p.sock, live |-> p.live]
           /\ p.slot \in [Slot -> Client] /\ p.sock \in [Fd -> Sock] /\ p.live \in Int
BY DEF IsPool

(* Touched changes one client, and of it touchTime. *)
LEMMA TouchedIs ==
    ASSUME NEW p, IsPool(p), NEW s \in Slot, p.slot[s].fd \in Fd
    PROVE  Touched(p, s) = With(p, s, [p.slot[s] EXCEPT !.age = 0], p.sock[p.slot[s].fd])
<1>1. /\ p = [slot |-> p.slot, sock |-> p.sock, live |-> p.live]
      /\ p.slot \in [Slot -> Client] /\ p.sock \in [Fd -> Sock]
  BY PoolParts
<1> QED
  BY <1>1 DEF With, Touched

(* Where the epoll set agrees with the mask, ReactorAddEvent chooses the    *)
(* epoll_ctl that succeeds.                                                 *)
LEMMA AddEventIs ==
    ASSUME NEW p, IsPool(p), NEW s \in Slot, p.slot[s].fd \in Fd,
           p.sock[p.slot[s].fd].interest = p.slot[s].mask, NEW e
    PROVE  ReactorAddEvent(p, s, e) =
              With(p, s, [p.slot[s] EXCEPT !.mask = @ \cup {e}],
                   [p.sock[p.slot[s].fd] EXCEPT !.interest = p.slot[s].mask \cup {e}])
<1>1. /\ p = [slot |-> p.slot, sock |-> p.sock, live |-> p.live]
      /\ p.slot \in [Slot -> Client] /\ p.sock \in [Fd -> Sock]
  BY PoolParts
<1>2. CtlOK(p, IF p.slot[s].mask = {} THEN "ADD" ELSE "MOD", p.slot[s].fd)
  BY DEF CtlOK
<1>3. ReactorAddEvent(p, s, e) =
         [p EXCEPT !.slot[s].mask = @ \cup {e},
                   !.sock[p.slot[s].fd].interest = p.slot[s].mask \cup {e}]
  BY <1>2, Zenon DEF ReactorAddEvent
<1> QED
  BY <1>1, <1>3 DEF With

(* So does ReactorDelEvent, for a client that listens at all. *)
LEMMA DelEventIs ==
    ASSUME NEW p, IsPool(p), NEW s \in Slot, p.slot[s].fd \in Fd,
           p.sock[p.slot[s].fd].interest = p.slot[s].mask, p.slot[s].mask # {}, NEW e
    PROVE  ReactorDelEvent(p, s, e) =
              With(p, s, [p.slot[s] EXCEPT !.mask = @ \ {e}],
                   [p.sock[p.slot[s].fd] EXCEPT !.interest = p.slot[s].mask \ {e}])
<1>1. /\ p = [slot |-> p.slot, sock |-> p.sock, live |-> p.live]
      /\ p.slot \in [Slot -> Client] /\ p.sock \in [Fd -> Sock]
  BY PoolParts
<1>2. CtlOK(p, IF p.slot[s].mask \subseteq {e} THEN "DEL" ELSE "MOD", p.slot[s].fd)
  BY DEF CtlOK
<1>3. ReactorDelEvent(p, s, e) =
         [p EXCEPT !.slot[s].mask = @ \ {e},
                   !.sock[p.slot[s].fd].interest = p.slot[s].mask \ {e}]
  BY <1>2, Zenon DEF ReactorDelEvent
<1> QED
  BY <1>1, <1>3 DEF With

(* The slots in use are finitely many. *)
LEMMA UsedFinite ==
    ASSUME NEW p
    PROVE  /\ IsFiniteSet(Used(p)) /\ Cardinality(Used(p)) \in 0 .. needClientNum
           /\ (\A s \in Slot : p.slot[s].fd # -1) => Cardinality(Used(p)) = needClientNum
           /\ IsFiniteSet(Waits(p)) /\ Cardinality(Waits(p)) \in 0 .. needClientNum
<1>1. needClientNum \in Nat \ {0}
  BY BenchAssumption
<1>2. 0 \in Int /\ needClientNum - 1 \in Int /\ ~(0 > needClientNum - 1)
      /\ needClientNum - 1 - 0 + 1 = needClientNum
  BY <1>1
<1>3. IsFiniteSet(Slot) /\ Cardinality(Slot) = needClientNum
  BY <1>1, <1>2, FS_Interval DEF Slot
<1>4. Used(p) \subseteq Slot /\ Waits(p) \subseteq Slot
  BY DEF Used, Waits
<1>5. /\ IsFiniteSet(Used(p)) /\ Cardinality(Used(p)) <= needClientNum
      /\ IsFiniteSet(Waits(p)) /\ Cardinality(Waits(p)) <= needClientNum
  BY <1>3, <1>4, FS_Subset
<1>6. Cardinality(Used(p)) \in Nat /\ Cardinality(Waits(p)) \in Nat
  BY <1>5, FS_CardinalityType
<1>7. (\A s \in Slot : p.slot[s].fd # -1) => Used(p) = Slot
  BY DEF Used
<1> QED
  BY <1>1, <1>3, <1>5, <1>6, <1>7

(* Two clients have two descriptors. *)
LEMMA OtherFd ==
    ASSUME NEW p, PoolInv(p), NEW s \in Slot, NEW t \in Slot, s # t,
           p.slot[s].fd # -1, p.slot[t].fd # -1
    PROVE  p.slot[s].fd # p.slot[t].fd
BY DEF PoolInv, Held

(* Client s goes on with other contents: the pool is as sound as before, the *)
(* other clients are left alone.                                            *)
LEMMA WithInv ==
    ASSUME NEW p, PoolInv(p), NEW s, NEW c, NEW k, GoesOn(p, s, c, k)
    PROVE  /\ PoolInv(With(p, s, c, k)) /\ Keeps(p, With(p, s, c, k), s)
           /\ Waits(With(p, s, c, k)) =
                 IF "R" \in c.mask THEN Waits(p) \cup {s} ELSE Waits(p) \ {s}
<1> PICK q : q = With(p, s, c, k)
  OBVIOUS
<1> s \in Slot /\ p.slot[s].fd # -1 /\ c.fd = p.slot[s].fd
  BY DEF GoesOn
<1>0. /\ c \in Client /\ c.mask = Turn(c)
      /\ k \in Sock /\ k.st # "closed" /\ k.interest = c.mask
  BY DEF GoesOn
<1>1. IsPool(p) /\ Held(p, s) /\ p.slot[s].fd \in Fd /\ p.slot \in [Slot -> Client]
  BY PoolParts DEF PoolInv, Held
<1>2. /\ IsPool(q) /\ q.live = p.live
      /\ q.slot[s] = c /\ q.sock[p.slot[s].fd] = k
      /\ \A t \in Slot : t # s => q.slot[t] = p.slot[t]
      /\ \A f \in Fd : f # p.slot[s].fd => q.sock[f] = p.sock[f]
  BY <1>0, <1>1 DEF With, IsPool
<1>3. \A t \in Slot : q.slot[t].fd = p.slot[t].fd
  BY <1>2
<1>4. Used(q) = Used(p)
  BY <1>3 DEF Used
<1>5. ASSUME NEW t \in Slot, t # s, p.slot[t].fd # -1
      PROVE  q.slot[t] = p.slot[t] /\ q.sock[p.slot[t].fd] = p.sock[p.slot[t].fd] /\ Held(q, t)
  <2>1. p.slot[t].fd # p.slot[s].fd /\ p.slot[t].fd \in Fd /\ Held(p, t)
    BY <1>5, OtherFd DEF PoolInv, Held
  <2>2. q.slot[t] = p.slot[t] /\ q.sock[p.slot[t].fd] = p.sock[p.slot[t].fd]
    BY <1>2, <1>5, <2>1
  <2> QED
    BY <2>1, <2>2 DEF Held
<1>6. Held(q, s)
  BY <1>0, <1>1, <1>2 DEF Held
<1>7. ASSUME NEW f \in Fd
      PROVE  /\ q.sock[f].st # "closed" => q.slot[SlotOf(f)].fd = f
             /\ q.sock[f].st = "closed" => q.sock[f].interest = {}
  <2>1. SlotOf(f) \in Slot
    BY SlotOfType
  <2>2. CASE f = p.slot[s].fd
    BY <1>0, <1>1, <1>2, <1>3, <2>1, <2>2 DEF Held
  <2>3. CASE f # p.slot[s].fd
    BY <1>2, <1>3, <2>1, <2>3 DEF PoolInv
  <2> QED
    BY <2>2, <2>3
<1>8. PoolInv(q)
  BY <1>2, <1>3, <1>4, <1>5, <1>6, <1>7 DEF PoolInv
<1>9. Keeps(p, q, s)
  BY <1>5 DEF Keeps
<1>10. Waits(q) = IF "R" \in c.mask THEN Waits(p) \cup {s} ELSE Waits(p) \ {s}
  BY <1>2, <1>3 DEF Waits
<1> QED
  BY <1>8, <1>9, <1>10

(* ReactorResetClient: the client writes its request again. *)
LEMMA ResetIs ==
    ASSUME NEW p, PoolInv(p), NEW s \in Slot, p.slot[s].fd # -1
    PROVE  ReactorResetClient(p, s) =
              With(p, s, [p.slot[s] EXCEPT !.mask = {"W"}, !.sendedLen = 0],
                   [p.sock[p.slot[s].fd] EXCEPT !.interest = {"W"}])
<1>c. PICK c : c = p.slot[s]
  OBVIOUS
<1>k. PICK k : k = p.sock[c.fd]
  OBVIOUS
<1>1. /\ IsPool(p) /\ c.fd \in Fd /\ c \in Client /\ k \in Sock
      /\ p.slot[s].fd = c.fd /\ p.slot[s].fd \in Fd /\ p.sock[p.slot[s].fd] = k
      /\ k.interest = c.mask /\ (c.mask = {"W"} \/ c.mask = {"R"})
  BY <1>c, <1>k, PoolParts DEF PoolInv, Held, Turn
<1>p. IsPool(p) /\ p.slot[s].fd \in Fd
  BY <1>1
<1>c1. PICK c1 : c1 = [c EXCEPT !.mask = c.mask \ {"R"}]
  OBVIOUS
<1>k1. PICK k1 : k1 = [k EXCEPT !.interest = c.mask \ {"R"}]
  OBVIOUS
<1>p1. PICK p1 : p1 = With(p, s, c1, k1)
  OBVIOUS
<1>2. /\ c1 \in Client /\ k1 \in Sock /\ c1.fd = c.fd /\ k1.interest = c1.mask
      /\ c1.mask = c.mask \ {"R"} /\ c1.mask \cup {"W"} = {"W"}
  BY <1>1, <1>c1, <1>k1 DEF Client, Sock
<1>a. c1 \in Client /\ k1 \in Sock
  BY <1>2
<1>3. ReactorDelEvent(p, s, "R") = p1
  <2>1. p.slot[s].mask # {} /\ p.sock[p.slot[s].fd].interest = p.slot[s].mask
    BY <1>1, <1>c
  <2>2. ReactorDelEvent(p, s, "R") =
            With(p, s, [p.slot[s] EXCEPT !.mask = @ \ {"R"}],
                 [p.sock[p.slot[s].fd] EXCEPT !.interest = p.slot[s].mask \ {"R"}])
    BY <1>p, <2>1, DelEventIs, Zenon
  <2> QED
    BY <1>c, <1>k, <1>c1, <1>k1, <1>p1, <2>2
<1>4. IsPool(p1) /\ p1.slot[s] = c1 /\ p1.sock[c.fd] = k1
  <2>1. IsPool(p1) /\ p1.slot[s] = c1 /\ p1.sock[p.slot[s].fd] = k1
    BY <1>p, <1>a, <1>p1 DEF With, IsPool
  <2> QED
    BY <1>1, <2>1
<1>c2. PICK c2 : c2 = [c1 EXCEPT !.mask = {"W"}]
  OBVIOUS
<1>k2. PICK k2 : k2 = [k1 EXCEPT !.interest = {"W"}]
  OBVIOUS
<1>5. c2 \in Client /\ k2 \in Sock /\ c2.fd = c.fd
      /\ c2 = [c EXCEPT !.mask = {"W"}] /\ k2 = [k EXCEPT !.interest = {"W"}]
  BY <1>1, <1>2, <1>c1, <1>k1, <1>c2, <1>k2 DEF Client, Sock
<1>b. c2 \in Client /\ k2 \in Sock
  BY <1>5
<1>p2. PICK p2 : p2 = With(p, s, c2, k2)
  OBVIOUS
<1>6. ReactorAddEvent(p1, s, "W") = p2
  <2>1. ReactorAddEvent(p1, s, "W") = With(p1, s, [c1 EXCEPT !.mask = c1.mask \cup {"W"}],
                                           [k1 EXCEPT !.interest = c1.mask \cup {"W"}])
    <3>1. /\ p1.slot[s].fd \in Fd /\ p1.sock[p1.slot[s].fd] = k1
          /\ k1.interest = p1.slot[s].mask
      BY <1>1, <1>2, <1>4
    <3>2. ReactorAddEvent(p1, s, "W") =
              With(p1, s, [p1.slot[s] EXCEPT !.mask = @ \cup {"W"}],
                   [p1.sock[p1.slot[s].fd] EXCEPT !.interest = p1.slot[s].mask \cup {"W"}])
      <4>1. IsPool(p1) /\ p1.slot[s].fd \in Fd
        BY <1>4, <3>1
      <4>2. p1.sock[p1.slot[s].fd].interest = p1.slot[s].mask
        BY <3>1
      <4> QED
        BY <4>1, <4>2, AddEventIs, Zenon
    <3> QED
      BY <1>4, <3>1, <3>2
  <2>2. With(p1, s, c2, k2) = p2
    <3>1. c1.fd = p.slot[s].fd
      BY <1>1, <1>2
    <3>2. p.slot \in [Slot -> Client] /\ p.sock \in [Fd -> Sock]
      BY <1>p, PoolParts
    <3> QED
      BY <1>p, <1>p1, <1>p2, <1>a, <3>1, <3>2 DEF With
  <2> QED
    BY <1>2, <1>c2, <1>k2, <2>1, <2>2
<1>7. IsPool(p2) /\ p2.slot[s] = c2 /\ p2.slot \in [Slot -> Client]
  <2>1. IsPool(p2) /\ p2.slot[s] = c2
    BY <1>p, <1>b, <1>p2 DEF With, IsPool
  <2> QED
    BY <2>1, PoolParts
<1>8. ReactorResetClient(p, s) = [p2 EXCEPT !.slot[s].sendedLen = 0]
  BY <1>3, <1>6 DEF ReactorResetClient
<1>9. [p2 EXCEPT !.slot[s].sendedLen = 0] = With(p, s, [c2 EXCEPT !.sendedLen = 0], k2)
  <2>1. p.slot \in [Slot -> Client] /\ p.sock \in [Fd -> Sock]
    BY <1>1, PoolParts
  <2>2. p2 = [slot |-> [p.slot EXCEPT ![s] = c2], sock |-> [p.sock EXCEPT ![p.slot[s].fd] = k2],
              live |-> p.live]
    BY <1>p2 DEF With
  <2>3. [p2 EXCEPT !.slot[s].sendedLen = 0] =
            [p2 EXCEPT !.slot = [p2.slot EXCEPT ![s] = [c2 EXCEPT !.sendedLen = 0]]]
    BY <1>7
  <2>4. [p2.slot EXCEPT ![s] = [c2 EXCEPT !.sendedLen = 0]] =
            [p.slot EXCEPT ![s] = [c2 EXCEPT !.sendedLen = 0]]
    BY <2>1, <2>2
  <2> QED
    BY <2>2, <2>3, <2>4 DEF With
<1>10. [c2 EXCEPT !.sendedLen = 0] = [c EXCEPT !.mask = {"W"}, !.sendedLen = 0]
  BY <1>1, <1>5 DEF Client
<1> QED
  BY <1>c, <1>k, <1>1, <1>5, <1>8, <1>9, <1>10

(* ReactorResetClient: the client goes on, and waits for no answer. *)
LEMMA ResetInv ==
    ASSUME NEW p, PoolInv(p), NEW s \in Slot, p.slot[s].fd # -1,
           NEW q, q = ReactorResetClient(p, s)
    PROVE  PoolInv(q) /\ Keeps(p, q, s) /\ Waits(q) = Waits(p) \ {s}
<1>c. PICK c : c = [p.slot[s] EXCEPT !.mask = {"W"}, !.sendedLen = 0]
  OBVIOUS
<1>k. PICK k : k = [p.sock[p.slot[s].fd] EXCEPT !.interest = {"W"}]
  OBVIOUS
<1>1. /\ p.slot[s] \in Client /\ p.slot[s].fd \in Fd /\ p.sock[p.slot[s].fd] \in Sock
      /\ p.sock[p.slot[s].fd].st # "closed"
  BY PoolParts DEF PoolInv, Held
<1>2. c \in Client /\ c.fd = p.slot[s].fd /\ c.mask = {"W"} /\ c.mask = Turn(c)
  <2>1. 0 \in 0 .. ReqLen /\ 0 < ReqLen
    BY BenchAssumption
  <2>2. c \in Client /\ c.fd = p.slot[s].fd /\ c.mask = {"W"} /\ c.sendedLen = 0
    BY <1>1, <1>c, <2>1 DEF Client
  <2> QED
    BY <2>1, <2>2 DEF Turn
<1>3. k \in Sock /\ k.st # "closed" /\ k.interest = c.mask
  BY <1>1, <1>2, <1>k DEF Sock
<1>4. q = With(p, s, c, k)
  BY <1>c, <1>k, ResetIs
<1>5. GoesOn(p, s, c, k)
  BY <1>2, <1>3 DEF GoesOn
<1>6. /\ PoolInv(q) /\ Keeps(p, q, s)
      /\ Waits(q) = IF "R" \in c.mask THEN Waits(p) \cup {s} ELSE Waits(p) \ {s}
  BY <1>4, <1>5, WithInv
<1> QED
  BY <1>2, <1>6

(* ReactorCloseConnection gives the slot and the descriptor back. *)
LEMMA CloseInv ==
    ASSUME NEW p, PoolInv(p), NEW s \in Slot, p.slot[s].fd # -1,
           NEW q, q = ReactorCloseConnection(p, s)
    PROVE  PoolInv(q) /\ Keeps(p, q, s) /\ Waits(q) = Waits(p) \ {s}
<1>1. /\ IsPool(p) /\ p.slot[s].fd \in Fd /\ p.slot \in [Slot -> Client]
      /\ p.sock \in [Fd -> Sock] /\ p.live \in Int
      /\ p = [slot |-> p.slot, sock |-> p.sock, live |-> p.live]
  BY PoolParts DEF PoolInv, Held
<1>2. NoSock \in Sock /\ NoSock.st = "closed" /\ NoSock.interest = {}
  BY BenchAssumption DEF NoSock, Sock
<1>3. q = [slot |-> [p.slot EXCEPT ![s].fd = -1],
           sock |-> [p.sock EXCEPT ![p.slot[s].fd] = NoSock], live |-> p.live - 1]
  BY <1>1 DEF ReactorCloseConnection
<1>4. [p.slot EXCEPT ![s].fd = -1] \in [Slot -> Client]
  <2>1. [p.slot[s] EXCEPT !.fd = -1] \in Client
    BY <1>1 DEF Client
  <2> QED
    BY <1>1, <2>1
<1>5. /\ IsPool(q) /\ q.live = p.live - 1 /\ q.slot[s].fd = -1
      /\ q.sock[p.slot[s].fd] = NoSock
      /\ \A t \in Slot : t # s => q.slot[t] = p.slot[t]
      /\ \A f \in Fd : f # p.slot[s].fd => q.sock[f] = p.sock[f]
  <2>1. q.slot = [p.slot EXCEPT ![s].fd = -1] /\ q.live = p.live - 1
        /\ q.sock = [p.sock EXCEPT ![p.slot[s].fd] = NoSock]
    BY <1>3
  <2>2. IsPool(q)
    BY <1>1, <1>2, <1>3, <1>4 DEF IsPool
  <2>3. q.slot[s].fd = -1
    BY <1>1, <2>1 DEF Client
  <2> QED
    BY <1>1, <2>1, <2>2, <2>3
<1>6. ASSUME NEW t \in Slot, t # s, p.slot[t].fd # -1
      PROVE  q.slot[t] = p.slot[t] /\ q.sock[p.slot[t].fd] = p.sock[p.slot[t].fd] /\ Held(q, t)
  <2>1. p.slot[t].fd # p.slot[s].fd /\ p.slot[t].fd \in Fd /\ Held(p, t)
    BY <1>6, OtherFd DEF PoolInv, Held
  <2>2. q.slot[t] = p.slot[t] /\ q.sock[p.slot[t].fd] = p.sock[p.slot[t].fd]
    BY <1>5, <1>6, <2>1
  <2> QED
    BY <2>1, <2>2 DEF Held
<1>7. ASSUME NEW f \in Fd
      PROVE  /\ q.sock[f].st # "closed" => q.slot[SlotOf(f)].fd = f
             /\ q.sock[f].st = "closed" => q.sock[f].interest = {}
  <2>1. SlotOf(f) \in Slot
    BY SlotOfType
  <2>2. CASE f = p.slot[s].fd
    BY <1>2, <1>5, <2>2
  <2>3. CASE f # p.slot[s].fd
    <3>1. p.sock[f].st # "closed" => SlotOf(f) # s
      BY <2>3 DEF PoolInv
    <3> QED
      BY <1>5, <2>1, <2>3, <3>1 DEF PoolInv
  <2> QED
    BY <2>2, <2>3
<1>8. q.live = Cardinality(Used(q))
  <2>1. Used(q) = Used(p) \ {s} /\ s \in Used(p)
    BY <1>5 DEF Used
  <2>2. Cardinality(Used(q)) = Cardinality(Used(p)) - 1
    BY <2>1, UsedFinite, FS_RemoveElement
  <2> QED
    BY <1>5, <2>2 DEF PoolInv
<1>9. Waits(q) = Waits(p) \ {s}
  BY <1>5 DEF Waits
<1> QED
  BY <1>5, <1>6, <1>7, <1>8, <1>9 DEF PoolInv, Keeps

(* ReactorClientInit: a new client in a free slot, or nothing.  Every       *)
(* client there was is left alone.                                          *)
LEMMA ClientInitInv ==
    ASSUME NEW p, PoolInv(p), NEW connects \in BOOLEAN, NEW q, q = ReactorClientInit(p, connects)
    PROVE  /\ PoolInv(q) /\ Waits(q) = Waits(p)
           /\ \A t \in Slot : p.slot[t].fd # -1 =>
                 q.slot[t] = p.slot[t] /\ q.sock[p.slot[t].fd] = p.sock[p.slot[t].fd]
<1>1. CASE ~InitOK(p, connects)
  BY <1>1 DEF ReactorClientInit
<1>2. CASE InitOK(p, connects)
  <2>f. PICK f : f = NewFd(p)
    OBVIOUS
  <2>s. PICK s : s = SlotOf(f)
    OBVIOUS
  <2>1. /\ f \in Fd /\ p.sock[f].st = "closed" /\ f < FirstFd + needClientNum
        /\ s \in Slot /\ p.slot[s].fd = -1
    <3>1. Free(p) # {} /\ p.slot[s].fd = -1
      BY <1>2, <2>f, <2>s DEF InitOK
    <3>2. NewFd(p) \in Fd
      <4>1. Free(p) \subseteq Nat
        BY SlotOfType DEF Free
      <4> QED
        BY <3>1, <4>1, MinNat DEF NewFd, Free
    <3>3. s \in Slot
      BY <2>f, <2>s, <3>2, SlotOfType
    <3> QED
      BY <2>f, <3>1, <3>3, NewFdFits
  <2>2. /\ IsPool(p) /\ p.slot \in [Slot -> Client]
        /\ p.sock \in [Fd -> Sock] /\ p.live \in Int
        /\ p = [slot |-> p.slot, sock |-> p.sock, live |-> p.live]
    BY PoolParts DEF PoolInv
  <2>c. PICK c : c = [p.slot[s] EXCEPT !.fd = f, !.mask = {}, !.sendedLen = 0]
    OBVIOUS
  <2>k. PICK k : k = [NoSock EXCEPT !.st = IF mode = "udp" THEN "up" ELSE "connecting"]
    OBVIOUS
  <2>r. PICK r : r = [slot |-> [p.slot EXCEPT ![s] = c], sock |-> [p.sock EXCEPT ![f] = k],
                      live |-> p.live + 1]
    OBVIOUS
  <2>3. c \in Client /\ c.fd = f /\ c.mask = {} /\ c.sendedLen = 0
    <3>1. 0 \in 0 .. ReqLen
      BY BenchAssumption
    <3> QED
      BY <2>1, <2>2, <2>c, <3>1 DEF Client
  <2>4. k \in Sock /\ k.st # "closed" /\ k.interest = {}
    BY <2>k, BenchAssumption DEF NoSock, Sock
  <2>5. IsPool(r) /\ r.slot[s] = c /\ r.sock[f] = k /\ r.slot[s].fd \in Fd
    BY <2>1, <2>2, <2>3, <2>4, <2>r DEF IsPool
  <2>6. q = ReactorAddEvent(r, s, "W")
    BY <1>2, <2>f, <2>s, <2>c, <2>k, <2>r DEF ReactorClientInit
  <2>c1. PICK c1 : c1 = [c EXCEPT !.mask = {"W"}]
    OBVIOUS
  <2>k1. PICK k1 : k1 = [k EXCEPT !.interest = {"W"}]
    OBVIOUS
  <2>7. q = With(r, s, c1, k1)
    <3>1. r.sock[r.slot[s].fd].interest = r.slot[s].mask
      BY <2>3, <2>4, <2>5
    <3>2. ReactorAddEvent(r, s, "W") =
              With(r, s, [r.slot[s] EXCEPT !.mask = @ \cup {"W"}],
                   [r.sock[r.slot[s].fd] EXCEPT !.interest = r.slot[s].mask \cup {"W"}])
      <4>1. IsPool(r) /\ s \in Slot /\ r.slot[s].fd \in Fd
        BY <2>1, <2>5
      <4> QED
        BY <3>1, <4>1, AddEventIs, Zenon
    <3>3. {} \cup {"W"} = {"W"}
      OBVIOUS
    <3> QED
      BY <2>3, <2>5, <2>6, <2>c1, <2>k1, <3>2, <3>3
  <2>8. /\ c1 \in Client /\ c1.fd = f /\ c1.mask = {"W"} /\ c1.mask = Turn(c1)
        /\ k1 \in Sock /\ k1.st # "closed" /\ k1.interest = {"W"}
    <3>1. 0 < ReqLen
      BY BenchAssumption
    <3>2. c1 \in Client /\ c1.fd = f /\ c1.mask = {"W"} /\ c1.sendedLen = 0
      BY <2>3, <2>c1 DEF Client
    <3>3. k1 \in Sock /\ k1.st # "closed" /\ k1.interest = {"W"}
      BY <2>4, <2>k1 DEF Sock
    <3> QED
      BY <3>1, <3>2, <3>3 DEF Turn
  <2>9. /\ IsPool(q) /\ q.live = p.live + 1 /\ q.slot[s] = c1 /\ q.sock[f] = k1
        /\ \A t \in Slot : t # s => q.slot[t] = p.slot[t]
        /\ \A g \in Fd : g # f => q.sock[g] = p.sock[g]
    <3>1. /\ r.slot = [p.slot EXCEPT ![s] = c] /\ r.sock = [p.sock EXCEPT ![f] = k]
          /\ r.live = p.live + 1 /\ r.slot[s].fd = f
      BY <2>3, <2>5, <2>r
    <3>2. /\ q.slot = [r.slot EXCEPT ![s] = c1] /\ q.sock = [r.sock EXCEPT ![f] = k1]
          /\ q.live = p.live + 1
          /\ q = [slot |-> [r.slot EXCEPT ![s] = c1], sock |-> [r.sock EXCEPT ![f] = k1],
                  live |-> r.live]
      BY <2>7, <3>1 DEF With
    <3>3. IsPool(q)
      <4>1. r.slot \in [Slot -> Client] /\ r.sock \in [Fd -> Sock] /\ r.live \in Int
        BY <2>5, PoolParts
      <4>2. [r.slot EXCEPT ![s] = c1] \in [Slot -> Client] /\ [r.sock EXCEPT ![f] = k1] \in [Fd -> Sock]
        BY <2>8, <4>1
      <4> QED
        BY <3>2, <4>1, <4>2 DEF IsPool
    <3>4. q.slot[s] = c1 /\ \A t \in Slot : t # s => q.slot[t] = p.slot[t]
      BY <2>1, <2>2, <3>1, <3>2
    <3>5. q.sock[f] = k1 /\ \A g \in Fd : g # f => q.sock[g] = p.sock[g]
      BY <2>1, <2>2, <3>1, <3>2
    <3> QED
      BY <3>2, <3>3, <3>4, <3>5
  <2>10. ASSUME NEW t \in Slot, p.slot[t].fd # -1
         PROVE  t # s /\ q.slot[t] = p.slot[t] /\ q.sock[p.slot[t].fd] = p.sock[p.slot[t].fd]
                /\ Held(q, t)
    <3>1. t # s /\ Held(p, t) /\ p.slot[t].fd \in Fd /\ p.slot[t].fd # f
      BY <2>1, <2>10 DEF PoolInv, Held
    <3>2. q.slot[t] = p.slot[t] /\ q.sock[p.slot[t].fd] = p.sock[p.slot[t].fd]
      BY <2>9, <2>10, <3>1
    <3> QED
      BY <3>1, <3>2 DEF Held
  <2>11. Held(q, s)
    BY <2>1, <2>8, <2>9, <2>s DEF Held
  <2>12. \A t \in Slot : q.slot[t].fd # -1 => Held(q, t)
    BY <2>9, <2>10, <2>11
  <2>13. ASSUME NEW g \in Fd
         PROVE  /\ q.sock[g].st # "closed" => q.slot[SlotOf(g)].fd = g
                /\ q.sock[g].st = "closed" => q.sock[g].interest = {}
    <3>1. SlotOf(g) \in Slot /\ g # -1
      BY SlotOfType
    <3>2. CASE g = f
      BY <2>8, <2>9, <2>s, <3>2
    <3>3. CASE g # f
      <4>1. p.sock[g].st # "closed" => SlotOf(g) # s
        BY <2>1, <3>1 DEF PoolInv
      <4> QED
        BY <2>9, <3>1, <3>3, <4>1 DEF PoolInv
    <3> QED
      BY <3>2, <3>3
  <2>14. q.live = Cardinality(Used(q))
    <3>1. f # -1
      BY <2>1, SlotOfType
    <3>2. Used(q) = Used(p) \cup {s} /\ s \notin Used(p)
      BY <2>1, <2>8, <2>9, <3>1 DEF Used
    <3>3. Cardinality(Used(q)) = Cardinality(Used(p)) + 1
      BY <3>2, UsedFinite, FS_AddElement
    <3> QED
      BY <2>9, <3>3 DEF PoolInv
  <2>15. Waits(q) = Waits(p)
    BY <2>1, <2>8, <2>9 DEF Waits
  <2>16. PoolInv(q)
    BY <2>9, <2>12, <2>13, <2>14 DEF PoolInv
  <2> QED
    BY <2>10, <2>15, <2>16
<1> QED
  BY <1>1, <1>2

(* A client closed and another one made: only the closed one is gone. *)
LEMMA ReplacedInv ==
    ASSUME NEW p, PoolInv(p), NEW s \in Slot, p.slot[s].fd # -1, NEW connects \in BOOLEAN,
           NEW q, q = Replaced(p, s, connects)
    PROVE  PoolInv(q) /\ Keeps(p, q, s) /\ Waits(q) = Waits(p) \ {s}
<1>r. PICK r : r = ReactorCloseConnection(p, s)
  OBVIOUS
<1>1. PoolInv(r) /\ Keeps(p, r, s) /\ Waits(r) = Waits(p) \ {s}
  BY <1>r, CloseInv
<1>2. q = ReactorClientInit(r, connects)
  BY <1>r DEF Replaced
<1>3. /\ PoolInv(q) /\ Waits(q) = Waits(r)
      /\ \A t \in Slot : r.slot[t].fd # -1 =>
            q.slot[t] = r.slot[t] /\ q.sock[r.slot[t].fd] = r.sock[r.slot[t].fd]
  BY <1>1, <1>2, ClientInitInv
<1>4. Keeps(p, q, s)
  BY <1>1, <1>3 DEF Keeps
<1> QED
  BY <1>1, <1>3, <1>4

(* A client done with d listens for e instead. *)
LEMMA SwitchIs ==
    ASSUME NEW p, NEW s, NEW d, NEW e, ListensFor(p, s, d)
    PROVE  ReactorAddEvent(ReactorDelEvent(p, s, d), s, e) =
              With(p, s, [p.slot[s] EXCEPT !.mask = {e}],
                   [p.sock[p.slot[s].fd] EXCEPT !.interest = {e}])
<1>p. IsPool(p) /\ s \in Slot /\ p.slot[s].fd \in Fd
  BY DEF ListensFor
<1>c. PICK c : c = p.slot[s]
  OBVIOUS
<1>k. PICK k : k = p.sock[c.fd]
  OBVIOUS
<1>1. /\ p.slot \in [Slot -> Client] /\ p.sock \in [Fd -> Sock] /\ c.fd \in Fd
      /\ c \in Client /\ k \in Sock /\ c.mask = {d} /\ k.interest = {d} /\ p.slot[s].fd = c.fd
  BY <1>p, <1>c, <1>k, PoolParts DEF ListensFor
<1>c1. PICK c1 : c1 = [c EXCEPT !.mask = {}]
  OBVIOUS
<1>k1. PICK k1 : k1 = [k EXCEPT !.interest = {}]
  OBVIOUS
<1>r. PICK r : r = With(p, s, c1, k1)
  OBVIOUS
<1>2. c1 \in Client /\ k1 \in Sock /\ c1.fd = c.fd /\ c1.mask = {} /\ k1.interest = {}
  BY <1>1, <1>c1, <1>k1 DEF Client, Sock
<1>3. ReactorDelEvent(p, s, d) = r
  <2>1. p.slot[s].mask # {} /\ p.sock[p.slot[s].fd].interest = p.slot[s].mask
    BY DEF ListensFor
  <2>2. ReactorDelEvent(p, s, d) =
            With(p, s, [p.slot[s] EXCEPT !.mask = @ \ {d}],
                 [p.sock[p.slot[s].fd] EXCEPT !.interest = p.slot[s].mask \ {d}])
    BY <1>p, <2>1, DelEventIs, Zenon
  <2>3. {d} \ {d} = {}
    OBVIOUS
  <2> QED
    BY <1>c, <1>k, <1>1, <1>c1, <1>k1, <1>r, <2>2, <2>3
<1>4. IsPool(r) /\ r.slot[s] = c1 /\ r.sock[c.fd] = k1
  BY <1>p, <1>1, <1>2, <1>r DEF With, IsPool
<1>5. ReactorAddEvent(r, s, e) = With(r, s, [c1 EXCEPT !.mask = {e}], [k1 EXCEPT !.interest = {e}])
  <2>1. /\ IsPool(r) /\ r.slot[s].fd \in Fd
        /\ r.sock[r.slot[s].fd].interest = r.slot[s].mask
    BY <1>1, <1>2, <1>4
  <2>2. ReactorAddEvent(r, s, e) =
            With(r, s, [r.slot[s] EXCEPT !.mask = @ \cup {e}],
                 [r.sock[r.slot[s].fd] EXCEPT !.interest = r.slot[s].mask \cup {e}])
    BY <1>p, <2>1, AddEventIs, Zenon
  <2>3. {} \cup {e} = {e}
    OBVIOUS
  <2> QED
    BY <1>2, <1>4, <2>1, <2>2, <2>3
<1>6. /\ [c1 EXCEPT !.mask = {e}] = [c EXCEPT !.mask = {e}]
      /\ [k1 EXCEPT !.interest = {e}] = [k EXCEPT !.interest = {e}]
  BY <1>1, <1>c1, <1>k1 DEF Client, Sock
<1>7. \A x, y : With(r, s, x, y) = With(p, s, x, y)
  BY <1>p, <1>1, <1>2, <1>r DEF With
<1> QED
  BY <1>c, <1>k, <1>1, <1>3, <1>5, <1>6, <1>7

(* Pools whose clients are at the same point: only times, lengths or the    *)
(* state of connections that are open in both differ.                       *)
LEMMA SameClients ==
    ASSUME NEW p, PoolInv(p), NEW q, IsPool(q), q.live = p.live,
           \A s \in Slot : /\ q.slot[s].fd = p.slot[s].fd /\ q.slot[s].mask = p.slot[s].mask
                           /\ q.slot[s].sendedLen = p.slot[s].sendedLen,
           \A f \in Fd : /\ q.sock[f].interest = p.sock[f].interest
                         /\ (q.sock[f].st = "closed") <=> (p.sock[f].st = "closed")
    PROVE  PoolInv(q) /\ Waits(q) = Waits(p)
<1>1. Used(q) = Used(p) /\ Waits(q) = Waits(p)
  BY DEF Used, Waits
<1>2. ASSUME NEW s \in Slot, q.slot[s].fd # -1 PROVE Held(q, s)
  <2>1. Held(p, s)
    BY <1>2 DEF PoolInv
  <2> QED
    BY <2>1 DEF Held, Turn
<1>3. ASSUME NEW f \in Fd
      PROVE  /\ q.sock[f].st # "closed" => q.slot[SlotOf(f)].fd = f
             /\ q.sock[f].st = "closed" => q.sock[f].interest = {}
  <2>1. SlotOf(f) \in Slot
    BY SlotOfType
  <2> QED
    BY <2>1 DEF PoolInv
<1> QED
  BY <1>1, <1>2, <1>3 DEF PoolInv

(* Several clients reset at once. *)
LEMMA ResetAllInv ==
    ASSUME PoolInv(Pool), NEW S, S \subseteq Used(Pool), NEW q, q = ResetAll(S)
    PROVE  PoolInv(q) /\ Waits(q) \subseteq Waits(Pool)
<1>1. /\ IsPool(Pool) /\ slot \in [Slot -> Client] /\ sock \in [Fd -> Sock] /\ liveClientNum \in Int
      /\ Pool.slot = slot /\ Pool.sock = sock /\ Pool.live = liveClientNum
  BY DEF PoolInv, IsPool, Pool
<1>2. \A s \in S : s \in Slot /\ slot[s].fd # -1 /\ slot[s].fd \in Fd /\ SlotOf(slot[s].fd) = s
  BY <1>1 DEF Used, PoolInv, Held
<1>3. ASSUME NEW s \in S
      PROVE  /\ ReactorResetClient(Pool, s).slot[s] =
                    [slot[s] EXCEPT !.mask = {"W"}, !.sendedLen = 0]
             /\ ReactorResetClient(Pool, s).sock[slot[s].fd] =
                    [sock[slot[s].fd] EXCEPT !.interest = {"W"}]
  <2>1. ReactorResetClient(Pool, s) =
            With(Pool, s, [Pool.slot[s] EXCEPT !.mask = {"W"}, !.sendedLen = 0],
                 [Pool.sock[Pool.slot[s].fd] EXCEPT !.interest = {"W"}])
    BY <1>1, <1>2, ResetIs
  <2>c. PICK c : c = [slot[s] EXCEPT !.mask = {"W"}, !.sendedLen = 0]
    OBVIOUS
  <2>k. PICK k : k = [sock[slot[s].fd] EXCEPT !.interest = {"W"}]
    OBVIOUS
  <2>2. ReactorResetClient(Pool, s) = [slot |-> [slot EXCEPT ![s] = c],
                                       sock |-> [sock EXCEPT ![slot[s].fd] = k],
                                       live |-> liveClientNum]
    BY <1>1, <2>1, <2>c, <2>k DEF With
  <2>3. /\ ReactorResetClient(Pool, s).slot[s] = c
        /\ ReactorResetClient(Pool, s).sock[slot[s].fd] = k
    BY <1>1, <1>2, <2>2
  <2> QED
    BY <2>3, <2>c, <2>k
<1> DEFINE InS(f) == SlotOf(f) \in S /\ slot[SlotOf(f)].fd = f
<1>4. q = [slot |-> [s \in Slot |-> IF s \in S THEN ReactorResetClient(Pool, s).slot[s]
                                    ELSE slot[s]],
           sock |-> [f \in Fd |-> IF InS(f) THEN ReactorResetClient(Pool, SlotOf(f)).sock[f]
                                  ELSE sock[f]],
           live |-> liveClientNum]
  BY <1>1 DEF ResetAll, Pool
<1>5. /\ \A s \in Slot : q.slot[s] = IF s \in S THEN [slot[s] EXCEPT !.mask = {"W"}, !.sendedLen = 0]
                                     ELSE slot[s]
      /\ \A f \in Fd : q.sock[f] = IF InS(f) THEN [sock[f] EXCEPT !.interest = {"W"}] ELSE sock[f]
      /\ q.live = liveClientNum
  <2>1. q.live = liveClientNum
    BY <1>4
  <2>2. ASSUME NEW s \in Slot
        PROVE  q.slot[s] = IF s \in S THEN [slot[s] EXCEPT !.mask = {"W"}, !.sendedLen = 0]
                           ELSE slot[s]
    <3>1. q.slot[s] = IF s \in S THEN ReactorResetClient(Pool, s).slot[s] ELSE slot[s]
      BY <1>4
    <3> QED
      BY <1>3, <3>1
  <2>3. ASSUME NEW f \in Fd
        PROVE  q.sock[f] = IF InS(f) THEN [sock[f] EXCEPT !.interest = {"W"}] ELSE sock[f]
    <3>1. q.sock[f] = IF InS(f) THEN ReactorResetClient(Pool, SlotOf(f)).sock[f] ELSE sock[f]
      BY <1>4
    <3>2. CASE InS(f)
      <4> PICK s \in S : s = SlotOf(f) /\ slot[s].fd = f
        BY <3>2
      <4>1. ReactorResetClient(Pool, s).sock[slot[s].fd] =
                [sock[slot[s].fd] EXCEPT !.interest = {"W"}]
        BY <1>3
      <4> QED
        BY <3>1, <3>2, <4>1
    <3>3. CASE ~InS(f)
      BY <3>1, <3>3
    <3> QED
      BY <3>2, <3>3
  <2> HIDE DEF InS
  <2> QED
    BY <2>1, <2>2, <2>3
<1>6. ASSUME NEW s \in Slot
      PROVE  q.slot[s] \in Client /\ q.slot[s].fd = slot[s].fd
             /\ (s \in S => q.slot[s].mask = {"W"} /\ q.slot[s].sendedLen = 0)
             /\ (s \notin S => q.slot[s] = slot[s])
  <2>1. 0 \in 0 .. ReqLen
    BY BenchAssumption
  <2>2. slot[s] \in Client
    BY <1>1
  <2>3. CASE s \in S
    <3>1. q.slot[s] = [slot[s] EXCEPT !.mask = {"W"}, !.sendedLen = 0]
      BY <1>5, <2>3
    <3> QED
      BY <2>1, <2>2, <2>3, <3>1 DEF Client
  <2>4. CASE s \notin S
    <3>1. q.slot[s] = slot[s]
      BY <1>5, <2>4
    <3> QED
      BY <2>2, <2>4, <3>1
  <2> QED
    BY <2>3, <2>4
<1>7. ASSUME NEW f \in Fd
      PROVE  q.sock[f] \in Sock /\ q.sock[f].st = sock[f].st
             /\ (InS(f) => q.sock[f].interest = {"W"})
             /\ (~InS(f) => q.sock[f] = sock[f])
  <2>1. sock[f] \in Sock
    BY <1>1
  <2>2. q.sock[f] = IF InS(f) THEN [sock[f] EXCEPT !.interest = {"W"}] ELSE sock[f]
    BY <1>5
  <2> HIDE DEF InS
  <2> QED
    BY <2>1, <2>2 DEF Sock
<1>8. IsPool(q)
  <2>1. [s \in Slot |-> q.slot[s]] \in [Slot -> Client] /\ [f \in Fd |-> q.sock[f]] \in [Fd -> Sock]
    BY <1>6, <1>7
  <2>2. q.slot = [s \in Slot |-> q.slot[s]] /\ q.sock = [f \in Fd |-> q.sock[f]]
    BY <1>4
  <2> QED
    BY <1>1, <1>4, <2>1, <2>2 DEF IsPool
<1>9. Used(q) = Used(Pool) /\ Waits(q) \subseteq Waits(Pool)
  BY <1>1, <1>6 DEF Used, Waits
<1>10. ASSUME NEW s \in Slot, q.slot[s].fd # -1 PROVE Held(q, s)
  <2>1. Held(Pool, s) /\ slot[s].fd \in Fd /\ SlotOf(slot[s].fd) = s /\ q.slot[s].fd = slot[s].fd
    BY <1>1, <1>6, <1>10 DEF PoolInv, Held
  <2>2. CASE s \in S
    <3>1. InS(slot[s].fd)
      BY <2>1, <2>2
    <3>2. /\ q.sock[slot[s].fd].interest = {"W"} /\ q.sock[slot[s].fd].st = sock[slot[s].fd].st
          /\ q.slot[s].mask = {"W"} /\ q.slot[s].sendedLen = 0
      BY <1>6, <1>7, <2>1, <2>2, <3>1
    <3>3. 0 < ReqLen
      BY BenchAssumption
    <3> QED
      BY <1>1, <2>1, <3>2, <3>3 DEF Held, Turn
  <2>3. CASE s \notin S
    <3>1. q.slot[s] = slot[s] /\ q.sock[slot[s].fd] = sock[slot[s].fd]
      BY <1>6, <1>7, <2>1, <2>3
    <3> QED
      BY <1>1, <2>1, <3>1 DEF Held
  <2> QED
    BY <2>2, <2>3
<1>11. ASSUME NEW f \in Fd
       PROVE  /\ q.sock[f].st # "closed" => q.slot[SlotOf(f)].fd = f
              /\ q.sock[f].st = "closed" => q.sock[f].interest = {}
  <2>1. SlotOf(f) \in Slot
    BY SlotOfType
  <2>2. InS(f) => sock[f].st # "closed"
    BY <1>1, <1>2 DEF PoolInv, Held
  <2> QED
    BY <1>1, <1>6, <1>7, <2>1, <2>2 DEF PoolInv
<1>12. q.live = Cardinality(Used(q))
  BY <1>1, <1>5, <1>9 DEF PoolInv
<1> QED
  BY <1>8, <1>9, <1>10, <1>11, <1>12 DEF PoolInv

(***************************************************************************)
(* Steps.                                                                  *)
(***************************************************************************)

(* The pool in terms of the variables. *)
LEMMA PoolVars ==
    ASSUME PoolInv(Pool)
    PROVE  /\ Pool.slot = slot /\ Pool.sock = sock /\ Pool.live = liveClientNum
           /\ slot \in [Slot -> Client] /\ sock \in [Fd -> Sock] /\ liveClientNum \in Int
           /\ Waiting = Waits(Pool)
<1>1. Pool.slot = slot /\ Pool.sock = sock /\ Pool.live = liveClientNum
  BY DEF Pool
<1>2. Waiting = Waits(Pool)
  BY <1>1 DEF Waiting, Waits, Used
<1> QED
  BY <1>1, <1>2, PoolParts DEF PoolInv

(* After a handler the pool is the one it made. *)
LEMMA PoolAfter ==
    ASSUME NEW q, PoolInv(q), Becomes(q)
    PROVE  Pool' = q /\ slot' = q.slot /\ sock' = q.sock
<1>1. q = [slot |-> q.slot, sock |-> q.sock, live |-> q.live]
  BY PoolParts DEF PoolInv
<1> QED
  BY <1>1 DEF Becomes, Pool

(* The client of an event that is dispatched. *)
LEMMA EventClient ==
    ASSUME Inv, NEW f \in Fd, NEW event \in {"ERR", "IN", "OUT"}, Dispatches(f, event)
    PROVE  /\ phase = "loop" /\ SlotOf(f) \in Slot /\ slot[SlotOf(f)].fd = f /\ f # -1
           /\ slot[SlotOf(f)] \in Client /\ sock[f] \in Sock
           /\ sock[f].st # "closed" /\ sock[f].interest = slot[SlotOf(f)].mask
           /\ slot[SlotOf(f)].mask = Turn(slot[SlotOf(f)])
           /\ event = "IN" => slot[SlotOf(f)].mask = {"R"} /\ SlotOf(f) \in Waits(Pool)
           /\ event = "OUT" => /\ slot[SlotOf(f)].mask = {"W"} /\ SlotOf(f) \notin Waits(Pool)
                               /\ slot[SlotOf(f)].sendedLen < ReqLen
                               /\ mode = "udp" => sock[f].wire < Room
           /\ epoll_fail <= MaxFail
<1>1. SlotOf(f) \in Slot /\ f # -1
  BY SlotOfType
<1>2. phase = "loop" /\ batch[f] = event /\ phase \notin Ended
  BY DEF Dispatches, Ended
<1>3. /\ slot[SlotOf(f)].fd = f
      /\ event = "IN" => "R" \in slot[SlotOf(f)].mask
      /\ event = "OUT" => "W" \in slot[SlotOf(f)].mask
      /\ event = "OUT" /\ mode = "udp" => sock[f].wire < Room
      /\ epoll_fail <= MaxFail
  BY <1>2 DEF Inv, BatchFresh, Running
<1>4. /\ Pool.slot = slot /\ Pool.sock = sock
      /\ slot \in [Slot -> Client] /\ sock \in [Fd -> Sock]
  BY PoolVars DEF Inv
<1>5. Held(Pool, SlotOf(f))
  BY <1>1, <1>3, <1>4 DEF Inv, PoolInv
<1>6. /\ sock[f].st # "closed" /\ sock[f].interest = slot[SlotOf(f)].mask
      /\ slot[SlotOf(f)].mask = Turn(slot[SlotOf(f)])
  BY <1>3, <1>4, <1>5 DEF Held
<1>7. /\ event = "IN" => slot[SlotOf(f)].mask = {"R"}
      /\ event = "OUT" => slot[SlotOf(f)].mask = {"W"} /\ slot[SlotOf(f)].sendedLen < ReqLen
  BY <1>3, <1>6 DEF Turn
<1>8. /\ event = "IN" => SlotOf(f) \in Waits(Pool)
      /\ event = "OUT" => SlotOf(f) \notin Waits(Pool)
  BY <1>1, <1>3, <1>4, <1>7 DEF Waits
<1> QED
  BY <1>1, <1>2, <1>3, <1>4, <1>6, <1>7, <1>8

(* The pool after a step that makes it q. *)
LEMMA BecomesInv ==
    ASSUME NEW q, PoolInv(q), Becomes(q)
    PROVE  PoolInv(Pool)' /\ Waiting' = Waits(q) /\ slot' = q.slot /\ sock' = q.sock
<1>1. Pool' = q /\ slot' = q.slot /\ sock' = q.sock
  BY PoolAfter
<1>2. PoolInv(Pool)'
  BY <1>1 DEF PoolInv, IsPool, Held, Used, Slot, Fd, Client, Sock, SlotOf, Turn
<1>3. Waiting' = Waits(q)
  <2>1. Waiting' = Waits(Pool)'
    BY <1>1 DEF Waiting, Waits, Used, Pool
  <2> QED
    BY <1>1, <2>1 DEF Waits
<1> QED
  BY <1>1, <1>2, <1>3

(* A handler that touches only the client of its event leaves the other     *)
(* events fresh.                                                            *)
LEMMA HandledFresh ==
    ASSUME Inv, NEW f \in Fd, NEW event \in {"ERR", "IN", "OUT"}, Dispatches(f, event),
           Handled(f), NEW q, PoolInv(q), Keeps(Pool, q, SlotOf(f)), Becomes(q), mode' = mode
    PROVE  /\ PoolInv(Pool)' /\ Waiting' = Waits(q) /\ BatchFresh'
           /\ batch' \in [Fd -> {"none", "ERR", "IN", "OUT"}]
           /\ \A g \in Fd : batch'[g] = "OUT" /\ mode' = "udp" => sock'[g].wire < Room'
<1>1. PoolInv(Pool)' /\ Waiting' = Waits(q) /\ slot' = q.slot /\ sock' = q.sock
  BY BecomesInv
<1>4. batch \in [Fd -> {"none", "ERR", "IN", "OUT"}]
  BY DEF Inv, CountTypes
<1>5. batch' \in [Fd -> {"none", "ERR", "IN", "OUT"}]
  BY <1>4 DEF Handled
<1>6. ASSUME NEW g \in Fd, batch'[g] # "none"
      PROVE  /\ batch[g] = batch'[g] /\ slot[SlotOf(g)].fd = g
             /\ slot'[SlotOf(g)] = slot[SlotOf(g)] /\ sock'[g] = sock[g]
  <2>1. g # f /\ batch[g] = batch'[g]
    BY <1>4, <1>6 DEF Handled
  <2>2. phase = "loop" /\ slot[SlotOf(f)].fd = f
    BY EventClient
  <2>3. slot[SlotOf(g)].fd = g /\ SlotOf(g) \in Slot /\ g # -1
    BY <1>6, <2>1, <2>2, SlotOfType DEF Inv, BatchFresh, Ended
  <2>4. SlotOf(g) # SlotOf(f)
    BY <2>1, <2>2, <2>3
  <2> QED
    BY <1>1, <2>1, <2>3, <2>4, PoolVars DEF Keeps, Inv
<1>7. phase = "loop"
  BY DEF Dispatches
<1>8. BatchFresh'
  BY <1>6, <1>7 DEF Inv, BatchFresh, Ended, SlotOf
<1>9. \A g \in Fd : batch'[g] = "OUT" /\ mode' = "udp" => sock'[g].wire < Room'
  BY <1>6, <1>7 DEF Inv, Running, Ended, Room
<1> QED
  BY <1>1, <1>5, <1>8, <1>9

(* Fewer clients that wait, and fewer that wait without one of them. *)
LEMMA FewerWait ==
    ASSUME NEW p, NEW q
    PROVE  /\ Waits(q) \subseteq Waits(p) => Cardinality(Waits(q)) <= Cardinality(Waits(p))
           /\ \A s : s \in Waits(p) /\ Waits(q) = Waits(p) \ {s} =>
                        Cardinality(Waits(q)) = Cardinality(Waits(p)) - 1
           /\ \A s : s \notin Waits(p) /\ Waits(q) = Waits(p) \cup {s} =>
                        Cardinality(Waits(q)) = Cardinality(Waits(p)) + 1
           /\ Cardinality(Waits(p)) \in 0 .. needClientNum
           /\ Cardinality(Waits(q)) \in 0 .. needClientNum
<1>1. IsFiniteSet(Waits(p)) /\ Cardinality(Waits(p)) \in 0 .. needClientNum
      /\ Cardinality(Waits(q)) \in 0 .. needClientNum
  BY UsedFinite
<1>2. Waits(q) \subseteq Waits(p) => Cardinality(Waits(q)) <= Cardinality(Waits(p))
  BY <1>1, FS_Subset
<1>3. \A s : s \in Waits(p) /\ Waits(q) = Waits(p) \ {s} =>
                Cardinality(Waits(q)) = Cardinality(Waits(p)) - 1
  BY <1>1, FS_RemoveElement
<1>4. \A s : s \notin Waits(p) /\ Waits(q) = Waits(p) \cup {s} =>
                Cardinality(Waits(q)) = Cardinality(Waits(p)) + 1
  BY <1>1, FS_AddElement
<1> QED
  BY <1>1, <1>2, <1>3, <1>4

(* A step that leaves the pool alone. *)
LEMMA PoolKept ==
    ASSUME PoolInv(Pool), UNCHANGED poolVars
    PROVE  PoolInv(Pool)' /\ Waiting' = Waiting
<1>1. Pool' = Pool
  BY DEF Pool, poolVars
<1>2. PoolInv(Pool)'
  BY <1>1 DEF PoolInv, IsPool, Held, Used, Slot, Fd, Client, Sock, SlotOf, Turn
<1>3. Waiting' = Waiting
  BY <1>1 DEF Waiting, Used, poolVars
<1> QED
  BY <1>2, <1>3

(* Whoever stops to wait, AnsweredOnce holds as before. *)
LEMMA StillAnsweredOnce ==
    ASSUME Inv, NEW q, Waiting' = Waits(q), Waits(q) \subseteq Waits(Pool),
           UNCHANGED <<doneRequests, written, stop>>
    PROVE  AnsweredOnce'
<1>1. Waiting = Waits(Pool)
  BY PoolVars DEF Inv
<1>2. /\ Cardinality(Waits(q)) <= Cardinality(Waits(Pool))
      /\ Cardinality(Waits(q)) \in 0 .. needClientNum
      /\ Cardinality(Waits(Pool)) \in 0 .. needClientNum
  BY FewerWait
<1>3. doneRequests \in Nat /\ written \in Nat /\ needClientNum \in Nat
  BY BenchAssumption DEF Inv, CountTypes
<1>4. Cardinality(Waiting)' = Cardinality(Waits(q))
  OBVIOUS
<1> QED
  BY <1>1, <1>2, <1>3, <1>4 DEF Inv, AnsweredOnce

(* A handler that ends the process and changes nothing of the pool. *)
LEMMA ExitInv ==
    ASSUME Inv, NEW f \in Fd, Handled(f), phase' \in Ended, UNCHANGED poolVars,
           epoll_fail' \in 0 .. MaxFail + 1,
           UNCHANGED <<mode, doneRequests, written, timeoutClientNum, stop, due, ends>>
    PROVE  Inv'
<1>1. PoolInv(Pool)' /\ Waiting' = Waiting
  BY PoolKept DEF Inv
<1>2. CountTypes'
  BY DEF Inv, CountTypes, Handled
<1>3. Running' /\ BatchFresh'
  BY DEF Running, BatchFresh
<1>4. AnsweredOnce'
  BY <1>1 DEF Inv, AnsweredOnce
<1> QED
  BY <1>1, <1>2, <1>3, <1>4 DEF Inv

(* A handler that replaces the client of its event. *)
LEMMA ReplaceInv ==
    ASSUME Inv, NEW f \in Fd, NEW event \in {"ERR", "IN", "OUT"}, Dispatches(f, event),
           Handled(f), NEW p, PoolInv(p), Keeps(Pool, p, SlotOf(f)), Waits(p) = Waits(Pool),
           p.slot[SlotOf(f)].fd # -1,
           NEW connects \in BOOLEAN, Becomes(Replaced(p, SlotOf(f), connects)),
           epoll_fail' \in 0 .. MaxFail,
           UNCHANGED <<mode, doneRequests, written, timeoutClientNum, stop, phase, due, ends>>
    PROVE  Inv'
<1>q. PICK q : q = Replaced(p, SlotOf(f), connects)
  OBVIOUS
<1>1. SlotOf(f) \in Slot
  BY SlotOfType
<1>2. PoolInv(q) /\ Keeps(p, q, SlotOf(f)) /\ Waits(q) = Waits(p) \ {SlotOf(f)}
  BY <1>1, <1>q, ReplacedInv
<1>3. Keeps(Pool, q, SlotOf(f))
  BY <1>2 DEF Keeps
<1>4. Becomes(q)
  BY <1>q
<1>5. /\ PoolInv(Pool)' /\ Waiting' = Waits(q) /\ BatchFresh'
      /\ batch' \in [Fd -> {"none", "ERR", "IN", "OUT"}]
      /\ \A g \in Fd : batch'[g] = "OUT" /\ mode' = "udp" => sock'[g].wire < Room'
  BY <1>2, <1>3, <1>4, HandledFresh
<1>6. CountTypes'
  BY <1>5, BenchAssumption DEF Inv, CountTypes
<1>7. Running'
  BY <1>5, BenchAssumption DEF Running
<1>8. AnsweredOnce'
  <2>1. Waits(q) \subseteq Waits(Pool)
    BY <1>2
  <2> QED
    BY <1>5, <2>1, StillAnsweredOnce
<1> QED
  BY <1>5, <1>6, <1>7, <1>8 DEF Inv

(* An error replaces the client, or is one too many and ends the process. *)
LEMMA DispatchErrorInv ==
    ASSUME Inv, NEW f \in Fd, NEW connects \in BOOLEAN, DispatchError(f, connects)
    PROVE  Inv'
<1>1. /\ Dispatches(f, "ERR") /\ epoll_fail' = epoll_fail + 1 /\ Handled(f)
      /\ UNCHANGED <<mode, doneRequests, written, timeoutClientNum, stop, due, ends>>
  BY DEF DispatchError
<1>2. epoll_fail <= MaxFail /\ epoll_fail \in Nat /\ MaxFail \in Nat /\ slot[SlotOf(f)].fd = f /\ f # -1
  BY <1>1, EventClient, BenchAssumption DEF Inv, CountTypes
<1>3. epoll_fail' \in 0 .. MaxFail + 1
  BY <1>1, <1>2
<1>4. CASE epoll_fail' > MaxFail
  BY <1>1, <1>3, <1>4, ExitInv DEF DispatchError, Ended
<1>5. CASE ~(epoll_fail' > MaxFail)
  <2>1. epoll_fail' \in 0 .. MaxFail
    BY <1>1, <1>2, <1>5
  <2>2. phase' = phase /\ Becomes(Replaced(Pool, SlotOf(f), connects))
    BY <1>5 DEF DispatchError
  <2>3. /\ PoolInv(Pool) /\ Keeps(Pool, Pool, SlotOf(f)) /\ Waits(Pool) = Waits(Pool)
        /\ Pool.slot[SlotOf(f)].fd # -1
    BY <1>2, PoolVars DEF Inv, Keeps
  <2> QED
    BY <1>1, <2>1, <2>2, <2>3, ReplaceInv
<1> QED
  BY <1>4, <1>5

(* The touched client is otherwise the one it was. *)
LEMMA TouchedInv ==
    ASSUME Inv, NEW f \in Fd, NEW event \in {"ERR", "IN", "OUT"}, Dispatches(f, event),
           NEW p, p = Touched(Pool, SlotOf(f))
    PROVE  /\ PoolInv(p) /\ Keeps(Pool, p, SlotOf(f)) /\ Waits(p) = Waits(Pool)
           /\ p.slot[SlotOf(f)].fd = f /\ p.sock = sock
<1>s. PICK s : s = SlotOf(f)
  OBVIOUS
<1>1. /\ s \in Slot /\ slot[s].fd = f /\ f # -1 /\ slot[s] \in Client /\ sock[f] \in Sock
      /\ sock[f].st # "closed" /\ sock[f].interest = slot[s].mask /\ slot[s].mask = Turn(slot[s])
  BY <1>s, EventClient
<1>2. Pool.slot = slot /\ Pool.sock = sock /\ PoolInv(Pool) /\ IsPool(Pool)
      /\ slot \in [Slot -> Client] /\ sock \in [Fd -> Sock]
  BY PoolVars DEF Inv, PoolInv
<1>c. PICK c : c = [slot[s] EXCEPT !.age = 0]
  OBVIOUS
<1>3. c \in Client /\ c.fd = f /\ c.mask = slot[s].mask /\ c.sendedLen = slot[s].sendedLen
  <2>1. 0 \in 0 .. Timeout
    BY BenchAssumption
  <2> QED
    BY <1>1, <1>c, <2>1 DEF Client
<1>4. p = With(Pool, s, c, sock[f])
  <2>1. Pool.slot[s].fd \in Fd /\ Pool.sock[Pool.slot[s].fd] = sock[f] /\ Pool.slot[s] = slot[s]
    BY <1>1, <1>2
  <2>2. Touched(Pool, s) = With(Pool, s, [Pool.slot[s] EXCEPT !.age = 0], Pool.sock[Pool.slot[s].fd])
    BY <1>1, <1>2, <2>1, TouchedIs
  <2> QED
    BY <1>s, <1>c, <2>1, <2>2
<1>5. GoesOn(Pool, s, c, sock[f])
  BY <1>1, <1>2, <1>3 DEF GoesOn, Turn
<1>6. /\ PoolInv(p) /\ Keeps(Pool, p, s)
      /\ Waits(p) = IF "R" \in c.mask THEN Waits(Pool) \cup {s} ELSE Waits(Pool) \ {s}
  BY <1>2, <1>4, <1>5, WithInv
<1>7. "R" \in c.mask <=> s \in Waits(Pool)
  BY <1>1, <1>2, <1>3 DEF Waits
<1>8. p.slot[s].fd = f /\ p.sock = sock
  BY <1>1, <1>2, <1>3, <1>4 DEF With
<1> QED
  BY <1>s, <1>6, <1>7, <1>8

(* A read that fails replaces the client. *)
LEMMA RecvFailsInv ==
    ASSUME Inv, NEW f \in Fd, NEW connects \in BOOLEAN, RecvFails(f, connects)
    PROVE  Inv'
<1>p. PICK p : p = Touched(Pool, SlotOf(f))
  OBVIOUS
<1>1. /\ Dispatches(f, "IN") /\ Becomes(Replaced(p, SlotOf(f), connects)) /\ Handled(f)
      /\ UNCHANGED <<mode, countVars, stop, phase, due, ends>>
  BY <1>p DEF RecvFails
<1>2. /\ PoolInv(p) /\ Keeps(Pool, p, SlotOf(f)) /\ Waits(p) = Waits(Pool)
      /\ p.slot[SlotOf(f)].fd # -1
  BY <1>1, <1>p, TouchedInv, EventClient
<1>3. epoll_fail' \in 0 .. MaxFail
  BY <1>1, EventClient, BenchAssumption DEF Inv, CountTypes, countVars
<1> QED
  BY <1>1, <1>2, <1>3, ReplaceInv DEF countVars

(* A write that fails replaces the client, or SIGPIPE ends the process. *)
LEMMA SendFailsInv ==
    ASSUME Inv, NEW f \in Fd, NEW connects \in BOOLEAN, SendFails(f, connects)
    PROVE  Inv'
<1>p. PICK p : p = Touched(Pool, SlotOf(f))
  OBVIOUS
<1>1. /\ Dispatches(f, "OUT") /\ Handled(f)
      /\ UNCHANGED <<mode, countVars, stop, due, ends>>
  BY DEF SendFails
<1>2. epoll_fail' \in 0 .. MaxFail /\ epoll_fail' \in 0 .. MaxFail + 1
  BY <1>1, EventClient, BenchAssumption DEF Inv, CountTypes, countVars
<1>3. CASE Becomes(Replaced(p, SlotOf(f), connects)) /\ UNCHANGED phase
  <2>1. /\ PoolInv(p) /\ Keeps(Pool, p, SlotOf(f)) /\ Waits(p) = Waits(Pool)
        /\ p.slot[SlotOf(f)].fd # -1
    BY <1>1, <1>p, TouchedInv, EventClient
  <2> QED
    BY <1>1, <1>2, <1>3, <2>1, ReplaceInv DEF countVars
<1>4. CASE phase' = "sigpipe" /\ UNCHANGED poolVars
  BY <1>1, <1>2, <1>4, ExitInv DEF countVars, Ended
<1> QED
  BY <1>p, <1>3, <1>4 DEF SendFails

(* The touched client with something written or read. *)
LEMMA TouchedWith ==
    ASSUME IsPool(Pool), NEW s \in Slot, slot[s].fd \in Fd, NEW n \in Int
    PROVE  /\ [Touched(Pool, s) EXCEPT !.sock[slot[s].fd].inq = @ - n] =
                  With(Pool, s, [slot[s] EXCEPT !.age = 0], [sock[slot[s].fd] EXCEPT !.inq = @ - n])
           /\ [Touched(Pool, s) EXCEPT !.slot[s].sendedLen = @ + n, !.sock[slot[s].fd].wire = @ + n] =
                  With(Pool, s, [slot[s] EXCEPT !.age = 0, !.sendedLen = @ + n],
                       [sock[slot[s].fd] EXCEPT !.wire = @ + n])
<1>1. /\ slot \in [Slot -> Client] /\ sock \in [Fd -> Sock]
      /\ Pool = [slot |-> slot, sock |-> sock, live |-> liveClientNum]
  BY DEF IsPool, Pool
<1>2. Touched(Pool, s) = [slot |-> [slot EXCEPT ![s].age = 0], sock |-> sock, live |-> liveClientNum]
  BY <1>1 DEF Touched
<1>3. [Touched(Pool, s) EXCEPT !.sock[slot[s].fd].inq = @ - n] =
          [slot |-> [slot EXCEPT ![s].age = 0], sock |-> [sock EXCEPT ![slot[s].fd].inq = @ - n],
           live |-> liveClientNum]
  BY <1>2
<1>4. [Touched(Pool, s) EXCEPT !.slot[s].sendedLen = @ + n, !.sock[slot[s].fd].wire = @ + n] =
          [slot |-> [[slot EXCEPT ![s].age = 0] EXCEPT ![s].sendedLen = @ + n],
           sock |-> [sock EXCEPT ![slot[s].fd].wire = @ + n],
           live |-> liveClientNum]
  <2>t. PICK t : t = Touched(Pool, s)
    OBVIOUS
  <2>1. /\ DOMAIN t = {"slot", "sock", "live"} /\ t.sock = sock /\ t.live = liveClientNum
        /\ t.slot = [slot EXCEPT ![s].age = 0]
    BY <1>2, <2>t
  <2> DEFINE r == [t EXCEPT !.slot[s].sendedLen = @ + n, !.sock[slot[s].fd].wire = @ + n]
  <2>2. r = [x \in {"slot", "sock", "live"} |-> r[x]]
    BY <2>1
  <2>3. /\ r.slot = [t.slot EXCEPT ![s].sendedLen = @ + n]
        /\ r.sock = [t.sock EXCEPT ![slot[s].fd].wire = @ + n] /\ r.live = t.live
    BY <2>1
  <2> HIDE DEF r
  <2>4. r = [slot |-> [t.slot EXCEPT ![s].sendedLen = @ + n],
             sock |-> [t.sock EXCEPT ![slot[s].fd].wire = @ + n], live |-> t.live]
    BY <2>2, <2>3
  <2> QED
    BY <2>t, <2>1, <2>4 DEF r
<1>5. [[slot EXCEPT ![s].age = 0] EXCEPT ![s].sendedLen = @ + n] =
          [slot EXCEPT ![s] = [slot[s] EXCEPT !.age = 0, !.sendedLen = @ + n]]
  BY <1>1 DEF Client
<1> QED
  BY <1>1, <1>3, <1>4, <1>5 DEF With

(* What is written fits the rest of the request and the room of the socket. *)
LEMMA WritableFits ==
    ASSUME Inv, NEW f \in Fd, Dispatches(f, "OUT"), NEW n \in Writable(f)
    PROVE  /\ n \in Nat /\ slot[SlotOf(f)].sendedLen + n \in 0 .. ReqLen
           /\ sock[f].wire + n \in 0 .. SndBuf
<1>s. PICK s : s = SlotOf(f)
  OBVIOUS
<1>1. /\ slot[s] \in Client /\ sock[f] \in Sock /\ slot[s].sendedLen < ReqLen
      /\ mode = "udp" => sock[f].wire < Room
  BY <1>s, EventClient
<1>2. /\ slot[s].sendedLen \in 0 .. ReqLen /\ sock[f].wire \in 0 .. SndBuf
      /\ ReqLen \in Nat /\ SndBuf \in Nat
  BY <1>1, BenchAssumption DEF Client, Sock
<1>3. CASE mode = "udp"
  <2>1. n = ReqLen - slot[s].sendedLen /\ sock[f].wire < SndBuf - ReqLen + 1
    BY <1>1, <1>3, <1>s DEF Writable, Room
  <2> QED
    BY <1>1, <1>2, <1>s, <2>1
<1>4. CASE mode # "udp"
  <2>1. n \in 1 .. Min({ReqLen - slot[s].sendedLen, SndBuf - sock[f].wire})
    BY <1>4, <1>s DEF Writable
  <2>2. Min({ReqLen - slot[s].sendedLen, SndBuf - sock[f].wire}) =
            IF ReqLen - slot[s].sendedLen <= SndBuf - sock[f].wire
            THEN ReqLen - slot[s].sendedLen ELSE SndBuf - sock[f].wire
    BY <1>2, MinOfTwo
  <2> QED
    BY <1>2, <1>s, <2>1, <2>2
<1> QED
  BY <1>3, <1>4

(* A write: with the last piece the client begins to wait, and the request  *)
(* is counted.                                                              *)
LEMMA SendToServerInv ==
    ASSUME Inv, NEW f \in Fd, SendToServer(f)
    PROVE  Inv'
<1>s. PICK s : s = SlotOf(f)
  OBVIOUS
<1>1. /\ Dispatches(f, "OUT") /\ Handled(f)
      /\ UNCHANGED <<mode, doneRequests, timeoutClientNum, epoll_fail, stop, phase, due, ends>>
  BY DEF SendToServer
<1>2. /\ phase = "loop" /\ s \in Slot /\ slot[s].fd = f /\ f # -1
      /\ slot[s] \in Client /\ sock[f] \in Sock /\ sock[f].st # "closed"
      /\ sock[f].interest = {"W"} /\ slot[s].mask = {"W"} /\ s \notin Waits(Pool)
      /\ slot[s].sendedLen < ReqLen /\ epoll_fail <= MaxFail
  BY <1>1, <1>s, EventClient
<1>3. /\ Pool.slot = slot /\ Pool.sock = sock /\ PoolInv(Pool) /\ IsPool(Pool)
      /\ slot \in [Slot -> Client] /\ sock \in [Fd -> Sock] /\ Waiting = Waits(Pool)
  BY PoolVars DEF Inv, PoolInv
<1>4. PICK n \in Writable(f) :
          LET p == [Touched(Pool, s) EXCEPT !.slot[s].sendedLen = @ + n, !.sock[f].wire = @ + n]
              whole == p.slot[s].sendedLen = ReqLen
          IN  /\ Becomes(IF whole THEN ReactorAddEvent(ReactorDelEvent(p, s, "W"), s, "R") ELSE p)
              /\ CountRequest(whole)
  BY <1>s DEF SendToServer
<1>5. n \in Nat /\ slot[s].sendedLen + n \in 0 .. ReqLen /\ sock[f].wire + n \in 0 .. SndBuf
  BY <1>1, <1>s, WritableFits
<1>p. PICK p : p = [Touched(Pool, s) EXCEPT !.slot[s].sendedLen = @ + n, !.sock[f].wire = @ + n]
  OBVIOUS
<1>c. PICK c : c = [slot[s] EXCEPT !.age = 0, !.sendedLen = @ + n]
  OBVIOUS
<1>k. PICK k : k = [sock[f] EXCEPT !.wire = @ + n]
  OBVIOUS
<1>6. /\ c \in Client /\ c.fd = f /\ c.mask = {"W"} /\ c.sendedLen = slot[s].sendedLen + n
      /\ c.sendedLen \in 0 .. ReqLen
  <2>1. 0 \in 0 .. Timeout
    BY BenchAssumption
  <2> QED
    BY <1>2, <1>5, <1>c, <2>1 DEF Client
<1>7. k \in Sock /\ k.st # "closed" /\ k.interest = {"W"}
  BY <1>2, <1>5, <1>k DEF Sock
<1>8. p = With(Pool, s, c, k)
  <2>1. slot[s].fd \in Fd /\ n \in Int
    BY <1>2, <1>5
  <2>2. [Touched(Pool, s) EXCEPT !.slot[s].sendedLen = @ + n, !.sock[slot[s].fd].wire = @ + n] =
            With(Pool, s, [slot[s] EXCEPT !.age = 0, !.sendedLen = @ + n],
                 [sock[slot[s].fd] EXCEPT !.wire = @ + n])
    <3>1. IsPool(Pool) /\ s \in Slot
      BY <1>2, <1>3
    <3> QED
      BY <2>1, <3>1, TouchedWith, Zenon
  <2> QED
    BY <1>2, <1>p, <1>c, <1>k, <2>2
<1>9. IsPool(p) /\ p.slot[s] = c /\ p.sock[f] = k /\ p.slot[s].fd = f
  BY <1>2, <1>3, <1>6, <1>7, <1>8 DEF With, IsPool
<1>10. \E q : /\ Becomes(q) /\ PoolInv(q) /\ Keeps(Pool, q, s)
              /\ \/ Waits(q) = Waits(Pool) \cup {s} /\ CountRequest(TRUE)
                 \/ Waits(q) = Waits(Pool) /\ CountRequest(FALSE)
  <2>1. CASE c.sendedLen = ReqLen
    <3>c1. PICK c1 : c1 = [c EXCEPT !.mask = {"R"}]
      OBVIOUS
    <3>k1. PICK k1 : k1 = [k EXCEPT !.interest = {"R"}]
      OBVIOUS
    <3>1. ReactorAddEvent(ReactorDelEvent(p, s, "W"), s, "R") = With(p, s, c1, k1)
      <4>1. /\ IsPool(p) /\ s \in Slot /\ p.slot[s].fd \in Fd
            /\ p.sock[p.slot[s].fd].interest = p.slot[s].mask /\ p.slot[s].mask = {"W"}
        BY <1>2, <1>6, <1>7, <1>9
      <4>2. ReactorAddEvent(ReactorDelEvent(p, s, "W"), s, "R") =
                With(p, s, [p.slot[s] EXCEPT !.mask = {"R"}],
                     [p.sock[p.slot[s].fd] EXCEPT !.interest = {"R"}])
        <5>1. ListensFor(p, s, "W")
          BY <4>1 DEF ListensFor
        <5> QED
          BY <5>1, SwitchIs, Zenon
      <4> QED
        BY <1>9, <3>c1, <3>k1, <4>2
    <3>2. With(p, s, c1, k1) = With(Pool, s, c1, k1)
      BY <1>2, <1>3, <1>8, <1>6 DEF With
    <3>3. /\ c1 \in Client /\ c1.fd = f /\ c1.mask = {"R"} /\ c1.sendedLen = ReqLen
          /\ k1 \in Sock /\ k1.st # "closed" /\ k1.interest = {"R"}
      BY <1>6, <1>7, <2>1, <3>c1, <3>k1 DEF Client, Sock
    <3>4. GoesOn(Pool, s, c1, k1)
      BY <1>2, <1>3, <3>3, BenchAssumption DEF GoesOn, Turn
    <3>5. /\ PoolInv(With(Pool, s, c1, k1)) /\ Keeps(Pool, With(Pool, s, c1, k1), s)
          /\ Waits(With(Pool, s, c1, k1)) = Waits(Pool) \cup {s}
      BY <1>3, <3>3, <3>4, WithInv
    <3>6. Becomes(With(Pool, s, c1, k1)) /\ CountRequest(TRUE)
      BY <1>4, <1>p, <1>9, <2>1, <3>1, <3>2
    <3> QED
      BY <3>5, <3>6
  <2>2. CASE c.sendedLen # ReqLen
    <3>1. c.mask = Turn(c)
      BY <1>6, <2>2, BenchAssumption DEF Turn
    <3>2. GoesOn(Pool, s, c, k)
      BY <1>2, <1>3, <1>6, <1>7, <3>1 DEF GoesOn
    <3>3. PoolInv(p) /\ Keeps(Pool, p, s) /\ Waits(p) = Waits(Pool) \ {s}
      BY <1>3, <1>6, <1>8, <3>2, WithInv
    <3>4. Waits(p) = Waits(Pool)
      BY <1>2, <3>3
    <3>5. Becomes(p) /\ CountRequest(FALSE)
      BY <1>4, <1>p, <1>9, <2>2
    <3> QED
      BY <3>3, <3>4, <3>5
  <2> QED
    BY <2>1, <2>2
<1>11. PICK q : /\ Becomes(q) /\ PoolInv(q) /\ Keeps(Pool, q, s)
                /\ \/ Waits(q) = Waits(Pool) \cup {s} /\ CountRequest(TRUE)
                   \/ Waits(q) = Waits(Pool) /\ CountRequest(FALSE)
  BY <1>10
<1>12. /\ PoolInv(Pool)' /\ Waiting' = Waits(q) /\ BatchFresh'
       /\ batch' \in [Fd -> {"none", "ERR", "IN", "OUT"}]
       /\ \A g \in Fd : batch'[g] = "OUT" /\ mode' = "udp" => sock'[g].wire < Room'
  BY <1>1, <1>s, <1>11, HandledFresh
<1>13. /\ needRequestNum \in Nat /\ needClientNum \in Nat
       /\ written \in 0 .. needRequestNum + needClientNum
       /\ doneRequests \in 0 .. needRequestNum
  BY BenchAssumption DEF Inv, CountTypes
<1>14. \/ /\ Waits(q) = Waits(Pool) \cup {s}
          /\ written' = IF written + 1 <= needRequestNum + needClientNum
                        THEN written + 1 ELSE needRequestNum + needClientNum
       \/ Waits(q) = Waits(Pool) /\ written' = written
  BY <1>11, <1>13, MinOfTwo DEF CountRequest
<1>15. CountTypes'
  BY <1>1, <1>12, <1>13, <1>14 DEF Inv, CountTypes
<1>16. Running'
  BY <1>1, <1>2, <1>12 DEF Running
<1>17. AnsweredOnce'
  <2>1. /\ Cardinality(Waits(q)) \in 0 .. needClientNum
        /\ Cardinality(Waits(Pool)) \in 0 .. needClientNum
        /\ Waits(q) = Waits(Pool) \cup {s} => Cardinality(Waits(q)) <= Cardinality(Waits(Pool)) + 1
    BY <1>2, <1>11, <1>13, FewerWait
  <2>2. doneRequests + (IF stop THEN 0 ELSE Cardinality(Waits(Pool))) <= written
    BY <1>3 DEF Inv, AnsweredOnce
  <2>3. doneRequests + (IF stop THEN 0 ELSE Cardinality(Waits(q))) <= written'
    BY <1>13, <1>14, <2>1, <2>2
  <2> QED
    BY <1>1, <1>12, <2>3 DEF AnsweredOnce
<1> QED
  BY <1>1, <1>12, <1>15, <1>16, <1>17 DEF Inv

(* RecvFromServer takes a client that waits for its answer out of the wait. *)
LEMMA RecvFromServerInv ==
    ASSUME Inv, NEW f \in Fd, NEW connects \in BOOLEAN, RecvFromServer(f, connects)
    PROVE  Inv'
<1>s. PICK s : s = SlotOf(f)
  OBVIOUS
<1>n. PICK n : n = Min({sock[f].inq, IF mode = "udp" THEN 1 ELSE RecvMax + 1})
  OBVIOUS
<1>p. PICK p : p = [Touched(Pool, s) EXCEPT !.sock[f].inq = @ - n]
  OBVIOUS
<1>1. /\ Dispatches(f, "IN") /\ Handled(f)
      /\ UNCHANGED <<mode, written, timeoutClientNum, epoll_fail, due, ends>>
  BY DEF RecvFromServer
<1>2. IF n > RecvMax
      THEN phase' = "full" /\ Becomes(p) /\ UNCHANGED <<doneRequests, stop>>
      ELSE /\ doneRequests' = Min({doneRequests + 1, needRequestNum})
           /\ IF doneRequests' >= needRequestNum
              THEN stop' = TRUE /\ Becomes(p)
              ELSE /\ Becomes(ReactorCloseConnectionNormal(p, s, connects))
                   /\ UNCHANGED stop
           /\ UNCHANGED phase
  BY <1>s, <1>n, <1>p DEF RecvFromServer
<1>3. /\ phase = "loop" /\ s \in Slot /\ slot[s].fd = f /\ f # -1
      /\ slot[s] \in Client /\ sock[f] \in Sock /\ sock[f].st # "closed"
      /\ sock[f].interest = {"R"} /\ slot[s].mask = {"R"} /\ s \in Waits(Pool)
      /\ slot[s].mask = Turn(slot[s]) /\ epoll_fail <= MaxFail
  BY <1>1, <1>s, EventClient
<1>4. /\ Pool.slot = slot /\ Pool.sock = sock /\ PoolInv(Pool) /\ IsPool(Pool)
      /\ slot \in [Slot -> Client] /\ sock \in [Fd -> Sock] /\ Waiting = Waits(Pool)
  BY PoolVars DEF Inv, PoolInv
<1>5. n \in Int /\ sock[f].inq - n \in Nat
  <2>1. sock[f].inq \in Nat /\ RecvMax \in Nat
    BY <1>3, BenchAssumption DEF Sock
  <2>2. (IF mode = "udp" THEN 1 ELSE RecvMax + 1) \in Int
    BY <2>1
  <2>3. n = IF sock[f].inq <= (IF mode = "udp" THEN 1 ELSE RecvMax + 1) THEN sock[f].inq
            ELSE (IF mode = "udp" THEN 1 ELSE RecvMax + 1)
    BY <1>n, <2>1, <2>2, MinOfTwo
  <2> QED
    BY <2>1, <2>2, <2>3
<1>c. PICK c : c = [slot[s] EXCEPT !.age = 0]
  OBVIOUS
<1>k. PICK k : k = [sock[f] EXCEPT !.inq = @ - n]
  OBVIOUS
<1>6. /\ c \in Client /\ c.fd = f /\ c.mask = {"R"} /\ c.mask = Turn(c)
      /\ k \in Sock /\ k.st # "closed" /\ k.interest = {"R"}
  <2>1. 0 \in 0 .. Timeout
    BY BenchAssumption
  <2>2. c \in Client /\ c.fd = f /\ c.mask = {"R"} /\ c.sendedLen = slot[s].sendedLen
    BY <1>3, <1>c, <2>1 DEF Client
  <2>3. k \in Sock /\ k.st # "closed" /\ k.interest = {"R"}
    BY <1>3, <1>5, <1>k DEF Sock
  <2> QED
    BY <1>3, <2>2, <2>3 DEF Turn
<1>7. p = With(Pool, s, c, k)
  <2>1. slot[s].fd \in Fd
    BY <1>3
  <2>2. [Touched(Pool, s) EXCEPT !.sock[slot[s].fd].inq = @ - n] =
            With(Pool, s, [slot[s] EXCEPT !.age = 0], [sock[slot[s].fd] EXCEPT !.inq = @ - n])
    BY <1>3, <1>4, <1>5, <2>1, TouchedWith
  <2> QED
    BY <1>3, <1>p, <1>c, <1>k, <2>2
<1>8. GoesOn(Pool, s, c, k)
  BY <1>3, <1>4, <1>6 DEF GoesOn
<1>9. PoolInv(p) /\ Keeps(Pool, p, s) /\ Waits(p) = Waits(Pool) /\ p.slot[s].fd # -1
  <2>1. PoolInv(p) /\ Keeps(Pool, p, s) /\ Waits(p) = Waits(Pool) \cup {s}
    BY <1>4, <1>6, <1>7, <1>8, WithInv
  <2>2. p.slot[s] = c
    BY <1>3, <1>4, <1>7 DEF With
  <2> QED
    BY <1>3, <1>6, <2>1, <2>2
<1>10. /\ needRequestNum \in Nat /\ needClientNum \in Nat
       /\ written \in 0 .. needRequestNum + needClientNum
       /\ doneRequests \in 0 .. needRequestNum /\ stop \in BOOLEAN
       /\ stop => doneRequests = needRequestNum
  BY BenchAssumption DEF Inv, CountTypes
<1>11. /\ Cardinality(Waits(Pool)) \in 0 .. needClientNum /\ Cardinality(Waits(Pool)) >= 1
       /\ doneRequests + (IF stop THEN 0 ELSE Cardinality(Waits(Pool))) <= written
  <2>1. Cardinality(Waits(Pool)) \in 0 .. needClientNum /\ IsFiniteSet(Waits(Pool))
    BY UsedFinite
  <2>2. Cardinality(Waits(Pool) \ {s}) = Cardinality(Waits(Pool)) - 1
        /\ Cardinality(Waits(Pool) \ {s}) \in Nat
    BY <1>3, <2>1, FS_RemoveElement, FS_CardinalityType
  <2>3. Cardinality(Waits(Pool)) >= 1
    BY <1>10, <2>1, <2>2
  <2> QED
    BY <1>4, <2>1, <2>3 DEF Inv, AnsweredOnce
<1>12. CASE n > RecvMax
  <2>1. phase' = "full" /\ Becomes(p) /\ UNCHANGED <<doneRequests, stop>>
    BY <1>2, <1>12
  <2>2. /\ PoolInv(Pool)' /\ Waiting' = Waits(p) /\ BatchFresh'
        /\ batch' \in [Fd -> {"none", "ERR", "IN", "OUT"}]
    BY <1>1, <1>s, <1>9, <2>1, HandledFresh
  <2>3. CountTypes' /\ Running'
    BY <1>1, <2>1, <2>2 DEF Inv, CountTypes, Running, Ended
  <2>4. AnsweredOnce'
    BY <1>1, <1>9, <2>1, <2>2, StillAnsweredOnce
  <2> QED
    BY <2>1, <2>2, <2>3, <2>4 DEF Inv
<1>13. ASSUME ~(n > RecvMax)
       PROVE  /\ phase' = phase
              /\ doneRequests' = IF doneRequests + 1 <= needRequestNum
                                 THEN doneRequests + 1 ELSE needRequestNum
              /\ doneRequests' \in 0 .. needRequestNum
  <2>1. phase' = phase /\ doneRequests' = Min({doneRequests + 1, needRequestNum})
    BY <1>2, <1>13
  <2>2. doneRequests' = IF doneRequests + 1 <= needRequestNum
                        THEN doneRequests + 1 ELSE needRequestNum
    BY <1>10, <2>1, MinOfTwo
  <2> QED
    BY <1>10, <2>1, <2>2
<1>14. CASE ~(n > RecvMax) /\ doneRequests' >= needRequestNum
  <2>1. stop' = TRUE /\ Becomes(p)
    BY <1>2, <1>14
  <2>2. /\ PoolInv(Pool)' /\ Waiting' = Waits(p) /\ BatchFresh'
        /\ batch' \in [Fd -> {"none", "ERR", "IN", "OUT"}]
        /\ \A g \in Fd : batch'[g] = "OUT" /\ mode' = "udp" => sock'[g].wire < Room'
    BY <1>1, <1>s, <1>9, <2>1, HandledFresh
  <2>3. CountTypes' /\ Running'
    BY <1>1, <1>3, <1>13, <1>14, <2>1, <2>2 DEF Inv, CountTypes, Running
  <2>4. doneRequests' = needRequestNum /\ doneRequests' <= written
    BY <1>10, <1>11, <1>13, <1>14
  <2>5. AnsweredOnce'
    BY <1>1, <1>10, <2>1, <2>4 DEF AnsweredOnce
  <2> QED
    BY <2>2, <2>3, <2>4, <2>5 DEF Inv
<1>15. CASE ~(n > RecvMax) /\ ~(doneRequests' >= needRequestNum)
  <2>q. PICK q : q = ReactorCloseConnectionNormal(p, s, connects)
    OBVIOUS
  <2>1. stop' = stop /\ Becomes(q)
    BY <1>2, <1>15, <2>q
  <2>2. PoolInv(q) /\ Keeps(p, q, s) /\ Waits(q) = Waits(p) \ {s}
    <3>1. CASE mode \in {"keep", "udp"}
      BY <1>3, <1>9, <2>q, <3>1, ResetInv DEF ReactorCloseConnectionNormal
    <3>2. CASE mode \notin {"keep", "udp"}
      BY <1>3, <1>9, <2>q, <3>2, ReplacedInv DEF ReactorCloseConnectionNormal
    <3> QED
      BY <3>1, <3>2
  <2>3. Keeps(Pool, q, s) /\ Waits(q) = Waits(Pool) \ {s}
    <3>1. Keeps(Pool, q, s)
      BY <1>9, <2>2 DEF Keeps
    <3> QED
      BY <1>9, <2>2, <3>1
  <2>4. /\ PoolInv(Pool)' /\ Waiting' = Waits(q) /\ BatchFresh'
        /\ batch' \in [Fd -> {"none", "ERR", "IN", "OUT"}]
        /\ \A g \in Fd : batch'[g] = "OUT" /\ mode' = "udp" => sock'[g].wire < Room'
    BY <1>1, <1>s, <2>1, <2>2, <2>3, HandledFresh
  <2>5. CountTypes' /\ Running'
    BY <1>1, <1>3, <1>13, <1>15, <2>1, <2>4 DEF Inv, CountTypes, Running
  <2>6. doneRequests' = doneRequests + 1 /\ ~stop
    BY <1>10, <1>13, <1>15
  <2>7. Cardinality(Waits(q)) = Cardinality(Waits(Pool)) - 1
    BY <1>3, <2>3, FewerWait
  <2>8. AnsweredOnce'
    <3>1. doneRequests' + Cardinality(Waits(q)) <= written
      BY <1>10, <1>11, <2>6, <2>7
    <3> QED
      BY <1>1, <2>1, <2>4, <2>6, <3>1 DEF AnsweredOnce
  <2> QED
    BY <2>1, <2>4, <2>5, <2>6, <2>8 DEF Inv
<1> QED
  BY <1>12, <1>14, <1>15

(* What epoll_wait reports is of a client, and of what it listens for. *)
LEMMA EventIs ==
    ASSUME PoolInv(Pool), NEW f \in Fd, Event(f) # "none"
    PROVE  /\ Event(f) \in {"ERR", "IN", "OUT"} /\ slot[SlotOf(f)].fd = f
           /\ Event(f) = "IN" => "R" \in slot[SlotOf(f)].mask
           /\ Event(f) = "OUT" => "W" \in slot[SlotOf(f)].mask /\ sock[f].wire < Room
<1>1. /\ Pool.slot = slot /\ Pool.sock = sock
  BY PoolVars
<1>2. /\ sock[f].interest # {} /\ Event(f) \in {"ERR", "IN", "OUT"}
      /\ Event(f) = "IN" => "R" \in sock[f].interest
      /\ Event(f) = "OUT" => "W" \in sock[f].interest /\ sock[f].wire < Room
  BY DEF Event
<1>3. slot[SlotOf(f)].fd = f /\ SlotOf(f) \in Slot /\ f # -1
  BY <1>1, <1>2, SlotOfType DEF PoolInv
<1>4. sock[f].interest = slot[SlotOf(f)].mask
  BY <1>1, <1>3 DEF PoolInv, Held
<1> QED
  BY <1>2, <1>3, <1>4

(* The batch that epoll_wait returns is fresh. *)
LEMMA EpollWaitInv ==
    ASSUME Inv, NEW d \in 0 .. Timeout, EpollWait(d)
    PROVE  Inv'
<1>1. /\ phase = "loop" /\ batch' = [f \in Fd |-> Event(f)]
      /\ slot' = [s \in Slot |-> [slot[s] EXCEPT !.age = Aged(s, d)]]
      /\ due' = (d > 0)
      /\ UNCHANGED <<mode, sock, liveClientNum, countVars, stop, phase, ends>>
  BY DEF EpollWait
<1>2. /\ Pool.slot = slot /\ Pool.sock = sock /\ Pool.live = liveClientNum /\ PoolInv(Pool)
      /\ slot \in [Slot -> Client] /\ sock \in [Fd -> Sock] /\ liveClientNum \in Int
      /\ Waiting = Waits(Pool)
  BY PoolVars DEF Inv
<1>3. ASSUME NEW s \in Slot PROVE Aged(s, d) \in 0 .. Timeout
  <2>1. slot[s].age \in 0 .. Timeout /\ Timeout \in Nat \ {0} /\ d \in Nat
    BY <1>2, BenchAssumption DEF Client
  <2> QED
    BY <2>1 DEF Aged
<1>q. PICK q : q = [slot |-> slot', sock |-> sock', live |-> liveClientNum']
  OBVIOUS
<1>4. ASSUME NEW s \in Slot
      PROVE  /\ slot'[s] \in Client /\ slot'[s].fd = slot[s].fd /\ slot'[s].mask = slot[s].mask
             /\ slot'[s].sendedLen = slot[s].sendedLen
  BY <1>1, <1>2, <1>3 DEF Client
<1>5. slot' \in [Slot -> Client]
  BY <1>1, <1>4
<1>6. PoolInv(q) /\ Waits(q) = Waits(Pool)
  <2>1. IsPool(q) /\ q.live = Pool.live /\ q.slot = slot' /\ q.sock = Pool.sock
    BY <1>1, <1>2, <1>5, <1>q DEF IsPool
  <2> QED
    BY <1>2, <1>4, <2>1, SameClients
<1>7. PoolInv(Pool)' /\ Waiting' = Waits(q)
  BY <1>6, <1>q, BecomesInv DEF Becomes
<1>8. ASSUME NEW f \in Fd, batch'[f] # "none"
      PROVE  /\ batch'[f] \in {"ERR", "IN", "OUT"} /\ slot'[SlotOf(f)].fd = f
             /\ batch'[f] = "IN" => "R" \in slot'[SlotOf(f)].mask
             /\ batch'[f] = "OUT" => "W" \in slot'[SlotOf(f)].mask /\ sock'[f].wire < Room
  <2>1. batch'[f] = Event(f) /\ Event(f) # "none" /\ SlotOf(f) \in Slot /\ sock' = sock
    BY <1>1, <1>8, SlotOfType
  <2>2. slot'[SlotOf(f)].fd = slot[SlotOf(f)].fd /\ slot'[SlotOf(f)].mask = slot[SlotOf(f)].mask
    BY <1>4, <2>1
  <2> QED
    BY <1>2, <2>1, <2>2, EventIs
<1>9. BatchFresh'
  BY <1>8 DEF BatchFresh, SlotOf
<1>10. batch' \in [Fd -> {"none", "ERR", "IN", "OUT"}]
  BY <1>1, <1>8
<1>11. Running'
  BY <1>1, <1>8 DEF Inv, Running, Room, countVars
<1>12. CountTypes'
  BY <1>1, <1>10 DEF Inv, CountTypes, countVars
<1>13. AnsweredOnce'
  BY <1>1, <1>2, <1>6, <1>7 DEF Inv, AnsweredOnce, countVars
<1> QED
  BY <1>1, <1>7, <1>9, <1>11, <1>12, <1>13 DEF Inv, countVars

(* ClearTimeoutConnection runs when no event is left. *)
LEMMA ClearTimeoutInv ==
    ASSUME Inv, ClearTimeoutConnection
    PROVE  Inv'
<1>1. /\ phase = "loop" /\ BatchDone
      /\ timeoutClientNum' = Min({timeoutClientNum + Cardinality(Expired), MaxTimeouts})
      /\ phase' \in {"refill", "loop"} /\ due' = FALSE
      /\ UNCHANGED <<mode, doneRequests, written, epoll_fail, stop, batch, ends>>
  BY DEF ClearTimeoutConnection, Checked
<1>q. PICK q : q = ResetAll(Expired)
  OBVIOUS
<1>2. Becomes(q)
  BY <1>q DEF ClearTimeoutConnection
<1>3. PoolInv(Pool) /\ Pool.slot = slot
  BY PoolVars DEF Inv
<1>4. Expired \subseteq Used(Pool)
  BY <1>3 DEF Expired, Used
<1>5. PoolInv(q) /\ Waits(q) \subseteq Waits(Pool)
  BY <1>3, <1>4, <1>q, ResetAllInv
<1>6. PoolInv(Pool)' /\ Waiting' = Waits(q)
  BY <1>2, <1>5, BecomesInv
<1>7. timeoutClientNum' \in 0 .. MaxTimeouts
  <2>1. IsFiniteSet(Expired)
    BY <1>4, UsedFinite, FS_Subset
  <2>2. /\ Cardinality(Expired) \in Nat /\ MaxTimeouts \in Nat
        /\ timeoutClientNum \in 0 .. MaxTimeouts
    BY <2>1, FS_CardinalityType, BenchAssumption DEF Inv, CountTypes
  <2>3. timeoutClientNum + Cardinality(Expired) \in Nat
    BY <2>2
  <2>4. timeoutClientNum' = IF timeoutClientNum + Cardinality(Expired) <= MaxTimeouts
                            THEN timeoutClientNum + Cardinality(Expired) ELSE MaxTimeouts
    BY <1>1, <2>2, <2>3, MinOfTwo
  <2> QED
    BY <2>2, <2>3, <2>4
<1>8. \A f \in Fd : batch'[f] = "none"
  BY <1>1 DEF BatchDone
<1>9. CountTypes'
  BY <1>1, <1>7 DEF Inv, CountTypes
<1>10. Running' /\ BatchFresh'
  BY <1>1, <1>8 DEF Inv, Running, BatchFresh, Ended
<1>11. AnsweredOnce'
  BY <1>1, <1>5, <1>6, StillAnsweredOnce
<1> QED
  BY <1>1, <1>6, <1>9, <1>10, <1>11 DEF Inv

(* A client more leaves those in use as they are. *)
LEMMA RefillInv ==
    ASSUME Inv, NEW connects \in BOOLEAN, Refill(connects)
    PROVE  Inv'
<1>1. /\ phase = "refill" /\ phase' \in {"noclient", "refill", "loop"}
      /\ UNCHANGED <<mode, countVars, stop, due, batch, ends>>
  BY DEF Refill
<1>q. PICK q : q = ReactorClientInit(Pool, connects)
  OBVIOUS
<1>2. Becomes(q)
  BY <1>q DEF Refill
<1>3. PoolInv(Pool) /\ Pool.slot = slot /\ Pool.sock = sock
  BY PoolVars DEF Inv
<1>4. /\ PoolInv(q) /\ Waits(q) = Waits(Pool)
      /\ \A t \in Slot : slot[t].fd # -1 =>
            q.slot[t] = slot[t] /\ q.sock[slot[t].fd] = sock[slot[t].fd]
  BY <1>3, <1>q, ClientInitInv
<1>5. PoolInv(Pool)' /\ Waiting' = Waits(q) /\ slot' = q.slot /\ sock' = q.sock
  BY <1>2, <1>4, BecomesInv
<1>6. CountTypes'
  BY <1>1 DEF Inv, CountTypes, countVars, Ended
<1>7. ASSUME NEW f \in Fd, batch[f] # "none"
      PROVE  /\ slot[SlotOf(f)].fd = f /\ slot'[SlotOf(f)] = slot[SlotOf(f)] /\ sock'[f] = sock[f]
  <2>1. slot[SlotOf(f)].fd = f /\ SlotOf(f) \in Slot /\ f # -1
    BY <1>1, <1>7, SlotOfType DEF Inv, BatchFresh, Ended
  <2> QED
    BY <1>4, <1>5, <2>1
<1>8. BatchFresh'
  BY <1>1, <1>7 DEF Inv, BatchFresh, Ended, SlotOf
<1>9. Running'
  BY <1>1, <1>7 DEF Inv, Running, Ended, Room, countVars
<1>10. AnsweredOnce'
  <2>1. Waits(q) \subseteq Waits(Pool)
    BY <1>4
  <2> QED
    BY <1>1, <1>5, <2>1, StillAnsweredOnce DEF countVars
<1> QED
  BY <1>1, <1>5, <1>6, <1>8, <1>9, <1>10 DEF Inv, countVars

(* The report changes nothing but the phase. *)
LEMMA ReportInv ==
    ASSUME Inv, Report
    PROVE  Inv'
<1>1. /\ phase' = "report" /\ UNCHANGED <<mode, poolVars, countVars, stop, due, batch, ends>>
  BY DEF Report
<1>2. PoolInv(Pool)' /\ Waiting' = Waiting
  BY <1>1, PoolKept DEF Inv
<1>3. CountTypes' /\ Running' /\ BatchFresh'
  BY <1>1 DEF Inv, CountTypes, Running, BatchFresh, Ended, countVars
<1>4. AnsweredOnce'
  BY <1>1, <1>2 DEF Inv, AnsweredOnce, countVars
<1> QED
  BY <1>1, <1>2, <1>3, <1>4 DEF Inv, countVars

(***************************************************************************)
(* The server and the network.                                             *)
(***************************************************************************)

(* Whatever the network does to an open socket: it stays open, its interest *)
(* the same, and what the server has not read does not grow.                *)
Milder(k, new) ==
    /\ new \in Sock /\ new.interest = k.interest
    /\ (new.st = "closed") <=> (k.st = "closed")
    /\ new.wire <= k.wire

(* A step of the network changes sockets in no other way. *)
LEMMA NetInv ==
    ASSUME Inv, NEW socks, Net(socks), socks \in [Fd -> Sock],
           \A f \in Fd : Milder(sock[f], socks[f]), ends' \in 0 .. MaxEnds
    PROVE  Inv'
<1>1. sock' = socks /\ UNCHANGED <<mode, slot, liveClientNum, countVars, loopVars>>
  BY DEF Net
<1>2. /\ Pool.slot = slot /\ Pool.sock = sock /\ Pool.live = liveClientNum /\ PoolInv(Pool)
      /\ slot \in [Slot -> Client] /\ sock \in [Fd -> Sock] /\ liveClientNum \in Int
      /\ Waiting = Waits(Pool)
  BY PoolVars DEF Inv
<1>q. PICK q : q = [slot |-> slot, sock |-> socks, live |-> liveClientNum]
  OBVIOUS
<1>3. PoolInv(q) /\ Waits(q) = Waits(Pool)
  <2>1. IsPool(q) /\ q.live = Pool.live /\ q.slot = Pool.slot /\ q.sock = socks
    BY <1>2, <1>q DEF IsPool
  <2> QED
    BY <1>2, <2>1, SameClients DEF Milder
<1>4. PoolInv(Pool)' /\ Waiting' = Waits(q)
  BY <1>1, <1>3, <1>q, BecomesInv DEF Becomes
<1>5. CountTypes'
  BY <1>1 DEF Inv, CountTypes, countVars, loopVars
<1>6. BatchFresh'
  BY <1>1 DEF Inv, BatchFresh, loopVars
<1>7. Running'
  <2>1. ASSUME NEW f \in Fd, phase \notin Ended, batch[f] = "OUT", mode = "udp"
        PROVE  socks[f].wire < Room
    <3>1. sock[f].wire < Room /\ socks[f].wire <= sock[f].wire
      BY <2>1 DEF Inv, Running, Milder
    <3>2. sock[f].wire \in Nat /\ socks[f].wire \in Nat /\ Room \in Int
      BY <1>2, BenchAssumption DEF Sock, Room
    <3> QED
      BY <3>1, <3>2
  <2> QED
    BY <1>1, <2>1 DEF Inv, Running, Room, countVars, loopVars
<1>8. AnsweredOnce'
  BY <1>1, <1>2, <1>3, <1>4 DEF Inv, AnsweredOnce, countVars, loopVars
<1> QED
  BY <1>1, <1>4, <1>5, <1>6, <1>7, <1>8 DEF Inv, countVars, loopVars

(* A socket nothing happens to. *)
LEMMA MilderSelf ==
    ASSUME NEW k \in Sock
    PROVE  Milder(k, k)
<1>1. k.wire \in Nat
  BY BenchAssumption DEF Sock
<1> QED
  BY <1>1 DEF Milder

(* Connections get established, answers come and resets follow a close. *)
LEMMA ServesInv ==
    ASSUME Inv, Serves
    PROVE  Inv'
<1>1. PICK f \in Fd : Connected(f) \/ Answer(f) \/ ResetAfterClose(f)
  BY DEF Serves
<1>2. sock \in [Fd -> Sock] /\ ends \in 0 .. MaxEnds
  BY PoolVars DEF Inv, CountTypes
<1>3. sock[f] \in Sock /\ sock[f].wire \in 0 .. SndBuf /\ SndBuf \in Nat
  BY <1>2, BenchAssumption DEF Sock
<1>4. ASSUME NEW k \in Sock, Milder(sock[f], k), Net([sock EXCEPT ![f] = k]), ends' = ends
      PROVE  Inv'
  <2>1. [sock EXCEPT ![f] = k] \in [Fd -> Sock]
    BY <1>2
  <2>2. ASSUME NEW g \in Fd PROVE Milder(sock[g], [sock EXCEPT ![f] = k][g])
    BY <1>2, <1>4, MilderSelf
  <2> QED
    BY <1>2, <1>4, <2>1, <2>2, NetInv
<1>5. CASE Connected(f)
  <2>k. PICK k : k = [sock[f] EXCEPT !.st = "up"]
    OBVIOUS
  <2>1. Net([sock EXCEPT ![f] = k]) /\ sock[f].st = "connecting" /\ ends' = ends
    BY <1>5, <2>k DEF Connected
  <2>2. k \in Sock /\ Milder(sock[f], k)
    BY <1>3, <2>1, <2>k DEF Sock, Milder
  <2> QED
    BY <1>4, <2>1, <2>2
<1>6. CASE ResetAfterClose(f)
  <2>k. PICK k : k = [sock[f] EXCEPT !.st = "rst"]
    OBVIOUS
  <2>1. Net([sock EXCEPT ![f] = k]) /\ sock[f].st = "fin" /\ ends' = ends
    BY <1>6, <2>k DEF ResetAfterClose
  <2>2. k \in Sock /\ Milder(sock[f], k)
    BY <1>3, <2>1, <2>k DEF Sock, Milder
  <2> QED
    BY <1>4, <2>1, <2>2
<1>7. CASE Answer(f)
  <2> DEFINE more == sock[f].rest > 0
  <2>r. PICK r : r = IF more THEN sock[f].rest - 1 ELSE Pieces - 1
    OBVIOUS
  <2>w. PICK w : w = IF more THEN sock[f].wire ELSE sock[f].wire - ReqLen
    OBVIOUS
  <2>k. PICK k : k = [sock[f] EXCEPT !.inq = @ + 1, !.rest = r, !.wire = w]
    OBVIOUS
  <2>1. /\ Net([sock EXCEPT ![f].inq = @ + 1,
                            ![f].rest = IF more THEN @ - 1 ELSE Pieces - 1,
                            ![f].wire = IF more THEN @ ELSE @ - ReqLen])
        /\ sock[f].st = "up" /\ (more \/ sock[f].wire >= ReqLen) /\ ends' = ends
    BY <1>7 DEF Answer
  <2>2. [sock EXCEPT ![f].inq = @ + 1,
                     ![f].rest = IF more THEN @ - 1 ELSE Pieces - 1,
                     ![f].wire = IF more THEN @ ELSE @ - ReqLen] = [sock EXCEPT ![f] = k]
    BY <1>2, <2>r, <2>w, <2>k DEF Sock
  <2>3. Net([sock EXCEPT ![f] = k])
    BY <2>1, <2>2
  <2>4. /\ sock[f].rest \in 0 .. Pieces - 1 /\ Pieces \in Nat \ {0} /\ ReqLen \in Nat \ {0}
        /\ sock[f].inq \in Nat
    BY <1>3, BenchAssumption DEF Sock
  <2>5. r \in 0 .. Pieces - 1 /\ w \in 0 .. SndBuf /\ w <= sock[f].wire /\ sock[f].inq + 1 \in Nat
    BY <1>3, <2>1, <2>4, <2>r, <2>w
  <2>6. k \in Sock /\ k.interest = sock[f].interest /\ k.st = sock[f].st /\ k.wire = w
    BY <1>3, <2>5, <2>k DEF Sock
  <2>7. Milder(sock[f], k)
    BY <2>1, <2>5, <2>6 DEF Milder
  <2> QED
    BY <1>4, <2>1, <2>3, <2>6, <2>7
<1> QED
  BY <1>1, <1>5, <1>6, <1>7

(* Connections end and datagrams get lost. *)
LEMMA TroublesInv ==
    ASSUME Inv, Troubles
    PROVE  Inv'
<1>1. PICK F \in SUBSET Fd : Lost(F) \/ \E how \in {"fin", "rst"} : PeerEnds(F, how)
  BY DEF Troubles
<1>2. sock \in [Fd -> Sock] /\ ends \in 0 .. MaxEnds /\ MaxEnds \in Nat
  BY PoolVars, BenchAssumption DEF Inv, CountTypes
<1>3. CASE Lost(F)
  <2>n. PICK new : new = [f \in Fd |-> [sock[f] EXCEPT !.wire = IF f \in F THEN 0 ELSE @]]
    OBVIOUS
  <2>1. Net(new) /\ ends < MaxEnds /\ ends' = ends + 1
    BY <1>3, <2>n DEF Lost
  <2>2. ASSUME NEW f \in Fd PROVE Milder(sock[f], new[f])
    <3>1. /\ sock[f] \in Sock /\ sock[f].wire \in 0 .. SndBuf /\ SndBuf \in Nat
          /\ new[f] = [sock[f] EXCEPT !.wire = IF f \in F THEN 0 ELSE @]
      BY <1>2, <2>n, BenchAssumption DEF Sock
    <3>2. /\ new[f] \in Sock /\ new[f].interest = sock[f].interest /\ new[f].st = sock[f].st
          /\ new[f].wire = IF f \in F THEN 0 ELSE sock[f].wire
      BY <3>1 DEF Sock
    <3> QED
      BY <3>1, <3>2 DEF Milder
  <2>3. new \in [Fd -> Sock]
    BY <2>2, <2>n DEF Milder
  <2>4. ends' \in 0 .. MaxEnds
    BY <1>2, <2>1
  <2> QED
    BY <2>1, <2>2, <2>3, <2>4, NetInv
<1>4. ASSUME NEW how \in {"fin", "rst"}, PeerEnds(F, how) PROVE Inv'
  <2>n. PICK new : new = [f \in Fd |-> [sock[f] EXCEPT !.st = IF f \in F THEN how ELSE @]]
    OBVIOUS
  <2>1. /\ Net(new) /\ ends < MaxEnds /\ ends' = ends + 1
        /\ \A f \in F : sock[f].st \in IF how = "fin" THEN {"up"} ELSE {"connecting", "up"}
    BY <1>4, <2>n DEF PeerEnds
  <2>2. ASSUME NEW f \in Fd PROVE Milder(sock[f], new[f])
    <3>1. /\ sock[f] \in Sock /\ sock[f].wire \in Nat
          /\ new[f] = [sock[f] EXCEPT !.st = IF f \in F THEN how ELSE @]
      BY <1>2, <2>n, BenchAssumption DEF Sock
    <3>2. /\ new[f] \in Sock /\ new[f].interest = sock[f].interest /\ new[f].wire = sock[f].wire
          /\ new[f].st = IF f \in F THEN how ELSE sock[f].st
      BY <3>1 DEF Sock
    <3>3. f \in F => sock[f].st # "closed"
      BY <2>1
    <3> QED
      BY <3>1, <3>2, <3>3 DEF Milder
  <2>3. new \in [Fd -> Sock]
    BY <2>2, <2>n DEF Milder
  <2>4. ends' \in 0 .. MaxEnds
    BY <1>2, <2>1
  <2> QED
    BY <2>1, <2>2, <2>3, <2>4, NetInv
<1> QED
  BY <1>1, <1>3, <1>4

(***************************************************************************)
(* The invariant and what follows from it.                                 *)
(***************************************************************************)

(* Before the first client there is none. *)
LEMMA InitInv ==
    ASSUME Init
    PROVE  Inv
<1>1. /\ slot = [s \in Slot |-> [fd |-> -1, mask |-> {}, sendedLen |-> 0, age |-> Timeout]]
      /\ sock = [f \in Fd |-> NoSock] /\ liveClientNum = 0
      /\ Pool = [slot |-> slot, sock |-> sock, live |-> liveClientNum]
  BY DEF Init, Pool
<1>2. NoSock \in Sock /\ NoSock.st = "closed" /\ NoSock.interest = {}
  BY BenchAssumption DEF NoSock, Sock
<1>3. [fd |-> -1, mask |-> {}, sendedLen |-> 0, age |-> Timeout] \in Client
  <2>1. 0 \in 0 .. ReqLen /\ Timeout \in 0 .. Timeout
    BY BenchAssumption
  <2> QED
    BY <2>1 DEF Client
<1>4. IsPool(Pool)
  BY <1>1, <1>2, <1>3 DEF IsPool
<1>5. Pool.slot = slot /\ Pool.sock = sock /\ Pool.live = 0
  BY <1>1
<1>6. \A s \in Slot : slot[s].fd = -1
  BY <1>1
<1>7. Used(Pool) = {} /\ Waiting = {}
  BY <1>5, <1>6 DEF Used, Waiting
<1>8. Cardinality({}) = 0
  BY FS_EmptySet
<1>9. PoolInv(Pool)
  BY <1>1, <1>2, <1>4, <1>5, <1>6, <1>7, <1>8 DEF PoolInv
<1>10. CountTypes /\ Running /\ BatchFresh
  <2>1. /\ MaxFail \in Nat /\ MaxEnds \in Nat /\ MaxTimeouts \in Nat
        /\ needRequestNum \in Nat /\ needClientNum \in Nat
    BY BenchAssumption
  <2>2. batch \in [Fd -> {"none", "ERR", "IN", "OUT"}] /\ \A f \in Fd : batch[f] = "none"
    BY DEF Init
  <2>3. /\ 0 \in 0 .. needRequestNum /\ 0 \in 0 .. needRequestNum + needClientNum
        /\ 0 \in 0 .. MaxTimeouts /\ 0 \in 0 .. MaxFail + 1 /\ 0 \in 0 .. MaxEnds
    BY <2>1
  <2>4. stop \in BOOLEAN /\ due \in BOOLEAN /\ phase \in Ended \cup {"loop", "refill"}
    BY Zenon DEF Init
  <2>5. CountTypes
    BY <2>2, <2>3, <2>4, Zenon DEF Init, CountTypes
  <2> QED
    BY <2>1, <2>2, <2>5 DEF Init, Running, BatchFresh
<1>11. AnsweredOnce
  BY <1>7, <1>8 DEF Init, AnsweredOnce
<1> QED
  BY <1>9, <1>10, <1>11 DEF Inv, Init

(* Every action keeps the invariant. *)
LEMMA StepInv ==
    ASSUME Inv, [Next]_vars
    PROVE  Inv'
<1>1. CASE Loop
  <2>1. CASE \E d \in 0 .. Timeout : EpollWait(d)
    BY <2>1, EpollWaitInv
  <2>2. CASE \E f \in Fd : SendToServer(f)
    BY <2>2, SendToServerInv
  <2>3. ASSUME NEW f \in Fd, NEW connects \in BOOLEAN,
               \/ DispatchError(f, connects) \/ SendFails(f, connects)
               \/ RecvFromServer(f, connects) \/ RecvFails(f, connects)
        PROVE  Inv'
    BY <2>3, DispatchErrorInv, SendFailsInv, RecvFromServerInv, RecvFailsInv
  <2>4. CASE ClearTimeoutConnection
    BY <2>4, ClearTimeoutInv
  <2>5. CASE Report
    BY <2>5, ReportInv
  <2>6. CASE \E connects \in BOOLEAN : Refill(connects)
    BY <2>6, RefillInv
  <2> QED
    BY <1>1, <2>1, <2>2, <2>3, <2>4, <2>5, <2>6 DEF Loop
<1>2. CASE Serves
  BY <1>2, ServesInv
<1>3. CASE Troubles
  BY <1>3, TroublesInv
<1>4. CASE UNCHANGED vars
  <2>1. UNCHANGED <<mode, slot, sock, liveClientNum, doneRequests, written,
                    timeoutClientNum, epoll_fail, stop, phase, due, batch, ends>>
    BY <1>4 DEF vars, poolVars, countVars, loopVars
  <2>2. PoolInv(Pool)' /\ Waiting' = Waiting
    BY <2>1, PoolKept DEF Inv, poolVars
  <2>3. CountTypes' /\ BatchFresh' /\ Running'
    BY <2>1 DEF Inv, CountTypes, BatchFresh, Running, Room
  <2>4. AnsweredOnce'
    BY <2>1, <2>2 DEF Inv, AnsweredOnce
  <2> QED
    BY <2>1, <2>2, <2>3, <2>4 DEF Inv
<1> QED
  BY <1>1, <1>2, <1>3, <1>4 DEF Next

(* It holds always. *)
LEMMA AlwaysInv == Spec => []Inv
<1>1. Init => Inv
  BY InitInv
<1>2. Inv /\ [Next]_vars => Inv'
  BY StepInv
<1> QED
  BY <1>1, <1>2, PTL DEF Spec

(* The state has its types whatever the server and the network do; in       *)
(* particular no more clients live than are needed and no more answers are  *)
(* counted than are asked for.                                              *)
THEOREM BenchTypeOK == Spec => []TypeOK
<1>1. ASSUME Inv PROVE TypeOK
  <2>1. /\ slot \in [Slot -> Client] /\ sock \in [Fd -> Sock] /\ Pool.live = liveClientNum
    BY <1>1, PoolVars DEF Inv
  <2>2. liveClientNum \in 0 .. needClientNum
    BY <1>1, <2>1, UsedFinite DEF Inv, PoolInv
  <2> QED
    BY <1>1, <2>1, <2>2 DEF Inv, CountTypes, TypeOK, Client, Sock
<1> QED
  BY <1>1, AlwaysInv, PTL

(* Every open descriptor of a client is in the slot the loop looks it up    *)
(* in, the slots in use are those liveClientNum counts, and a client that   *)
(* is missing finds the slot of its descriptor free: the "fd collison" of   *)
(* ReactorClientInit needs a descriptor that is not the lowest free one.    *)
THEOREM SlotExactHolds == Spec => []SlotExact
<1>1. ASSUME Inv PROVE SlotExact
  <2>1. /\ Pool.slot = slot /\ Pool.sock = sock /\ Pool.live = liveClientNum /\ PoolInv(Pool)
    BY <1>1, PoolVars DEF Inv
  <2>2. \A f \in Fd : sock[f].st # "closed" => slot[SlotOf(f)].fd = f
    BY <2>1 DEF PoolInv
  <2>3. \A s \in Used(Pool) : sock[slot[s].fd].st # "closed"
    BY <2>1 DEF PoolInv, Held, Used
  <2>4. liveClientNum = Cardinality(Used(Pool))
    BY <2>1 DEF PoolInv
  <2>5. ASSUME liveClientNum < needClientNum, Free(Pool) # {}
        PROVE  slot[SlotOf(NewFd(Pool))].fd = -1
    <3>1. Cardinality(Used(Pool)) # needClientNum
      BY <2>4, <2>5, BenchAssumption
    <3>2. PICK s \in Slot : Pool.slot[s].fd = -1
      BY <3>1, UsedFinite
    <3> QED
      BY <2>1, <2>5, <3>2, NewFdFits
  <2> QED
    BY <2>2, <2>3, <2>4, <2>5 DEF SlotExact
<1> QED
  BY <1>1, AlwaysInv, PTL

(* A client listens for one thing at a time, for what its turn is, and the  *)
(* epoll set agrees: ReactorAddEvent and ReactorDelEvent never meet the     *)
(* failures of epoll_ctl that they report and do not undo.                  *)
THEOREM TurnTakingHolds == Spec => []TurnTaking
<1>1. ASSUME Inv PROVE TurnTaking
  <2>1. Pool.slot = slot /\ Pool.sock = sock /\ PoolInv(Pool)
    BY <1>1, PoolVars DEF Inv
  <2>2. ASSUME NEW s \in Used(Pool)
        PROVE  /\ slot[s].mask = IF slot[s].sendedLen < ReqLen THEN {"W"} ELSE {"R"}
               /\ sock[slot[s].fd].interest = slot[s].mask
    <3>1. Held(Pool, s)
      BY <2>1 DEF PoolInv, Used
    <3> QED
      BY <2>1, <3>1 DEF Held, Turn
  <2> QED
    BY <2>2 DEF TurnTaking
<1> QED
  BY <1>1, AlwaysInv, PTL

(* Whatever the callbacks before it close and open, an event of the batch   *)
(* is dispatched to the client that caused it.                              *)
THEOREM BatchFreshHolds == Spec => []BatchFresh
<1>1. Inv => BatchFresh
  BY DEF Inv
<1> QED
  BY <1>1, AlwaysInv, PTL

(* Answers counted and answers waited for never exceed the writes.          *)
THEOREM AnsweredOnceHolds == Spec => []AnsweredOnce
<1>1. Inv => AnsweredOnce
  BY DEF Inv
<1> QED
  BY <1>1, AlwaysInv, PTL
=============================================================================
