--------------------------- MODULE ConnectionProofs ---------------------------
(***************************************************************************)
(* Proofs about Connection, for packets of any lengths, buffers of any size *)
(* and any number of packets: the types, the framing of the stream, the     *)
(* bounds of the receive buffer, the write event and the replies.           *)
(***************************************************************************)
EXTENDS Connection, FiniteSetTheorems, SequenceTheorems, TLAPS

(***************************************************************************)
(* The inductive invariant.                                                *)
(***************************************************************************)

(* A packet as the client sent it; byte i of the reply to packet k is <<k,  *)
(* i>>.                                                                     *)
Packet == [kind : Kinds, len : Nat, start : Nat, out : Nat]
Byte == Nat \X Nat

(* Where the stream of the first n packets ends. *)
EndOf(n) == IF n = 0 THEN 0 ELSE pkts[n].start + pkts[n].len

(* The client's packets follow one another, and so do their replies. *)
Stream ==
    /\ pkts \in Seq(Packet)
    /\ \A k \in 1 .. Len(pkts) :
          /\ pkts[k].len > BodyPos
          /\ pkts[k].start = EndOf(k - 1) /\ pkts[k].out = RepliesLen(k - 1)
    /\ \A i, k \in 0 .. Len(pkts) :
          i < k => EndOf(i) < EndOf(k) /\ RepliesLen(i) <= RepliesLen(k)

(* The types of the receiving side. *)
RecvTypes ==
    /\ arrived \in 0 .. StreamLen /\ readTotal \in 0 .. arrived
    /\ fin \in {"no", "yes"} /\ done \in 0 .. Len(pkts)
    /\ iRecvCurLen \in Nat /\ iPacketLen \in Nat /\ iRecvTotalLen \in Nat

(* Where the server is in the stream, and that the rest of the packet it is *)
(* in has room.                                                             *)
Position ==
    status = "open" =>
        /\ readTotal - iRecvCurLen = EndOf(done)
        /\ iRecvCurLen >= HeadLen =>
              /\ done < Len(pkts) /\ iPacketLen = pkts[done + 1].len
              /\ iRecvCurLen < iPacketLen /\ iPacketLen <= iRecvTotalLen

(* The inductive invariant of the receiving side. *)
RecvInv == Stream /\ RecvTypes /\ iRecvTotalLen >= 1 /\ Position

(* The types of the sending side. *)
SendTypes ==
    /\ iSendCurLen \in Nat /\ iSendTotalLen \in Nat /\ sendAlloc \in Nat
    /\ iSendPacketLen \in Int
    /\ pszSendBuf \in [0 .. BufSize - 1 -> Byte]
    /\ overlap \in {"no", "yes"}
    /\ iMask \in {"R", "RW"} /\ wire \in Seq(Byte)
    /\ status \in {"open", "endOfFile", "badHead", "bodyLate", "sendError",
                   "timeout", "overrun"}

(* What waits lies in the bytes that were allocated, and those were never   *)
(* more than the connection started with.                                   *)
SendRoom ==
    /\ sendAlloc <= BufSize /\ BufSize <= iSendTotalLen
    /\ status = "open" => iSendPacketLen <= sendAlloc

(* The inductive invariant of the sending side. *)
SendInv == SendTypes /\ SendRoom /\ WriteArmed

(* Byte j of the output: on the wire, or still in the send buffer. *)
OutputAt(j) ==
    IF j <= Len(wire) THEN wire[j] ELSE pszSendBuf[iSendCurLen + (j - Len(wire)) - 1]

(* Byte i of the reply to packet k is in its place of the output, unless    *)
(* the code never writes it.                                                *)
InPlace(k, i) ==
    \/ OutputAt(RepliesLen(k - 1) + i + 1) = <<k, i>>
    \/ pkts[k].kind = "test" /\ i \in Unwritten(ReplyLen(pkts[k]))

(* StreamIntact, reply by reply instead of byte by byte. *)
Intact ==
    status = "open" /\ overlap = "no" =>
        /\ iSendCurLen <= iSendPacketLen
        /\ Len(wire) + (iSendPacketLen - iSendCurLen) = RepliesLen(done)
        /\ \A k \in 1 .. done : \A i \in 0 .. ReplyLen(pkts[k]) - 1 : InPlace(k, i)

(***************************************************************************)
(* Operators.                                                              *)
(***************************************************************************)

(* The least element of a nonempty set of naturals. *)
LEMMA MinNat ==
    ASSUME NEW S, S \subseteq Nat, S # {}
    PROVE  Min(S) \in S /\ \A y \in S : Min(S) <= y
<1>1. PICK x \in S : \A y \in S : ~(<<y, x>> \in OpToRel(<, Nat))
  BY NatLessThanWellFounded, WFMin, Zenon
<1>2. ASSUME NEW y \in S PROVE x <= y
  <2>1. ~(y < x)
    <3> SUFFICES ASSUME y < x PROVE FALSE
      OBVIOUS
    <3>1. <<y, x>> \in OpToRel(<, Nat)
      BY DEF OpToRel
    <3> QED
      BY <3>1, <1>1
  <2> QED
    BY <2>1
<1> QED
  BY <1>2 DEF Min

(* The smaller of two integers. *)
LEMMA MinOfTwo ==
    ASSUME NEW a \in Int, NEW b \in Int
    PROVE  Min({a, b}) = IF a <= b THEN a ELSE b
BY DEF Min

(* Two to the power of n is more than n: a set has more subsets than        *)
(* elements.                                                                *)
LEMMA PowerAbove ==
    ASSUME NEW n \in Nat
    PROVE  2^n \in Nat /\ n + 1 <= 2^n
<1> DEFINE S == 1 .. n
           T == {{x} : x \in S} \cup {{}}
<1>1. IsFiniteSet(S) /\ Cardinality(S) = n
  BY FS_Interval
<1>2. IsFiniteSet(SUBSET S) /\ Cardinality(SUBSET S) = 2^n
  BY <1>1, FS_SUBSET
<1>3. 2^n \in Nat
  BY <1>2, FS_CardinalityType
<1>4. IsFiniteSet({{x} : x \in S}) /\ Cardinality({{x} : x \in S}) = n
  <2> DEFINE f == [x \in S |-> {x}]
  <2>1. f \in Bijection(S, {{x} : x \in S})
    BY DEF Bijection, Injection, Surjection, IsInjective
  <2> QED
    BY <1>1, <2>1, FS_Bijection DEF ExistsBijection
<1>5. IsFiniteSet(T) /\ Cardinality(T) = n + 1
  <2>1. {} \notin {{x} : x \in S}
    OBVIOUS
  <2> QED
    BY <1>4, <2>1, FS_AddElement
<1>6. Cardinality(T) <= Cardinality(SUBSET S)
  <2>1. T \subseteq SUBSET S
    OBVIOUS
  <2> QED
    BY <1>2, <2>1, FS_Subset
<1> QED
  BY <1>2, <1>3, <1>5, <1>6

(* Doubling a buffer of total bytes often enough makes need bytes fit       *)
(* behind the used ones.                                                    *)
LEMMA DoublingFits ==
    ASSUME NEW total \in Nat \ {0}, NEW used \in Int, used <= total, NEW need \in Nat,
           NEW D, D = {n \in {total * 2^e : e \in 0 .. need} : n - used >= need}
    PROVE  Min(D) \in Nat /\ Min(D) >= total /\ Min(D) - used >= need
<1> DEFINE E == {total * 2^e : e \in 0 .. need}
<1>1. ASSUME NEW e \in Nat
      PROVE  total * 2^e \in Nat /\ total * 2^e >= total /\ total * 2^e >= total * (e + 1)
  <2>1. 2^e \in Nat /\ 2^e >= e + 1
    BY PowerAbove
  <2>2. \A a \in Nat : a >= e + 1 => total * a >= total * (e + 1) /\ total * a >= total
    OBVIOUS
  <2> QED
    BY <2>1, <2>2
<1>2. D \subseteq Nat /\ \A n \in D : n >= total
  BY <1>1
<1>3. total * 2^need \in D
  <2>1. total * (need + 1) >= need + used
    <3>1. total * need >= need
      OBVIOUS
    <3>2. total * (need + 1) = total * need + total
      OBVIOUS
    <3> QED
      BY <3>1, <3>2
  <2>2. total * 2^need \in E
    OBVIOUS
  <2>3. total * 2^need \in Nat /\ total * 2^need >= total * (need + 1)
    BY <1>1
  <2> HIDE DEF E
  <2> QED
    BY <2>1, <2>2, <2>3
<1>4. Min(D) \in D
  BY <1>2, <1>3, MinNat
<1> QED
  BY <1>2, <1>4

(***************************************************************************)
(* The stream.                                                             *)
(***************************************************************************)

(* Lengths and places in the stream are naturals. *)
LEMMA StreamFacts ==
    ASSUME Stream
    PROVE  /\ Len(pkts) \in Nat /\ StreamLen = EndOf(Len(pkts))
           /\ \A k \in 1 .. Len(pkts) :
                 pkts[k] \in Packet /\ pkts[k].len \in Nat /\ pkts[k].start \in Nat
                 /\ pkts[k].out \in Nat /\ ReplyLen(pkts[k]) \in Nat
           /\ \A n \in 0 .. Len(pkts) : EndOf(n) \in Nat /\ RepliesLen(n) \in Nat
<1>1. Len(pkts) \in Nat /\ \A k \in 1 .. Len(pkts) : pkts[k] \in Packet
  BY DEF Stream
<1>2. \A k \in 1 .. Len(pkts) :
          pkts[k].len \in Nat /\ pkts[k].start \in Nat /\ pkts[k].out \in Nat
  BY <1>1 DEF Packet
<1>3. \A k \in 1 .. Len(pkts) : ReplyLen(pkts[k]) \in Nat
  BY <1>2, ConnectionAssumption DEF ReplyLen
<1>4. StreamLen = EndOf(Len(pkts))
  BY <1>1 DEF StreamLen, EndOf, Stream
<1>5. \A n \in 0 .. Len(pkts) : EndOf(n) \in Nat /\ RepliesLen(n) \in Nat
  BY <1>1, <1>2, <1>3 DEF EndOf, RepliesLen
<1> QED
  BY <1>1, <1>2, <1>3, <1>4, <1>5

(* One packet more at the end of the stream leaves the others as they are. *)
LEMMA AppendStream ==
    ASSUME Stream, NEW p \in Packets, ClientSends(p)
    PROVE  /\ Stream' /\ Len(pkts') = Len(pkts) + 1
           /\ \A k \in 1 .. Len(pkts) : pkts'[k] = pkts[k]
           /\ \A n \in 0 .. Len(pkts) : EndOf(n)' = EndOf(n) /\ RepliesLen(n)' = RepliesLen(n)
           /\ StreamLen' \in Nat /\ StreamLen' >= StreamLen
<1> PICK N \in Nat : N = Len(pkts)
  BY StreamFacts
<1> PICK r : r = [kind |-> p.kind, len |-> p.len, start |-> StreamLen, out |-> RepliesLen(N)]
  OBVIOUS
<1>1. p.kind \in Kinds /\ p.len \in Nat /\ p.len > BodyPos
  <2>1. p \in [kind : Kinds, len : Nat]
    BY ConnectionAssumption
  <2> QED
    BY <2>1, ConnectionAssumption
<1>2. /\ N \in Nat /\ StreamLen = EndOf(N)
      /\ \A n \in 0 .. N : EndOf(n) \in Nat /\ RepliesLen(n) \in Nat
  BY StreamFacts
<1>3. r \in Packet
  BY <1>1, <1>2 DEF Packet
<1>4. pkts' = Append(pkts, r)
  BY DEF ClientSends
<1>5. /\ pkts' \in Seq(Packet) /\ Len(pkts') = N + 1 /\ pkts'[N + 1] = r
      /\ \A k \in 1 .. N : pkts'[k] = pkts[k]
  BY <1>3, <1>4, AppendProperties DEF Stream
<1>6. \A n \in 0 .. N : EndOf(n)' = EndOf(n) /\ RepliesLen(n)' = RepliesLen(n)
  BY <1>2, <1>5 DEF EndOf, RepliesLen
<1>7. EndOf(N + 1)' = EndOf(N) + p.len /\ RepliesLen(N + 1)' = RepliesLen(N) + ReplyLen(r)
  BY <1>2, <1>5 DEF EndOf, RepliesLen
<1>8. ReplyLen(r) \in Nat
  BY <1>1, ConnectionAssumption DEF ReplyLen
<1>9. \A k \in 1 .. N + 1 :
          /\ pkts'[k].len > BodyPos
          /\ pkts'[k].start = EndOf(k - 1)' /\ pkts'[k].out = RepliesLen(k - 1)'
  <2> SUFFICES ASSUME NEW k \in 1 .. N + 1
               PROVE  /\ pkts'[k].len > BodyPos
                      /\ pkts'[k].start = EndOf(k - 1)' /\ pkts'[k].out = RepliesLen(k - 1)'
    OBVIOUS
  <2>1. k - 1 \in 0 .. N
    BY <1>2
  <2>2. EndOf(k - 1)' = EndOf(k - 1) /\ RepliesLen(k - 1)' = RepliesLen(k - 1)
    BY <1>6, <2>1
  <2>3. CASE k = N + 1
    BY <1>1, <1>2, <1>5, <2>2, <2>3
  <2>4. CASE k \in 1 .. N
    BY <1>5, <2>2, <2>4 DEF Stream
  <2> QED
    BY <1>2, <2>3, <2>4
<1>10. \A i, k \in 0 .. N + 1 :
          i < k => EndOf(i)' < EndOf(k)' /\ RepliesLen(i)' <= RepliesLen(k)'
  <2> SUFFICES ASSUME NEW i \in 0 .. N + 1, NEW k \in 0 .. N + 1, i < k
               PROVE  EndOf(i)' < EndOf(k)' /\ RepliesLen(i)' <= RepliesLen(k)'
    OBVIOUS
  <2>1. i \in 0 .. N /\ EndOf(i)' = EndOf(i) /\ RepliesLen(i)' = RepliesLen(i)
    BY <1>2, <1>6
  <2>2. CASE k \in 0 .. N
    BY <1>6, <2>1, <2>2 DEF Stream
  <2>3. CASE k = N + 1
    <3>1. EndOf(i) <= EndOf(N) /\ RepliesLen(i) <= RepliesLen(N)
      BY <1>2, <2>1 DEF Stream
    <3> QED
      BY <1>1, <1>2, <1>7, <1>8, <2>1, <2>3, <3>1, ConnectionAssumption
  <2> QED
    BY <1>2, <2>2, <2>3
<1>11. Stream'
  BY <1>2, <1>5, <1>9, <1>10 DEF Stream
<1>12. StreamLen' \in Nat /\ StreamLen' >= StreamLen
  <2>1. StreamLen' = EndOf(N + 1)'
    BY <1>2, <1>5 DEF StreamLen, EndOf
  <2> QED
    BY <1>1, <1>2, <1>7, <2>1
<1> QED
  BY <1>2, <1>5, <1>6, <1>11, <1>12

(* Which packet the server is at: the one after those it has processed. *)
LEMMA IncomingIsNext ==
    ASSUME RecvInv, status = "open"
    PROVE  /\ Heads # {} => done < Len(pkts)
           /\ done < Len(pkts) => Incoming = done + 1
<1>1. Len(pkts) \in Nat /\ done \in 0 .. Len(pkts) /\ readTotal - iRecvCurLen = EndOf(done)
  BY StreamFacts DEF RecvInv, RecvTypes, Position
<1>2. \A k \in Heads : k \in 1 .. Len(pkts) /\ EndOf(k - 1) = EndOf(done)
  BY <1>1 DEF Heads, RecvInv, Stream
<1>3. \A k \in Heads : k = done + 1
  <2> SUFFICES ASSUME NEW k \in Heads PROVE k - 1 = done
    BY <1>1, <1>2
  <2>1. k - 1 \in 0 .. Len(pkts)
    BY <1>1, <1>2
  <2>2. EndOf(k - 1) \in Nat /\ EndOf(done) \in Nat
    BY <1>1, <2>1, StreamFacts DEF RecvInv
  <2>3. ~(k - 1 < done) /\ ~(done < k - 1)
    BY <1>1, <1>2, <2>1, <2>2 DEF RecvInv, Stream
  <2> QED
    BY <1>1, <2>1, <2>3
<1>4. done < Len(pkts) => done + 1 \in Heads
  BY <1>1 DEF Heads, RecvInv, Stream
<1> QED
  BY <1>1, <1>2, <1>3, <1>4 DEF Incoming

(* What the read of a head gets. *)
LEMMA HeadFacts ==
    ASSUME RecvInv
    PROVE  /\ HeadGot \in Nat /\ HeadGot <= arrived - readTotal
           /\ CurLen \in Nat /\ CurLen = iRecvCurLen + HeadGot
           /\ InHead => CurLen <= HeadLen
           /\ ~InHead => HeadGot = 0 /\ CurLen >= HeadLen
<1>1. /\ iRecvCurLen \in Nat /\ arrived - readTotal \in Nat
      /\ HeadLen \in Nat
  BY StreamFacts, ConnectionAssumption DEF RecvInv, RecvTypes
<1> QED
  BY <1>1 DEF HeadGot, CurLen, InHead, RecvData

(* What the read of a body gets: never more than is missing of the packet   *)
(* the server is at, which always has something missing.                    *)
LEMMA BodyFacts ==
    ASSUME RecvInv, status = "open", AtBody
    PROVE  /\ done < Len(pkts) /\ Incoming = done + 1
           /\ Length = pkts[done + 1].len /\ Length \in Nat /\ Length > BodyPos
           /\ CurLen < Length
           /\ BodyGot \in Nat /\ BodyGot <= arrived - readTotal - HeadGot
           /\ CurLen + BodyGot <= Length
<1>1. done < Len(pkts) /\ Incoming = done + 1
  <2>1. CASE InHead
    BY <2>1, IncomingIsNext DEF AtBody, HeadValid
  <2>2. CASE ~InHead
    <3>1. iRecvCurLen >= HeadLen
      BY <2>2, ConnectionAssumption DEF InHead, RecvInv, RecvTypes
    <3> QED
      BY <3>1, IncomingIsNext DEF RecvInv, Position
  <2> QED
    BY <2>1, <2>2
<1>2. done + 1 \in 1 .. Len(pkts) /\ done \in Nat /\ iRecvCurLen \in Nat /\ iPacketLen \in Nat
  BY <1>1, StreamFacts DEF RecvInv, RecvTypes
<1>3. Length = pkts[done + 1].len /\ Length \in Nat /\ Length > BodyPos
  <2>1. iRecvCurLen >= HeadLen => iPacketLen = pkts[done + 1].len
    BY DEF RecvInv, Position
  <2>2. Length = pkts[done + 1].len
    BY <1>1, <1>2, <2>1, ConnectionAssumption DEF Length, InHead
  <2> QED
    BY <1>2, <2>2, StreamFacts DEF RecvInv, Stream
<1>4. CurLen < Length
  BY <1>2, <1>3, HeadFacts, ConnectionAssumption DEF InHead, RecvInv, Position
<1>5. Length - CurLen \in Nat \ {0} /\ arrived - readTotal - HeadGot \in Nat
  <2>1. CurLen \in Nat /\ HeadGot \in Nat /\ HeadGot <= arrived - readTotal
    BY HeadFacts
  <2>2. arrived \in Int /\ readTotal \in Int
    BY StreamFacts DEF RecvInv, RecvTypes
  <2> QED
    BY <1>3, <1>4, <2>1, <2>2
<1>6. BodyWant = IF Length - CurLen <= Chunk THEN Length - CurLen ELSE Chunk
  BY <1>5, MinOfTwo, ConnectionAssumption DEF BodyWant
<1>7. BodyWant \in Nat /\ BodyWant <= Length - CurLen
  BY <1>5, <1>6, ConnectionAssumption
<1>8. BodyGot \in Nat /\ BodyGot <= arrived - readTotal - HeadGot /\ BodyGot <= Length - CurLen
  BY <1>5, <1>7 DEF BodyGot, RecvData
<1> QED
  BY <1>1, <1>3, <1>4, <1>5, <1>8, HeadFacts

(* ResizeRecvBufferPtr makes room for a whole packet. *)
LEMMA RecvGrownFits ==
    ASSUME iRecvTotalLen \in Nat, iRecvTotalLen >= 1, NEW len \in Nat
    PROVE  RecvGrown(len) \in Nat /\ RecvGrown(len) >= 1 /\ RecvGrown(len) >= len
<1> DEFINE D == {n \in {iRecvTotalLen * 2^e : e \in 0 .. len} : n >= len}
<1>1. \A e \in 0 .. len : iRecvTotalLen * 2^e \in Nat
  BY PowerAbove
<1>2. D = {n \in {iRecvTotalLen * 2^e : e \in 0 .. len} : n - 0 >= len}
  BY <1>1
<1>3. iRecvTotalLen \in Nat \ {0} /\ 0 \in Int /\ 0 <= iRecvTotalLen
  OBVIOUS
<1> HIDE DEF D
<1>4. Min(D) \in Nat /\ Min(D) >= iRecvTotalLen /\ Min(D) - 0 >= len
  BY <1>2, <1>3, DoublingFits, Zenon
<1> QED
  BY <1>4 DEF RecvGrown, D

(***************************************************************************)
(* Receiving keeps its place in the stream.                                *)
(***************************************************************************)

(* A step that sends no packet leaves every place in the stream as it is. *)
LEMMA SameStream ==
    ASSUME RecvInv, pkts' = pkts
    PROVE  /\ Stream' /\ StreamLen' = StreamLen
           /\ \A n : EndOf(n)' = EndOf(n) /\ RepliesLen(n)' = RepliesLen(n)
BY DEF RecvInv, Stream, StreamLen, EndOf, RepliesLen

(* The client: a packet more at the end of the stream, bytes that arrive,   *)
(* or the end of the stream.                                                *)
LEMMA RecvClientInv ==
    ASSUME RecvInv, (\E p \in Packets : ClientSends(p)) \/ Arrive \/ ClientCloses
    PROVE  RecvInv'
<1>1. ASSUME NEW p \in Packets, ClientSends(p) PROVE RecvInv'
  <2>1. /\ Stream' /\ Len(pkts') = Len(pkts) + 1
        /\ \A k \in 1 .. Len(pkts) : pkts'[k] = pkts[k]
        /\ \A n \in 0 .. Len(pkts) : EndOf(n)' = EndOf(n)
        /\ StreamLen' \in Nat /\ StreamLen' >= StreamLen
    BY <1>1, AppendStream DEF RecvInv
  <2>2. Len(pkts) \in Nat /\ StreamLen \in Nat
    BY StreamFacts DEF RecvInv
  <2>3. UNCHANGED <<arrived, fin, recvVars, status>>
    BY <1>1 DEF ClientSends
  <2>4. RecvTypes' /\ iRecvTotalLen' >= 1
    BY <2>1, <2>2, <2>3 DEF RecvInv, RecvTypes, recvVars
  <2>5. EndOf(done)' = EndOf(done)
    BY <2>1, <2>3 DEF RecvInv, RecvTypes, recvVars, EndOf
  <2>6. Position'
    BY <2>1, <2>2, <2>3, <2>5 DEF RecvInv, RecvTypes, Position, recvVars
  <2> QED
    BY <2>1, <2>4, <2>6 DEF RecvInv
<1>2. CASE Arrive \/ ClientCloses
  <2>1. /\ UNCHANGED <<pkts, recvVars, status>> /\ arrived' \in arrived .. StreamLen
        /\ fin' \in {"no", "yes"}
    BY <1>2, StreamFacts DEF Arrive, ClientCloses, RecvInv, RecvTypes
  <2>2. Stream' /\ StreamLen' = StreamLen /\ \A n : EndOf(n)' = EndOf(n)
    BY <2>1, SameStream
  <2>3. StreamLen \in Nat
    BY StreamFacts DEF RecvInv
  <2>4. RecvTypes' /\ iRecvTotalLen' >= 1
    BY <2>1, <2>2, <2>3 DEF RecvInv, RecvTypes, recvVars
  <2>5. EndOf(done)' = EndOf(done)
    BY <2>1 DEF EndOf, recvVars
  <2>6. Position'
    BY <2>1, <2>2, <2>5 DEF RecvInv, Position, recvVars
  <2> QED
    BY <2>2, <2>4, <2>6 DEF RecvInv
<1> QED
  BY <1>1, <1>2

(* A step that leaves the receiving side alone, or closes the connection. *)
LEMMA RecvSameInv ==
    ASSUME RecvInv, UNCHANGED <<clientVars, recvVars>>, status' = status \/ status' # "open"
    PROVE  RecvInv'
<1>1. Stream' /\ StreamLen' = StreamLen
  BY SameStream DEF clientVars
<1>2. RecvTypes' /\ iRecvTotalLen' >= 1
  BY <1>1 DEF RecvInv, RecvTypes, recvVars, clientVars
<1>3. EndOf(done)' = EndOf(done)
  BY DEF EndOf, recvVars, clientVars
<1>4. Position'
  BY <1>1, <1>3 DEF RecvInv, Position, recvVars, clientVars
<1> QED
  BY <1>1, <1>2, <1>4 DEF RecvInv

(* A callback that ends inside the head stays in the same packet. *)
LEMMA RecvHeadPartInv ==
    ASSUME RecvInv, RecvHeadPart
    PROVE  RecvInv'
<1>1. Stream' /\ StreamLen' = StreamLen /\ EndOf(done)' = EndOf(done)
  BY SameStream DEF clientVars, RecvHeadPart, EndOf
<1>2. /\ HeadGot \in Nat /\ HeadGot <= arrived - readTotal /\ CurLen = iRecvCurLen + HeadGot
      /\ CurLen < HeadLen /\ CurLen \in Nat
  BY HeadFacts DEF RecvHeadPart
<1>3. RecvTypes' /\ iRecvTotalLen' >= 1
  BY <1>1, <1>2, StreamFacts DEF RecvInv, RecvTypes, RecvHeadPart, clientVars
<1>4. Position'
  BY <1>1, <1>2, StreamFacts, ConnectionAssumption
  DEF RecvInv, RecvTypes, Position, RecvHeadPart, clientVars, ReadEvent
<1> QED
  BY <1>1, <1>3, <1>4 DEF RecvInv

(* The counters after some of the body was read. *)
LEMMA BodyReadTypes ==
    ASSUME RecvInv, ReadEvent, AtBody, BodyRead
    PROVE  /\ readTotal' \in 0 .. arrived /\ readTotal' = readTotal + HeadGot + BodyGot
           /\ iRecvTotalLen' \in Nat /\ iRecvTotalLen' >= 1 /\ Length <= iRecvTotalLen'
<1>1. status = "open"
  BY DEF ReadEvent
<1>2. /\ HeadGot \in Nat /\ BodyGot \in Nat /\ BodyGot <= arrived - readTotal - HeadGot
      /\ Length \in Nat /\ arrived \in Nat /\ readTotal \in Nat
      /\ iRecvTotalLen \in Nat /\ iRecvTotalLen >= 1
  BY <1>1, HeadFacts, BodyFacts, StreamFacts DEF RecvInv, RecvTypes
<1>3. ~InHead => Length <= iRecvTotalLen
  BY <1>1, ConnectionAssumption DEF RecvInv, RecvTypes, Position, InHead, Length
<1> QED
  BY <1>2, <1>3, RecvGrownFits DEF BodyRead

(* So does one that ends inside the body; by then the buffer holds the      *)
(* packet.                                                                  *)
LEMMA RecvBodyPartInv ==
    ASSUME RecvInv, RecvBodyPart
    PROVE  RecvInv'
<1>1. Stream' /\ StreamLen' = StreamLen /\ EndOf(done)' = EndOf(done)
  BY SameStream DEF clientVars, RecvBodyPart, EndOf
<1>2. /\ readTotal' \in 0 .. arrived /\ readTotal' = readTotal + HeadGot + BodyGot
      /\ iRecvTotalLen' \in Nat /\ iRecvTotalLen' >= 1 /\ Length <= iRecvTotalLen'
  BY BodyReadTypes DEF RecvBodyPart
<1>3. /\ done < Len(pkts) /\ Length = pkts[done + 1].len /\ Length \in Nat
      /\ BodyGot \in Nat /\ CurLen \in Nat /\ CurLen = iRecvCurLen + HeadGot /\ HeadGot \in Nat
  BY BodyFacts, HeadFacts DEF RecvBodyPart, ReadEvent
<1>4. RecvTypes' /\ iRecvTotalLen' >= 1
  BY <1>1, <1>2, <1>3, StreamFacts DEF RecvInv, RecvTypes, RecvBodyPart, clientVars
<1>5. Position'
  BY <1>1, <1>2, <1>3, StreamFacts, ConnectionAssumption
  DEF RecvInv, RecvTypes, Position, RecvBodyPart, clientVars, ReadEvent
<1> QED
  BY <1>1, <1>4, <1>5 DEF RecvInv

(* The end of a packet is the start of the next one. *)
LEMMA RecvPacketInv ==
    ASSUME RecvInv, RecvPacket
    PROVE  RecvInv'
<1>1. Stream' /\ StreamLen' = StreamLen /\ pkts' = pkts /\ arrived' = arrived /\ fin' = fin
  BY SameStream DEF clientVars, RecvPacket
<1>2. /\ readTotal' \in 0 .. arrived /\ readTotal' = readTotal + HeadGot + BodyGot
      /\ iRecvTotalLen' \in Nat /\ iRecvTotalLen' >= 1
  BY BodyReadTypes DEF RecvPacket
<1>3. /\ done < Len(pkts) /\ Length = pkts[done + 1].len /\ Length \in Nat
      /\ BodyGot \in Nat /\ CurLen = iRecvCurLen + HeadGot /\ HeadGot \in Nat
      /\ status = "open" /\ CurLen + BodyGot = Length
  BY BodyFacts, HeadFacts DEF RecvPacket, ReadEvent
<1>4. RecvTypes' /\ iRecvTotalLen' >= 1
  BY <1>1, <1>2, <1>3, StreamFacts DEF RecvInv, RecvTypes, RecvPacket
<1>5. EndOf(done)' = EndOf(done) + Length
  <2>1. done \in Nat /\ done + 1 \in 1 .. Len(pkts)
    BY <1>3, StreamFacts DEF RecvInv, RecvTypes
  <2>2. pkts[done + 1].start = EndOf(done)
    BY <2>1 DEF RecvInv, Stream
  <2> QED
    BY <1>1, <1>3, <2>1, <2>2 DEF EndOf, RecvPacket
<1>6. Position'
  <2>1. /\ readTotal - iRecvCurLen = EndOf(done) /\ readTotal \in Nat /\ iRecvCurLen \in Nat
        /\ EndOf(done) \in Nat
    BY <1>3, StreamFacts DEF RecvInv, RecvTypes, Position
  <2> QED
    BY <1>2, <1>3, <1>5, <2>1, ConnectionAssumption DEF Position, RecvPacket
<1> QED
  BY <1>1, <1>4, <1>6 DEF RecvInv

(* A new connection is at the start of an empty stream. *)
LEMMA InitRecv == Init => RecvInv
<1> SUFFICES ASSUME Init PROVE RecvInv
  OBVIOUS
<1>1. pkts = <<>> /\ Len(pkts) = 0 /\ pkts \in Seq(Packet)
  BY DEF Init
<1>2. Stream
  BY <1>1 DEF Stream
<1>3. StreamLen = 0 /\ EndOf(0) = 0
  BY <1>1 DEF StreamLen, EndOf
<1>4. RecvTypes /\ iRecvTotalLen >= 1
  BY <1>1, <1>3, ConnectionAssumption DEF Init, RecvTypes
<1>5. Position
  BY <1>3, ConnectionAssumption DEF Init, Position
<1> QED
  BY <1>2, <1>4, <1>5 DEF RecvInv

(* Every action keeps the receiving side in step with the stream. *)
LEMMA StepRecv == RecvInv /\ [Next]_vars => RecvInv'
<1> SUFFICES ASSUME RecvInv, [Next]_vars PROVE RecvInv'
  OBVIOUS
<1>1. CASE (\E p \in Packets : ClientSends(p)) \/ Arrive \/ ClientCloses
  BY <1>1, RecvClientInv
<1>2. CASE RecvHeadPart
  BY <1>2, RecvHeadPartInv
<1>3. CASE RecvBodyPart
  BY <1>3, RecvBodyPartInv
<1>4. CASE RecvPacket
  BY <1>4, RecvPacketInv
<1>5. CASE RecvHeadFails \/ RecvBadHead \/ RecvBodyFails \/ SendFails \/ TimesOut
  BY <1>5, RecvSameInv DEF RecvHeadFails, RecvBadHead, RecvBodyFails, SendFails, TimesOut, Close
<1>6. CASE ProcessSend \/ UNCHANGED vars
  BY <1>6, RecvSameInv DEF ProcessSend, vars
<1> QED
  BY <1>1, <1>2, <1>3, <1>4, <1>5, <1>6 DEF Next, Recv

(* The receiving side is in step always. *)
LEMMA AlwaysRecv == Spec => []RecvInv
BY InitRecv, StepRecv, PTL DEF Spec

(* ProcessRecv takes the packets for what they are, for every way the       *)
(* kernel cuts the stream into reads, all packet lengths and any growth of  *)
(* the buffer.                                                              *)
THEOREM FramingExactHolds == Spec => []FramingExact
<1>1. RecvInv => FramingExact
  <2> SUFFICES ASSUME RecvInv, status = "open"
               PROVE  IF done = Len(pkts)
                      THEN readTotal = StreamLen /\ iRecvCurLen = 0
                      ELSE /\ readTotal - iRecvCurLen = pkts[done + 1].start
                           /\ iRecvCurLen >= HeadLen => iPacketLen = pkts[done + 1].len
    BY DEF FramingExact
  <2>1. /\ readTotal - iRecvCurLen = EndOf(done) /\ StreamLen = EndOf(Len(pkts))
        /\ readTotal \in 0 .. StreamLen /\ iRecvCurLen \in Nat /\ StreamLen \in Nat
        /\ done \in 0 .. Len(pkts) /\ Len(pkts) \in Nat
    BY StreamFacts DEF RecvInv, RecvTypes, Position
  <2>2. CASE done = Len(pkts)
    BY <2>1, <2>2
  <2>3. CASE done # Len(pkts)
    BY <2>1, <2>3 DEF RecvInv, Stream, Position
  <2> QED
    BY <2>2, <2>3
<1> QED
  BY <1>1, AlwaysRecv, PTL

(* Inside a body ProcessRecv reads at least a byte and never past the       *)
(* receive buffer, however small that was at first.                         *)
THEOREM RecvInBoundsHolds == Spec => []RecvInBounds
<1>1. RecvInv => RecvInBounds
  BY DEF RecvInv, Position, RecvInBounds
<1> QED
  BY <1>1, AlwaysRecv, PTL

(***************************************************************************)
(* Replies and sending.                                                    *)
(***************************************************************************)

(* What the code does with the packet it has just read whole. *)
LEMMA PacketFacts ==
    ASSUME RecvInv, RecvPacket
    PROVE  /\ status = "open" /\ done \in Nat /\ done + 1 \in 1 .. Len(pkts)
           /\ pkts[done + 1] \in Packet /\ pkts[done + 1].len \in Nat
           /\ pkts[done + 1].len > BodyPos /\ ReplyLen(pkts[done + 1]) \in Nat
           /\ ProcessEntirePacket(done + 1, pkts[done + 1])
           /\ done' = done + 1 /\ pkts' = pkts /\ wire' = wire
<1>1. status = "open" /\ done < Len(pkts) /\ Incoming = done + 1
  BY BodyFacts DEF RecvPacket, ReadEvent
<1>2. done \in Nat /\ done + 1 \in 1 .. Len(pkts)
  BY <1>1, StreamFacts DEF RecvInv, RecvTypes
<1>3. /\ pkts[done + 1] \in Packet /\ pkts[done + 1].len \in Nat
      /\ pkts[done + 1].len > BodyPos /\ ReplyLen(pkts[done + 1]) \in Nat
  BY <1>2, StreamFacts DEF RecvInv, Stream
<1> QED
  BY <1>1, <1>2, <1>3 DEF RecvPacket, clientVars

(* ResizeSendBufferPtr: whatever it does, the counters and the contents     *)
(* keep their types, and it never allocates more than the first buffer.     *)
LEMMA ResizedFacts ==
    ASSUME SendInv, status = "open", NEW need \in Nat, NEW r, r = Resized(need)
    PROVE  /\ r.buf \in [0 .. BufSize - 1 -> Byte]
           /\ r.packet \in Int /\ r.cur \in Nat /\ r.alloc \in Nat /\ r.total \in Nat
           /\ r.alloc <= BufSize /\ BufSize <= r.total
           /\ iSendPacketLen = 0 /\ iSendCurLen = 0 => r.packet = 0 /\ r.cur = 0
<1> DEFINE unsent == iSendPacketLen - iSendCurLen
           moved  == Write(pszSendBuf, 0, unsent, LAMBDA i : pszSendBuf[iSendCurLen + i])
           D == {n \in {iSendTotalLen * 2^e : e \in 0 .. need} : n - iSendPacketLen >= need}
<1>1. /\ iSendPacketLen \in Int /\ iSendCurLen \in Nat /\ iSendTotalLen \in Nat
      /\ sendAlloc \in Nat /\ sendAlloc <= BufSize /\ BufSize <= iSendTotalLen
      /\ iSendPacketLen <= sendAlloc /\ pszSendBuf \in [0 .. BufSize - 1 -> Byte]
      /\ BufSize \in Nat \ {0} /\ SizeofInt \in 0 .. BufSize
  BY ConnectionAssumption DEF SendInv, SendTypes, SendRoom
<1>2. unsent \in Int
  BY <1>1
<1>3. moved \in [0 .. BufSize - 1 -> Byte]
  <2>1. \A i \in 0 .. BufSize - 1 : i \in 0 .. 0 + unsent - 1 =>
            pszSendBuf[iSendCurLen + (i - 0)] \in Byte
    BY <1>1
  <2> QED
    BY <1>1, <2>1 DEF Write
<1>4. Min(D) \in Nat /\ Min(D) >= iSendTotalLen
  <2>1. iSendTotalLen \in Nat \ {0} /\ iSendPacketLen <= iSendTotalLen
    BY <1>1
  <2> QED
    BY <1>1, <2>1, DoublingFits
<1> HIDE DEF moved, D
<1>5. r = IF iSendTotalLen - iSendPacketLen >= need
          THEN [buf |-> pszSendBuf, packet |-> iSendPacketLen, cur |-> iSendCurLen,
                total |-> iSendTotalLen, alloc |-> sendAlloc]
          ELSE IF iSendTotalLen - iSendPacketLen + iSendCurLen > need
          THEN [buf |-> moved, packet |-> unsent, cur |-> 0,
                total |-> iSendTotalLen, alloc |-> sendAlloc]
          ELSE [buf |-> moved, packet |-> unsent, cur |-> 0,
                total |-> Min(D), alloc |-> SizeofInt]
  BY DEF Resized, moved, D
<1>6. CASE iSendTotalLen - iSendPacketLen >= need
  BY <1>1, <1>5, <1>6
<1>7. CASE ~(iSendTotalLen - iSendPacketLen >= need)
           /\ iSendTotalLen - iSendPacketLen + iSendCurLen > need
  BY <1>1, <1>2, <1>3, <1>5, <1>7
<1>8. CASE ~(iSendTotalLen - iSendPacketLen >= need)
           /\ ~(iSendTotalLen - iSendPacketLen + iSendCurLen > need)
  BY <1>1, <1>2, <1>3, <1>4, <1>5, <1>8
<1> QED
  BY <1>6, <1>7, <1>8

(* SendBackEcho: the reply at the start of the buffer. *)
LEMMA EchoFacts ==
    ASSUME SendInv, status = "open", NEW k \in Nat, NEW p \in Packet, p.len > BodyPos,
           SendBackEcho(k, p)
    PROVE  /\ pszSendBuf' \in [0 .. BufSize - 1 -> Byte]
           /\ iSendPacketLen' = p.len /\ iSendPacketLen' \in Nat \ {0}
           /\ UNCHANGED <<iSendCurLen, iSendTotalLen, sendAlloc>>
           /\ status' \in {"open", "overrun"}
           /\ status' = "open" => /\ p.len <= sendAlloc
                                  /\ \A i \in 0 .. p.len - 1 : pszSendBuf'[i] = <<k, i>>
<1>1. p.len \in Nat \ {0} /\ BufSize \in Nat
  BY ConnectionAssumption DEF Packet
<1>2. sendAlloc \in Nat /\ sendAlloc <= BufSize /\ pszSendBuf \in [0 .. BufSize - 1 -> Byte]
  BY DEF SendInv, SendTypes, SendRoom
<1>3. pszSendBuf' = [i \in 0 .. BufSize - 1 |->
                        IF i \in 0 .. 0 + p.len - 1 THEN <<k, i - 0>> ELSE pszSendBuf[i]]
  BY <1>2 DEF SendBackEcho, Write
<1>4. pszSendBuf' \in [0 .. BufSize - 1 -> Byte]
  BY <1>1, <1>2, <1>3 DEF Byte
<1>5. status' = "open" => p.len <= sendAlloc
  <2>1. status' = IF p.len > sendAlloc THEN "overrun" ELSE "open"
    BY Zenon DEF SendBackEcho
  <2> QED
    BY <1>1, <1>2, <2>1
<1>6. ASSUME p.len <= sendAlloc, NEW i \in 0 .. p.len - 1 PROVE pszSendBuf'[i] = <<k, i>>
  BY <1>1, <1>2, <1>3, <1>6
<1> QED
  BY <1>1, <1>4, <1>5, <1>6 DEF SendBackEcho

(* ProcessTestBinProtocol: when nothing was waiting the reply is at the     *)
(* start of the buffer, where it is also copied from.                       *)
LEMMA TestFacts ==
    ASSUME SendInv, status = "open", NEW k \in Nat, NEW p \in Packet, p.len > BodyPos,
           p.kind = "test", ProcessTestBinProtocol(k, p)
    PROVE  /\ pszSendBuf' \in [0 .. BufSize - 1 -> Byte]
           /\ iSendPacketLen' \in Int /\ iSendCurLen' \in Nat
           /\ iSendTotalLen' \in Nat /\ sendAlloc' \in Nat
           /\ sendAlloc' <= BufSize /\ BufSize <= iSendTotalLen'
           /\ status' \in {"open", "overrun"}
           /\ status' = "open" => 0 < iSendPacketLen' /\ iSendPacketLen' <= sendAlloc'
           /\ status' = "open" /\ iSendPacketLen = 0 /\ iSendCurLen = 0 =>
                 /\ iSendCurLen' = 0 /\ iSendPacketLen' = ReplyLen(p)
                 /\ \A i \in 0 .. ReplyLen(p) - 1 :
                       pszSendBuf'[i] = <<k, i>> \/ i \in Unwritten(ReplyLen(p))
<1> PICK len : len = ReplyLen(p)
  OBVIOUS
<1> PICK r : r = Resized(RoomAskedFor(p))
  OBVIOUS
<1>1. p.len \in Nat /\ BodyPos \in Nat /\ Pad \in Nat /\ BufSize \in Nat
  BY ConnectionAssumption DEF Packet
<1>2. len = p.len + Pad /\ len \in Nat \ {0}
  BY <1>1, ConnectionAssumption DEF ReplyLen
<1>3. RoomAskedFor(p) \in Nat
  BY <1>1 DEF RoomAskedFor
<1>4. /\ r.buf \in [0 .. BufSize - 1 -> Byte]
      /\ r.packet \in Int /\ r.cur \in Nat /\ r.alloc \in Nat /\ r.total \in Nat
      /\ r.alloc <= BufSize /\ BufSize <= r.total
      /\ iSendPacketLen = 0 /\ iSendCurLen = 0 => r.packet = 0 /\ r.cur = 0
  BY <1>3, ResizedFacts
<1> DEFINE fits == 0 <= r.packet /\ r.packet + len <= r.alloc
           built == PackReply(r.buf, r.packet, k, len)
           copied == AppendFromStart(built, r.packet, len)
<1>5. /\ pszSendBuf' = IF fits THEN copied ELSE pszSendBuf
      /\ iSendPacketLen' = r.packet + len /\ iSendCurLen' = r.cur
      /\ iSendTotalLen' = r.total /\ sendAlloc' = r.alloc
      /\ status' = IF fits THEN "open" ELSE "overrun"
  BY DEF ProcessTestBinProtocol
<1>6. built = [i \in 0 .. BufSize - 1 |->
                 IF i \in r.packet .. r.packet + len - 1
                 THEN IF i - r.packet \in Unwritten(len) THEN r.buf[r.packet + (i - r.packet)]
                      ELSE <<k, i - r.packet>>
                 ELSE r.buf[i]]
  BY <1>4 DEF PackReply, Write
<1>7. built \in [0 .. BufSize - 1 -> Byte]
  <2>1. \A i \in 0 .. BufSize - 1 :
            i \in r.packet .. r.packet + len - 1 =>
                i - r.packet \in Nat /\ r.packet + (i - r.packet) = i
    <3>a. PICK a \in Int : a = r.packet
      BY <1>4, Zenon
    <3>1. \A i \in 0 .. BufSize - 1 :
              i \in a .. a + len - 1 => i - a \in Nat /\ a + (i - a) = i
      BY <1>1, <1>2
    <3> QED
      BY <3>a, <3>1, Zenon
  <2>2. ASSUME NEW i \in 0 .. BufSize - 1 PROVE built[i] \in Byte
    <3>1. r.buf[i] \in Byte
      BY <1>4
    <3>2. i \in r.packet .. r.packet + len - 1 => <<k, i - r.packet>> \in Byte
      BY <2>1 DEF Byte
    <3> QED
      BY <1>6, <2>1, <3>1, <3>2
  <2> HIDE DEF built
  <2> QED
    BY <1>6, <2>2
<1>8. copied = [i \in 0 .. BufSize - 1 |->
                  IF i \in r.packet .. r.packet + len - 1 THEN built[i - r.packet]
                  ELSE built[i]]
  <2> HIDE DEF built
  <2> QED
    BY <1>7 DEF AppendFromStart, Write
<1>9. fits => copied \in [0 .. BufSize - 1 -> Byte]
  <2> HIDE DEF built, copied
  <2>1. ASSUME fits, NEW i \in 0 .. BufSize - 1, i \in r.packet .. r.packet + len - 1
        PROVE  i - r.packet \in 0 .. BufSize - 1
    <3>1. r.packet \in Int /\ r.alloc \in Nat /\ r.alloc <= BufSize
      BY <1>4
    <3> QED
      BY <1>1, <1>2, <2>1, <3>1
  <2> QED
    BY <1>7, <1>8, <2>1
<1>10. pszSendBuf' \in [0 .. BufSize - 1 -> Byte]
  BY <1>5, <1>9 DEF SendInv, SendTypes
<1>11. status' = "open" => 0 < iSendPacketLen' /\ iSendPacketLen' <= sendAlloc'
  BY <1>2, <1>4, <1>5
<1>12. ASSUME status' = "open", iSendPacketLen = 0, iSendCurLen = 0
       PROVE  /\ iSendCurLen' = 0 /\ iSendPacketLen' = len
              /\ \A i \in 0 .. len - 1 : pszSendBuf'[i] = <<k, i>> \/ i \in Unwritten(len)
  <2>1. r.packet = 0 /\ r.cur = 0 /\ len <= BufSize /\ pszSendBuf' = copied
    BY <1>1, <1>2, <1>4, <1>5, <1>12
  <2> SUFFICES ASSUME NEW i \in 0 .. len - 1
               PROVE  copied[i] = <<k, i>> \/ i \in Unwritten(len)
    BY <1>2, <1>5, <2>1
  <2>2. i \in 0 .. BufSize - 1 /\ i \in r.packet .. r.packet + len - 1 /\ i - r.packet = i
    BY <1>1, <1>2, <2>1
  <2>3. copied[i] = built[i]
    <3> HIDE DEF built, copied
    <3> QED
      BY <1>8, <2>2
  <2>4. built[i] = <<k, i>> \/ i \in Unwritten(len)
    <3> HIDE DEF built
    <3> QED
      BY <1>6, <2>2
  <2> QED
    BY <2>3, <2>4
<1> QED
  BY <1>4, <1>5, <1>2, <1>10, <1>11, <1>12

(* What a send puts on the wire. *)
LEMMA SendFacts ==
    ASSUME SendInv, ProcessSend
    PROVE  \E n \in Nat :
              /\ n <= iSendPacketLen - iSendCurLen
              /\ wire' \in Seq(Byte) /\ Len(wire') = Len(wire) + n
              /\ \A j \in 1 .. Len(wire) : wire'[j] = wire[j]
              /\ \A j \in Len(wire) + 1 .. Len(wire) + n :
                    wire'[j] = pszSendBuf[iSendCurLen + (j - Len(wire)) - 1]
              /\ iSendCurLen' = IF n = iSendPacketLen - iSendCurLen THEN 0
                                ELSE iSendCurLen + n
              /\ iSendPacketLen' = IF n = iSendPacketLen - iSendCurLen THEN 0
                                   ELSE iSendPacketLen
              /\ iMask' = IF n = iSendPacketLen - iSendCurLen THEN "R" ELSE "RW"
<1> PICK left : left = iSendPacketLen - iSendCurLen
  OBVIOUS
<1>1. /\ iSendPacketLen \in Int /\ iSendCurLen \in Nat /\ left \in Nat
      /\ iSendPacketLen <= BufSize /\ BufSize \in Nat
      /\ pszSendBuf \in [0 .. BufSize - 1 -> Byte] /\ wire \in Seq(Byte)
  BY ConnectionAssumption DEF ProcessSend, SendInv, SendTypes, SendRoom
<1>2. PICK n \in Min({1, left}) .. left :
          /\ wire' = wire \o [i \in 1 .. n |-> pszSendBuf[iSendCurLen + i - 1]]
          /\ iSendCurLen' = IF n = left THEN 0 ELSE iSendCurLen + n
          /\ iSendPacketLen' = IF n = left THEN 0 ELSE iSendPacketLen
          /\ iMask' = IF n = left THEN "R" ELSE "RW"
  BY DEF ProcessSend
<1>3. n \in Nat /\ n <= left
  <2>1. Min({1, left}) \in Nat
    BY <1>1, MinOfTwo
  <2> QED
    BY <1>1, <2>1
<1>s. PICK s : s = [i \in 1 .. n |-> pszSendBuf[iSendCurLen + i - 1]]
  OBVIOUS
<1>4. s \in Seq(Byte) /\ Len(s) = n
  <2>1. \A i \in 1 .. n : iSendCurLen + i - 1 \in 0 .. BufSize - 1
    BY <1>1, <1>3
  <2>2. s \in [1 .. n -> Byte]
    BY <1>1, <1>s, <2>1
  <2> QED
    BY <1>3, <2>2, LenProperties
<1>5. /\ wire' \in Seq(Byte) /\ Len(wire') = Len(wire) + n
      /\ \A j \in 1 .. Len(wire) + n :
            wire'[j] = IF j <= Len(wire) THEN wire[j] ELSE s[j - Len(wire)]
  <2>1. wire' = wire \o s
    BY <1>2, <1>s
  <2>2. /\ wire \o s \in Seq(Byte) /\ Len(wire \o s) = Len(wire) + Len(s)
        /\ \A j \in 1 .. Len(wire) + Len(s) :
              (wire \o s)[j] = IF j <= Len(wire) THEN wire[j] ELSE s[j - Len(wire)]
    <3>1. wire \in Seq(Byte) /\ s \in Seq(Byte)
      BY <1>1, <1>4
    <3> QED
      BY <3>1, ConcatProperties, Zenon
  <2> QED
    BY <1>4, <2>1, <2>2, Zenon
<1>6. Len(wire) \in Nat
  BY <1>1
<1>7. ASSUME NEW j \in 1 .. Len(wire) PROVE wire'[j] = wire[j]
  <2>1. j \in 1 .. Len(wire) + n /\ j <= Len(wire)
    BY <1>3, <1>6
  <2> QED
    BY <1>5, <2>1, Zenon
<1>8. ASSUME NEW j \in Len(wire) + 1 .. Len(wire) + n
      PROVE  wire'[j] = pszSendBuf[iSendCurLen + (j - Len(wire)) - 1]
  <2>1. j - Len(wire) \in 1 .. n /\ j \in 1 .. Len(wire) + n /\ ~(j <= Len(wire))
    BY <1>3, <1>6
  <2>2. wire'[j] = s[j - Len(wire)]
    BY <1>5, <2>1, Zenon
  <2>m. PICK m \in 1 .. n : m = j - Len(wire)
    BY <2>1, Zenon
  <2>3. s[m] = pszSendBuf[iSendCurLen + m - 1]
    BY <1>s, Zenon
  <2> QED
    BY <2>2, <2>m, <2>3, Zenon
<1> n \in Nat
  BY <1>3
<1> WITNESS n \in Nat
<1> QED
  BY <1>2, <1>3, <1>5, <1>7, <1>8

(* A new connection has nothing to send. *)
LEMMA InitSend == Init => SendInv
BY ConnectionAssumption, EmptySeq DEF Init, SendInv, SendTypes, SendRoom, WriteArmed, Byte, Junk

(* A packet of any kind leaves the send buffer well formed, and the write   *)
(* event registered when there is a reply.                                  *)
LEMMA PacketSendInv ==
    ASSUME RecvInv, SendInv, RecvPacket
    PROVE  SendInv'
<1> PICK k \in Nat : k = done + 1
  BY PacketFacts
<1> PICK p \in Packet : p = pkts[done + 1] /\ p.len > BodyPos
  BY PacketFacts
<1>1. status = "open" /\ ProcessEntirePacket(k, p) /\ wire' = wire
  BY PacketFacts
<1>2. CASE p.kind = "echo" /\ SendBackEcho(k, p) /\ iMask' = "RW"
           /\ overlap' = IF iSendPacketLen > 0 THEN "yes" ELSE overlap
  <2>1. /\ pszSendBuf' \in [0 .. BufSize - 1 -> Byte]
        /\ iSendPacketLen' = p.len /\ iSendPacketLen' \in Nat \ {0}
        /\ UNCHANGED <<iSendCurLen, iSendTotalLen, sendAlloc>>
        /\ status' \in {"open", "overrun"}
        /\ status' = "open" => p.len <= sendAlloc
    BY <1>1, <1>2, EchoFacts
  <2> QED
    BY <1>1, <1>2, <2>1 DEF SendInv, SendTypes, SendRoom, WriteArmed
<1>3. CASE p.kind = "test" /\ ProcessTestBinProtocol(k, p) /\ iMask' = "RW"
           /\ overlap' = IF iSendPacketLen > 0 THEN "yes" ELSE overlap
  <2>1. /\ pszSendBuf' \in [0 .. BufSize - 1 -> Byte]
        /\ iSendPacketLen' \in Int /\ iSendCurLen' \in Nat
        /\ iSendTotalLen' \in Nat /\ sendAlloc' \in Nat
        /\ sendAlloc' <= BufSize /\ BufSize <= iSendTotalLen'
        /\ status' \in {"open", "overrun"}
        /\ status' = "open" => 0 < iSendPacketLen' /\ iSendPacketLen' <= sendAlloc'
    BY <1>1, <1>3, TestFacts
  <2> QED
    BY <1>1, <1>3, <2>1 DEF SendInv, SendTypes, SendRoom, WriteArmed
<1>4. CASE UNCHANGED <<sendVars, overlap, status>>
  BY <1>1, <1>4 DEF SendInv, SendTypes, SendRoom, WriteArmed, sendVars
<1> QED
  BY <1>1, <1>2, <1>3, <1>4 DEF ProcessEntirePacket

(* Every action keeps the counters of the sending side and the write event  *)
(* in step.                                                                 *)
LEMMA StepSend == RecvInv /\ SendInv /\ [Next]_vars => SendInv'
<1> SUFFICES ASSUME RecvInv, SendInv, [Next]_vars PROVE SendInv'
  OBVIOUS
<1>1. CASE \/ \E p \in Packets : ClientSends(p)
           \/ Arrive \/ ClientCloses \/ RecvHeadPart \/ RecvBodyPart \/ UNCHANGED vars
  <2>1. UNCHANGED <<sendVars, wire, overlap, status>>
    BY <1>1 DEF ClientSends, Arrive, ClientCloses, RecvHeadPart, RecvBodyPart, vars
  <2> QED
    BY <2>1 DEF SendInv, SendTypes, SendRoom, WriteArmed, sendVars
<1>2. CASE RecvHeadFails \/ RecvBadHead \/ RecvBodyFails \/ SendFails \/ TimesOut
  <2>1. /\ UNCHANGED <<sendVars, wire, overlap>>
        /\ status' \in {"endOfFile", "badHead", "bodyLate", "sendError", "timeout"}
    BY <1>2 DEF RecvHeadFails, RecvBadHead, RecvBodyFails, SendFails, TimesOut, Close
  <2> QED
    BY <2>1 DEF SendInv, SendTypes, SendRoom, WriteArmed, sendVars
<1>3. CASE RecvPacket
  BY <1>3, PacketSendInv
<1>4. CASE ProcessSend
  <2>1. UNCHANGED <<pszSendBuf, iSendTotalLen, sendAlloc, overlap, status>>
        /\ status = "open" /\ iSendPacketLen > 0
    BY <1>4 DEF ProcessSend
  <2>2. PICK n \in Nat :
            /\ wire' \in Seq(Byte)
            /\ iSendCurLen' = IF n = iSendPacketLen - iSendCurLen THEN 0 ELSE iSendCurLen + n
            /\ iSendPacketLen' = IF n = iSendPacketLen - iSendCurLen THEN 0
                                 ELSE iSendPacketLen
            /\ iMask' = IF n = iSendPacketLen - iSendCurLen THEN "R" ELSE "RW"
    BY <1>4, SendFacts
  <2> QED
    BY <2>1, <2>2 DEF SendInv, SendTypes, SendRoom, WriteArmed
<1> QED
  BY <1>1, <1>2, <1>3, <1>4 DEF Next, Recv

(* They are in step always. *)
LEMMA AlwaysSend == Spec => []SendInv
BY InitSend, StepSend, AlwaysRecv, PTL DEF Spec

(* The counters, the buffers and the streams of a connection keep their     *)
(* types: no counter becomes negative, none runs ahead of the stream, and   *)
(* the send buffer is only written inside what it had at first.             *)
THEOREM ConnectionTypeOK == Spec => []TypeOK
<1>1. RecvInv /\ SendInv => TypeOK
  BY DEF RecvInv, Stream, RecvTypes, SendInv, SendTypes, TypeOK, Packet, Byte
<1> QED
  BY <1>1, AlwaysRecv, AlwaysSend, PTL

(* The write event is registered exactly while there is something to send. *)
THEOREM WriteArmedHolds == Spec => []WriteArmed
<1>1. SendInv => WriteArmed
  BY DEF SendInv
<1> QED
  BY <1>1, AlwaysSend, PTL

(***************************************************************************)
(* The output is the replies.                                              *)
(***************************************************************************)

(* No output, and no reply due. *)
LEMMA InitIntact == Init => Intact
<1> SUFFICES ASSUME Init PROVE Intact
  OBVIOUS
<1>1. Len(wire) = 0 /\ RepliesLen(done) = 0 /\ done = 0
  BY DEF Init, RepliesLen
<1> QED
  BY <1>1 DEF Init, Intact

(* A step that touches neither the output nor the packets replied to. *)
LEMMA IntactSame ==
    ASSUME RecvInv, SendInv, Intact, UNCHANGED <<done, sendVars, wire, overlap, status>>,
           \A k \in 1 .. Len(pkts) : pkts'[k] = pkts[k]
    PROVE  Intact'
<1> SUFFICES ASSUME status = "open", overlap = "no"
             PROVE  /\ iSendCurLen <= iSendPacketLen
                    /\ Len(wire) + (iSendPacketLen - iSendCurLen) = RepliesLen(done)'
                    /\ \A k \in 1 .. done : \A i \in 0 .. ReplyLen(pkts'[k]) - 1 : InPlace(k, i)'
  BY DEF Intact, sendVars
<1>1. done \in 0 .. Len(pkts) /\ Len(pkts) \in Nat
  BY StreamFacts DEF RecvInv, RecvTypes
<1>2. \A n \in 0 .. done : RepliesLen(n)' = RepliesLen(n)
  BY <1>1 DEF RepliesLen
<1>3. RepliesLen(done)' = RepliesLen(done)
  BY <1>1 DEF RepliesLen
<1>4. ASSUME NEW k \in 1 .. done, NEW i \in 0 .. ReplyLen(pkts'[k]) - 1 PROVE InPlace(k, i)'
  <2>1. pkts'[k] = pkts[k] /\ RepliesLen(k - 1)' = RepliesLen(k - 1)
    BY <1>1, <1>2
  <2>2. InPlace(k, i)
    BY <2>1 DEF Intact
  <2>3. \A j : OutputAt(j)' = OutputAt(j)
    BY DEF OutputAt, sendVars
  <2> QED
    BY <2>1, <2>2, <2>3 DEF InPlace
<1> QED
  BY <1>3, <1>4 DEF Intact

(* A byte of the reply to a processed packet is one of the output's. *)
LEMMA InReplies ==
    ASSUME Stream, done \in 0 .. Len(pkts), NEW k \in 1 .. done,
           NEW i \in 0 .. ReplyLen(pkts[k]) - 1
    PROVE  RepliesLen(k - 1) + i + 1 \in 1 .. RepliesLen(done)
<1>1. Len(pkts) \in Nat /\ k \in 1 .. Len(pkts) /\ k - 1 \in 0 .. Len(pkts) /\ k \in 0 .. Len(pkts)
  BY StreamFacts
<1>2. /\ RepliesLen(k - 1) \in Nat /\ RepliesLen(k) \in Nat /\ RepliesLen(done) \in Nat
      /\ ReplyLen(pkts[k]) \in Nat
  BY <1>1, StreamFacts
<1>3. RepliesLen(k) = RepliesLen(k - 1) + ReplyLen(pkts[k])
  BY <1>1 DEF Stream, RepliesLen
<1>4. RepliesLen(k) <= RepliesLen(done)
  <2>1. CASE k = done
    BY <1>2, <2>1
  <2>2. CASE k < done
    BY <1>1, <2>2 DEF Stream
  <2> QED
    BY <1>1, <2>1, <2>2
<1> QED
  BY <1>2, <1>3, <1>4

(* A send moves bytes from the buffer to the wire and keeps their order. *)
LEMMA IntactSend ==
    ASSUME RecvInv, SendInv, Intact, ProcessSend
    PROVE  Intact'
<1>1. /\ UNCHANGED <<pkts, done, pszSendBuf, overlap, status>>
      /\ status = "open" /\ iSendPacketLen > 0
  BY DEF ProcessSend, clientVars, recvVars
<1>2. SUFFICES ASSUME overlap = "no" PROVE Intact'
  BY <1>1 DEF Intact
<1>3. PICK n \in Nat :
          /\ n <= iSendPacketLen - iSendCurLen
          /\ wire' \in Seq(Byte) /\ Len(wire') = Len(wire) + n
          /\ \A j \in 1 .. Len(wire) : wire'[j] = wire[j]
          /\ \A j \in Len(wire) + 1 .. Len(wire) + n :
                wire'[j] = pszSendBuf[iSendCurLen + (j - Len(wire)) - 1]
          /\ iSendCurLen' = IF n = iSendPacketLen - iSendCurLen THEN 0 ELSE iSendCurLen + n
          /\ iSendPacketLen' = IF n = iSendPacketLen - iSendCurLen THEN 0 ELSE iSendPacketLen
  BY SendFacts
<1>4. /\ iSendCurLen \in Nat /\ iSendPacketLen \in Nat /\ Len(wire) \in Nat
      /\ iSendCurLen <= iSendPacketLen
      /\ Len(wire) + (iSendPacketLen - iSendCurLen) = RepliesLen(done)
      /\ \A k \in 1 .. done : \A i \in 0 .. ReplyLen(pkts[k]) - 1 : InPlace(k, i)
  BY <1>1, <1>2 DEF Intact, SendInv, SendTypes
<1>5. \A m : RepliesLen(m)' = RepliesLen(m)
  BY <1>1 DEF RepliesLen
<1>6. RepliesLen(done)' = RepliesLen(done)
  BY <1>1 DEF RepliesLen
<1>7. ASSUME NEW j \in 1 .. RepliesLen(done) PROVE OutputAt(j)' = OutputAt(j)
  <2>1. CASE j <= Len(wire)
    BY <1>3, <1>4, <2>1 DEF OutputAt
  <2>2. CASE j \in Len(wire) + 1 .. Len(wire) + n
    <3>1. ~(j <= Len(wire)) /\ j <= Len(wire')
      BY <1>3, <1>4, <2>2
    <3> QED
      BY <1>3, <2>2, <3>1 DEF OutputAt
  <2>3. CASE j > Len(wire) + n
    <3>1. n # iSendPacketLen - iSendCurLen /\ iSendCurLen' = iSendCurLen + n
      BY <1>3, <1>4, <2>3
    <3>2. /\ iSendCurLen' + (j - Len(wire')) - 1 = iSendCurLen + (j - Len(wire)) - 1
          /\ ~(j <= Len(wire)) /\ ~(j <= Len(wire'))
      BY <1>3, <1>4, <2>3, <3>1
    <3> QED
      BY <1>1, <3>2 DEF OutputAt
  <2> QED
    BY <1>4, <2>1, <2>2, <2>3
<1>8. ASSUME NEW k \in 1 .. done, NEW i \in 0 .. ReplyLen(pkts[k]) - 1 PROVE InPlace(k, i)'
  <2>1. RepliesLen(k - 1) + i + 1 \in 1 .. RepliesLen(done)
    BY InReplies DEF RecvInv, RecvTypes
  <2>2. OutputAt(RepliesLen(k - 1) + i + 1)' = OutputAt(RepliesLen(k - 1) + i + 1)
    BY <1>5, <1>7, <2>1
  <2> QED
    BY <1>1, <1>4, <1>5, <2>2 DEF InPlace
<1>9. /\ iSendCurLen' <= iSendPacketLen'
      /\ Len(wire') + (iSendPacketLen' - iSendCurLen') = RepliesLen(done)'
  <2>1. CASE n = iSendPacketLen - iSendCurLen
    <3>1. iSendCurLen' = 0 /\ iSendPacketLen' = 0 /\ Len(wire') = Len(wire) + n
      BY <1>3, <2>1
    <3> QED
      BY <1>4, <1>6, <2>1, <3>1
  <2>2. CASE n # iSendPacketLen - iSendCurLen
    <3>1. /\ iSendCurLen' = iSendCurLen + n /\ iSendPacketLen' = iSendPacketLen
          /\ Len(wire') = Len(wire) + n /\ n <= iSendPacketLen - iSendCurLen
      BY <1>3, <2>2
    <3> QED
      BY <1>4, <1>6, <3>1
  <2> QED
    BY <2>1, <2>2
<1> QED
  BY <1>1, <1>8, <1>9 DEF Intact

(* A reply made while none waits starts where the output ended. *)
LEMMA IntactPacket ==
    ASSUME RecvInv, SendInv, Intact, RecvPacket
    PROVE  Intact'
<1> PICK d \in Nat : d = done
  BY PacketFacts
<1> PICK p \in Packet : p = pkts[d + 1] /\ p.len > BodyPos /\ ReplyLen(p) \in Nat
  BY PacketFacts
<1>1. /\ status = "open" /\ d + 1 \in 1 .. Len(pkts) /\ ProcessEntirePacket(d + 1, p)
      /\ done' = d + 1 /\ pkts' = pkts /\ wire' = wire
  BY PacketFacts
<1>2. SUFFICES ASSUME status' = "open", overlap' = "no" PROVE Intact'
  BY DEF Intact
<1>3. \A m : RepliesLen(m)' = RepliesLen(m)
  BY <1>1 DEF RepliesLen
<1>4. RepliesLen(d + 1) = RepliesLen(d) + ReplyLen(p) /\ RepliesLen(d) \in Nat
  <2>1. d \in 0 .. Len(pkts) /\ d + 1 \in 0 .. Len(pkts)
    BY <1>1, StreamFacts DEF RecvInv
  <2>2. p.out = RepliesLen(d)
    BY <1>1 DEF RecvInv, Stream
  <2> QED
    BY <2>1, <2>2, StreamFacts DEF RepliesLen, RecvInv
<1>5. /\ iSendPacketLen \in Int /\ iSendCurLen \in Nat /\ Len(wire) \in Nat
  BY DEF SendInv, SendTypes
<1>6. overlap = "no" /\ (p.kind \in {"echo", "test"} => iSendPacketLen <= 0)
  BY <1>1, <1>2, <1>5 DEF ProcessEntirePacket, EndsInEot
<1>7. /\ iSendCurLen <= iSendPacketLen
      /\ Len(wire) + (iSendPacketLen - iSendCurLen) = RepliesLen(d)
      /\ \A k \in 1 .. d : \A i \in 0 .. ReplyLen(pkts[k]) - 1 : InPlace(k, i)
  BY <1>1, <1>6 DEF Intact
<1>8. CASE p.kind \in {"echo", "test"}
  <2>1. iSendPacketLen = 0 /\ iSendCurLen = 0 /\ Len(wire) = RepliesLen(d)
    BY <1>5, <1>6, <1>7, <1>8
  <2>2. /\ iSendCurLen' = 0 /\ iSendPacketLen' = ReplyLen(p)
        /\ \A i \in 0 .. ReplyLen(p) - 1 :
              \/ pszSendBuf'[i] = <<d + 1, i>>
              \/ p.kind = "test" /\ i \in Unwritten(ReplyLen(p))
    <3>1. CASE p.kind = "echo"
      <4>1. SendBackEcho(d + 1, p)
        BY <1>1, <3>1 DEF ProcessEntirePacket, EndsInEot
      <4>2. ReplyLen(p) = p.len
        BY <3>1 DEF ReplyLen
      <4>3. d + 1 \in Nat
        OBVIOUS
      <4>4. /\ iSendCurLen' = iSendCurLen /\ iSendPacketLen' = p.len
            /\ \A i \in 0 .. p.len - 1 : pszSendBuf'[i] = <<d + 1, i>>
        BY <1>1, <1>2, <4>1, <4>3, EchoFacts
      <4> QED
        BY <2>1, <4>2, <4>4
    <3>2. CASE p.kind = "test"
      <4>1. ProcessTestBinProtocol(d + 1, p)
        BY <1>1, <3>2 DEF ProcessEntirePacket, EndsInEot
      <4>2. d + 1 \in Nat
        OBVIOUS
      <4>3. /\ iSendCurLen' = 0 /\ iSendPacketLen' = ReplyLen(p)
            /\ \A i \in 0 .. ReplyLen(p) - 1 :
                  pszSendBuf'[i] = <<d + 1, i>> \/ i \in Unwritten(ReplyLen(p))
        BY <1>1, <1>2, <2>1, <3>2, <4>1, <4>2, TestFacts, Zenon
      <4> QED
        BY <3>2, <4>3
    <3> QED
      BY <1>8, <3>1, <3>2
  <2>3. ASSUME NEW k \in 1 .. d + 1, NEW i \in 0 .. ReplyLen(pkts[k]) - 1
        PROVE  InPlace(k, i)'
    <3>1. CASE k \in 1 .. d
      <4>1. RepliesLen(k - 1) + i + 1 \in 1 .. RepliesLen(done)
        BY <3>1, InReplies DEF RecvInv, RecvTypes
      <4>2. OutputAt(RepliesLen(k - 1) + i + 1)' = OutputAt(RepliesLen(k - 1) + i + 1)
        BY <1>1, <1>3, <2>1, <4>1 DEF OutputAt
      <4> QED
        BY <1>1, <1>3, <1>7, <3>1, <4>2 DEF InPlace
    <3>2. CASE k = d + 1
      <4>1. k - 1 = d /\ i \in Nat /\ i \in 0 .. ReplyLen(p) - 1 /\ pkts[k] = p
        BY <3>2
      <4>2. OutputAt(RepliesLen(k - 1) + i + 1)' = pszSendBuf'[i]
        <5> PICK j : j = RepliesLen(d) + i + 1
          OBVIOUS
        <5>1. OutputAt(j)' = pszSendBuf'[i]
          <6>1. wire' = wire /\ iSendCurLen' = 0
            BY <1>1, <2>2
          <6>2. ~(j <= Len(wire')) /\ iSendCurLen' + (j - Len(wire')) - 1 = i
            <7>1. Len(wire) \in Nat /\ i \in Nat /\ j = Len(wire) + i + 1
              BY <1>5, <2>1, <4>1
            <7>2. ~(j <= Len(wire)) /\ 0 + (j - Len(wire)) - 1 = i
              BY <7>1
            <7> QED
              BY <6>1, <7>2
          <6> QED
            BY <6>2 DEF OutputAt
        <5>2. RepliesLen(k - 1)' + i + 1 = j
          BY <1>3, <4>1
        <5> QED
          BY <5>1, <5>2
      <4> QED
        BY <1>1, <2>2, <3>2, <4>1, <4>2 DEF InPlace
    <3> QED
      BY <3>1, <3>2
  <2>4. RepliesLen(done)' = RepliesLen(d + 1)
    BY <1>1 DEF RepliesLen
  <2> QED
    BY <1>1, <1>4, <2>1, <2>2, <2>3, <2>4 DEF Intact
<1>9. CASE p.kind \notin {"echo", "test"}
  <2>1. UNCHANGED <<sendVars, overlap, status>>
    BY <1>1, <1>9 DEF ProcessEntirePacket
  <2>2. ReplyLen(p) = 0
    BY <1>9 DEF ReplyLen
  <2>3. \A j : OutputAt(j)' = OutputAt(j)
    BY <1>1, <2>1 DEF OutputAt, sendVars
  <2>4. RepliesLen(done)' = RepliesLen(d)
    BY <1>1, <1>4, <2>2 DEF RepliesLen
  <2>5. ASSUME NEW k \in 1 .. d + 1, NEW i \in 0 .. ReplyLen(pkts[k]) - 1
        PROVE  InPlace(k, i)'
    <3>1. k \in 1 .. d
      BY <2>2
    <3> QED
      BY <1>1, <1>3, <1>7, <2>3, <3>1 DEF InPlace
  <2> QED
    BY <1>1, <1>7, <2>1, <2>4, <2>5 DEF Intact, sendVars
<1> QED
  BY <1>8, <1>9

(* Every action keeps the output what the replies are. *)
LEMMA StepIntact == RecvInv /\ SendInv /\ Intact /\ [Next]_vars => Intact'
<1> SUFFICES ASSUME RecvInv, SendInv, Intact, [Next]_vars PROVE Intact'
  OBVIOUS
<1>1. ASSUME NEW p \in Packets, ClientSends(p) PROVE Intact'
  <2>1. UNCHANGED <<done, sendVars, wire, overlap, status>>
    BY <1>1 DEF ClientSends, recvVars
  <2>2. \A k \in 1 .. Len(pkts) : pkts'[k] = pkts[k]
    BY <1>1, AppendStream DEF RecvInv
  <2> QED
    BY <2>1, <2>2, IntactSame
<1>2. CASE Arrive \/ ClientCloses \/ RecvHeadPart \/ RecvBodyPart \/ UNCHANGED vars
  <2>1. UNCHANGED <<pkts, done, sendVars, wire, overlap, status>>
    BY <1>2
    DEF Arrive, ClientCloses, RecvHeadPart, RecvBodyPart, vars, recvVars, clientVars
  <2> QED
    BY <2>1, IntactSame
<1>3. CASE RecvHeadFails \/ RecvBadHead \/ RecvBodyFails \/ SendFails \/ TimesOut
  <2>1. status' # "open"
    BY <1>3 DEF RecvHeadFails, RecvBadHead, RecvBodyFails, SendFails, TimesOut, Close
  <2> QED
    BY <2>1 DEF Intact
<1>4. CASE RecvPacket
  BY <1>4, IntactPacket
<1>5. CASE ProcessSend
  BY <1>5, IntactSend
<1> QED
  BY <1>1, <1>2, <1>3, <1>4, <1>5 DEF Next, Recv

(* The output and its bytes, in terms of the buffer. *)
LEMMA OutputFacts ==
    ASSUME SendInv, status = "open", iSendCurLen <= iSendPacketLen
    PROVE  /\ Len(Output) = Len(wire) + (iSendPacketLen - iSendCurLen)
           /\ \A j \in 1 .. Len(Output) : Output[j] = OutputAt(j)
<1> PICK m : m = iSendPacketLen - iSendCurLen
  OBVIOUS
<1>1. /\ iSendPacketLen \in Int /\ iSendCurLen \in Nat /\ m \in Nat
      /\ iSendPacketLen <= BufSize /\ BufSize \in Nat
      /\ pszSendBuf \in [0 .. BufSize - 1 -> Byte] /\ wire \in Seq(Byte)
      /\ Len(wire) \in Nat
  BY ConnectionAssumption DEF SendInv, SendTypes, SendRoom
<1>s. PICK s : s = [i \in 1 .. m |-> pszSendBuf[iSendCurLen + i - 1]]
  OBVIOUS
<1>2. s \in Seq(Byte) /\ Len(s) = m
  <2>1. \A i \in 1 .. m : iSendCurLen + i - 1 \in 0 .. BufSize - 1
    BY <1>1
  <2>2. s \in [1 .. m -> Byte]
    BY <1>1, <1>s, <2>1
  <2> QED
    BY <1>1, <2>2, LenProperties
<1>3. Output = wire \o s
  BY <1>s DEF Output
<1>w. wire \in Seq(Byte) /\ s \in Seq(Byte)
  BY <1>1, <1>2
<1>4. /\ Len(wire \o s) = Len(wire) + Len(s)
      /\ \A j \in 1 .. Len(wire) + Len(s) :
            (wire \o s)[j] = IF j <= Len(wire) THEN wire[j] ELSE s[j - Len(wire)]
  BY <1>w, ConcatProperties, Zenon
<1>5. Len(Output) = Len(wire) + m
  BY <1>2, <1>3, <1>4, Zenon
<1>6. ASSUME NEW j \in 1 .. Len(wire) + m PROVE Output[j] = OutputAt(j)
  <2>1. Output[j] = IF j <= Len(wire) THEN wire[j] ELSE s[j - Len(wire)]
    BY <1>2, <1>3, <1>4, Zenon
  <2>2. CASE j <= Len(wire)
    BY <2>1, <2>2 DEF OutputAt
  <2>3. CASE ~(j <= Len(wire))
    <3>1. j - Len(wire) \in 1 .. m
      BY <1>1, <2>3
    <3> QED
      BY <1>s, <2>1, <2>3, <3>1 DEF OutputAt
  <2> QED
    BY <2>2, <2>3
<1> QED
  BY <1>5, <1>6

(* Every byte of the replies to the processed packets belongs to one of     *)
(* them.                                                                    *)
LEMMA ReplyByteIs ==
    ASSUME RecvInv, NEW j \in 1 .. RepliesLen(done)
    PROVE  \E k \in 1 .. done : \E i \in 0 .. ReplyLen(pkts[k]) - 1 :
              ReplyByte(j) = <<k, i>> /\ j = RepliesLen(k - 1) + i + 1
<1>1. /\ Len(pkts) \in Nat /\ done \in 0 .. Len(pkts)
      /\ \A n \in 0 .. Len(pkts) : RepliesLen(n) \in Nat
  BY StreamFacts DEF RecvInv, RecvTypes
<1> DEFINE S == {n \in 0 .. Len(pkts) : j <= RepliesLen(n)}
           Of(n) == RepliesLen(n - 1) < j /\ j <= RepliesLen(n)
<1>2. S \subseteq Nat /\ done \in S
  BY <1>1
<1>3. Min(S) \in S /\ \A n \in S : Min(S) <= n
  BY <1>2, MinNat
<1>4. Min(S) \in 1 .. Len(pkts) /\ Of(Min(S))
  <2>1. Min(S) # 0
    BY <1>1, <1>3 DEF RepliesLen
  <2>2. Min(S) - 1 \in 0 .. Len(pkts) /\ Min(S) - 1 \notin S
    BY <1>1, <1>3, <2>1
  <2> QED
    BY <1>1, <1>3, <2>1, <2>2
<1> PICK k : k = CHOOSE n \in 1 .. Len(pkts) : Of(n)
  OBVIOUS
<1> HIDE DEF S
<1>5. k \in 1 .. Len(pkts) /\ Of(k)
  BY <1>4
<1>6. ReplyByte(j) = <<k, j - 1 - RepliesLen(k - 1)>>
  BY DEF ReplyByte
<1>7. k - 1 \in 0 .. Len(pkts) /\ RepliesLen(k - 1) \in Nat /\ RepliesLen(done) \in Nat
  BY <1>1, <1>5
<1>8. k \in 1 .. done
  <2>1. ~(done < k - 1)
    BY <1>1, <1>5, <1>7 DEF RecvInv, Stream
  <2>2. done # k - 1
    BY <1>5, <1>7
  <2> QED
    BY <1>1, <1>5, <2>1, <2>2
<1>9. RepliesLen(k) = RepliesLen(k - 1) + ReplyLen(pkts[k]) /\ ReplyLen(pkts[k]) \in Nat
  <2>1. ReplyLen(pkts[k]) \in Nat
    BY <1>5, StreamFacts DEF RecvInv
  <2>2. pkts[k].out = RepliesLen(k - 1)
    BY <1>5 DEF RecvInv, Stream
  <2>3. RepliesLen(k) = pkts[k].out + ReplyLen(pkts[k])
    BY <1>5 DEF RepliesLen
  <2> QED
    BY <2>1, <2>2, <2>3
<1>10. /\ j - 1 - RepliesLen(k - 1) \in 0 .. ReplyLen(pkts[k]) - 1
       /\ j = RepliesLen(k - 1) + (j - 1 - RepliesLen(k - 1)) + 1
  BY <1>5, <1>7, <1>9
<1> QED
  BY <1>6, <1>8, <1>10

(* However the stream and the sends are cut, the output is the replies to   *)
(* the processed packets, whole, once and in order, while no reply is made  *)
(* over another that still waits.                                           *)
THEOREM StreamIntactHolds == Spec => []StreamIntact
<1>1. RecvInv /\ SendInv /\ Intact => StreamIntact
  <2> SUFFICES ASSUME RecvInv, SendInv, Intact, status = "open", overlap = "no"
               PROVE  OutputIsReplies
    BY DEF StreamIntact
  <2>1. /\ iSendCurLen <= iSendPacketLen
        /\ Len(wire) + (iSendPacketLen - iSendCurLen) = RepliesLen(done)
        /\ \A k \in 1 .. done : \A i \in 0 .. ReplyLen(pkts[k]) - 1 : InPlace(k, i)
    BY DEF Intact
  <2>2. Len(Output) = RepliesLen(done) /\ \A j \in 1 .. Len(Output) : Output[j] = OutputAt(j)
    BY <2>1, OutputFacts
  <2>3. ASSUME NEW j \in 1 .. Len(Output)
        PROVE  Output[j] = ReplyByte(j) \/ IsUnwritten(ReplyByte(j))
    <3>0. PICK k \in 1 .. done : \E i \in 0 .. ReplyLen(pkts[k]) - 1 :
              ReplyByte(j) = <<k, i>> /\ j = RepliesLen(k - 1) + i + 1
      BY <2>2, ReplyByteIs
    <3>1. PICK i \in 0 .. ReplyLen(pkts[k]) - 1 :
              ReplyByte(j) = <<k, i>> /\ j = RepliesLen(k - 1) + i + 1
      BY <3>0
    <3>2. InPlace(k, i)
      BY <2>1
    <3>3. IsUnwritten(ReplyByte(j)) <=>
              pkts[k].kind = "test" /\ i \in Unwritten(ReplyLen(pkts[k]))
      BY <3>1 DEF IsUnwritten
    <3> QED
      BY <2>2, <3>1, <3>2, <3>3 DEF InPlace
  <2> QED
    BY <2>2, <2>3 DEF OutputIsReplies
<1>2. Spec => []Intact
  BY InitIntact, StepIntact, AlwaysRecv, AlwaysSend, PTL DEF Spec
<1> QED
  BY <1>1, <1>2, AlwaysRecv, AlwaysSend, PTL
=============================================================================
