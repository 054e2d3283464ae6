----------------------------- MODULE Connection -----------------------------
(***************************************************************************)
(* The bytes of one connection: ProcessRecvCallback, ProcessSendCallback    *)
(* and the buffers of src/src/socket_util.c, the packets and replies of     *)
(* src/src/bin_proto.c, PynServerRecvData and PynServerSendData of          *)
(* src/src/socket_api.c.                                                    *)
(*                                                                          *)
(* A packet is SOH, length, command, body, EOT; its lengths are scaled      *)
(* down, its contents are the name of the request it belongs to.  A byte of *)
(* a reply is <<k, i>>: offset i of the reply to the client's k-th packet.  *)
(***************************************************************************)
EXTENDS Integers, Sequences, FiniteSetsExt

CONSTANTS HeadLen,     \* PACKET_HEAD_LEN
          CmdPos,      \* PACKET_CMD_POS
          BodyPos,     \* PACKET_BODY_POS
          Chunk,       \* bytes of body read in one callback (4096)
          Pad,         \* what a test reply has more than its request (128)
          BufSize,     \* MAX_TCP_BUF_SIZE
          SizeofInt,   \* what ResizeSendBufferPtr really allocates
          Packets,     \* the packets clients send: [kind, len]
          MaxPackets,  \* bound: packets of one client
          MaxOutstanding \* replies a client may be waiting for when it sends

(* Packets to be echoed, test packets, other commands, and malformed ones. *)
Kinds == {"echo", "test", "other", "badEot", "badHead"}

ASSUME ConnectionAssumption ==
    /\ HeadLen \in Nat \ {0} /\ CmdPos \in Nat /\ BodyPos \in Nat
    /\ HeadLen <= CmdPos /\ CmdPos < BodyPos /\ HeadLen <= BufSize
    /\ Chunk \in Nat \ {0} /\ Pad \in Nat \ {0, 1}
    /\ BufSize \in Nat /\ SizeofInt \in 0 .. BufSize
    /\ Packets \subseteq [kind : Kinds, len : Nat]
    /\ \A p \in Packets : p.len > BodyPos
    /\ MaxPackets \in Nat /\ MaxOutstanding \in Nat \ {0}

VARIABLES pkts,           \* what the client sent: sequence of [kind, len, start, out];
                          \* out: bytes of reply to the packets before it
          arrived,        \* bytes of it the kernel has received
          fin,            \* "no", or "yes" after the client's last byte
          readTotal,      \* bytes the server has read
          iRecvCurLen,
          iPacketLen,
          iRecvTotalLen,
          done,           \* packets processed
          pszSendBuf,
          iSendPacketLen,
          iSendCurLen,
          iSendTotalLen,
          sendAlloc,      \* bytes pszSendBuf really has
          iMask,          \* EVENT_WRITABLE in iMask: "R" or "RW"
          wire,           \* bytes the client was sent
          overlap,        \* "yes" once a reply was made while another waited
          status          \* "open", or why the connection is no more

clientVars == <<pkts, arrived, fin>>
recvVars == <<readTotal, iRecvCurLen, iPacketLen, iRecvTotalLen, done>>
sendVars == <<pszSendBuf, iSendPacketLen, iSendCurLen, iSendTotalLen, sendAlloc, iMask>>
vars == <<clientVars, recvVars, sendVars, wire, overlap, status>>

Junk == <<0, 0>>

(* __CreateNewConn. *)
Init ==
    /\ pkts = <<>> /\ arrived = 0 /\ fin = "no"
    /\ readTotal = 0 /\ iRecvCurLen = 0 /\ iPacketLen = 0 /\ done = 0
    /\ iRecvTotalLen = BufSize
    /\ pszSendBuf = [i \in 0 .. BufSize - 1 |-> Junk]
    /\ iSendPacketLen = 0 /\ iSendCurLen = 0
    /\ iSendTotalLen = BufSize /\ sendAlloc = BufSize
    /\ iMask = "R" /\ wire = <<>> /\ overlap = "no"
    /\ status = "open"

(***************************************************************************)
(* The client.                                                             *)
(***************************************************************************)

StreamLen == IF pkts = <<>> THEN 0
             ELSE pkts[Len(pkts)].start + pkts[Len(pkts)].len

(* Length of the reply to packet p; 0 when there is none. *)
ReplyLen(p) == CASE p.kind = "echo" -> p.len
                 [] p.kind = "test" -> p.len + Pad
                 [] OTHER -> 0

(* Bytes of reply to the first n packets. *)
RepliesLen(n) == IF n = 0 THEN 0 ELSE pkts[n].out + ReplyLen(pkts[n])

(* Packets whose reply the client has not seen the end of. *)
Outstanding == {k \in 1 .. Len(pkts) : ReplyLen(pkts[k]) > 0 /\ Len(wire) < RepliesLen(k)}

ClientSends(p) ==
    /\ status = "open" /\ fin = "no" /\ Len(pkts) < MaxPackets
    /\ Cardinality(Outstanding) < MaxOutstanding
    /\ pkts' = Append(pkts, [kind |-> p.kind, len |-> p.len,
                             start |-> StreamLen, out |-> RepliesLen(Len(pkts))])
    /\ UNCHANGED <<arrived, fin, recvVars, sendVars, wire, overlap, status>>

(* TCP delivers the stream in pieces of any size. *)
Arrive ==
    /\ status = "open"
    /\ \E n \in arrived + 1 .. StreamLen : arrived' = n
    /\ UNCHANGED <<pkts, fin, recvVars, sendVars, wire, overlap, status>>

ClientCloses ==
    /\ status = "open" /\ fin = "no" /\ arrived = StreamLen
    /\ fin' = "yes"
    /\ UNCHANGED <<pkts, arrived, recvVars, sendVars, wire, overlap, status>>

(***************************************************************************)
(* Receiving.                                                              *)
(***************************************************************************)

(* Mutant: the bytes asked for are taken to be there. *)
RecvData_Assumed(need, avail) == need

(* PynServerRecvData: what it returns for need bytes when avail are there:  *)
(* all of them, 0 at the end of file even after some bytes, otherwise what  *)
(* there is, which may be 0.                                                *)
RecvData(need, avail) ==
    IF avail >= need THEN need ELSE IF fin = "yes" THEN 0 ELSE avail

(* The head that is read, or completed, by this callback. *)
InHead  == iRecvCurLen < HeadLen
HeadGot == IF InHead THEN RecvData(HeadLen - iRecvCurLen, arrived - readTotal) ELSE 0
CurLen  == iRecvCurLen + HeadGot

(* The packet that starts where the server takes a packet to start. *)
Heads == {k \in 1 .. Len(pkts) : pkts[k].start = readTotal - iRecvCurLen}
Incoming == CHOOSE k \in Heads : TRUE
HeadValid == Heads # {} /\ pkts[Incoming].kind # "badHead"
Length == IF InHead THEN pkts[Incoming].len ELSE iPacketLen

(* Mutant: the buffer does not grow. *)
RecvGrown_Not(len) == iRecvTotalLen

(* ResizeRecvBufferPtr: doubled until len bytes fit. *)
RecvGrown(len) == Min({n \in {iRecvTotalLen * 2^e : e \in 0 .. len} : n >= len})

(* The callback gets to the body, wants and gets some of it. *)
AtBody   == CurLen >= HeadLen /\ (InHead => HeadValid)
BodyWant == Min({Length - CurLen, Chunk})
BodyGot  == RecvData(BodyWant, arrived - readTotal - HeadGot)

(* The read event of an open connection. *)
ReadEvent == status = "open" /\ (arrived > readTotal \/ fin = "yes")

(* __DestroyConn. *)
Close(why) ==
    /\ status' = why
    /\ UNCHANGED <<clientVars, recvVars, sendVars, wire, overlap>>

RecvHeadFails ==
    /\ ReadEvent /\ InHead /\ HeadGot = 0
    /\ Close("endOfFile")

RecvHeadPart ==
    /\ ReadEvent /\ HeadGot > 0 /\ CurLen < HeadLen
    /\ iRecvCurLen' = CurLen
    /\ readTotal' = readTotal + HeadGot
    /\ UNCHANGED <<clientVars, iPacketLen, iRecvTotalLen, done, sendVars, wire, overlap, status>>

RecvBadHead ==
    /\ ReadEvent /\ InHead /\ CurLen = HeadLen /\ ~HeadValid
    /\ Close("badHead")

(* The body is read in the same callback as the head: 0 closes the          *)
(* connection, also when the body is only late.                             *)
RecvBodyFails ==
    /\ ReadEvent /\ AtBody /\ BodyGot = 0
    /\ Close(IF fin = "yes" THEN "endOfFile" ELSE "bodyLate")

(* The buffer and the counters after some of the body. *)
BodyRead ==
    /\ readTotal' = readTotal + HeadGot + BodyGot
    /\ iRecvTotalLen' = IF InHead THEN RecvGrown(Length) ELSE iRecvTotalLen

RecvBodyPart ==
    /\ ReadEvent /\ AtBody /\ BodyGot > 0 /\ CurLen + BodyGot < Length
    /\ BodyRead
    /\ iRecvCurLen' = CurLen + BodyGot
    /\ iPacketLen' = Length
    /\ UNCHANGED <<clientVars, done, sendVars, wire, overlap, status>>

(***************************************************************************)
(* Replies.                                                                *)
(***************************************************************************)

(* buf with bytes f(0), ..., f(n - 1) at position at. *)
Write(buf, at, n, f(_)) ==
    [i \in DOMAIN buf |-> IF i \in at .. at + n - 1 THEN f(i - at) ELSE buf[i]]

(* SendBackEcho: the packet at the start of the send buffer, whatever is    *)
(* there, and without a look at its size. *)
SendBackEcho(k, p) ==
    /\ pszSendBuf' = Write(pszSendBuf, 0, p.len, LAMBDA i : <<k, i>>)
    /\ iSendPacketLen' = p.len
    /\ status' = IF p.len > sendAlloc THEN "overrun" ELSE "open"
    /\ UNCHANGED <<iSendCurLen, iSendTotalLen, sendAlloc>>

(* ResizeSendBufferPtr for need bytes: there is room, there is room once    *)
(* the sent part is dropped, or a new buffer, of SizeofInt bytes, is made.  *)
Resized(need) ==
    LET unsent == iSendPacketLen - iSendCurLen
        moved  == Write(pszSendBuf, 0, unsent, LAMBDA i : pszSendBuf[iSendCurLen + i])
    IN  IF iSendTotalLen - iSendPacketLen >= need
        THEN [buf |-> pszSendBuf, packet |-> iSendPacketLen, cur |-> iSendCurLen,
              total |-> iSendTotalLen, alloc |-> sendAlloc]
        ELSE IF iSendTotalLen - iSendPacketLen + iSendCurLen > need
        THEN [buf |-> moved, packet |-> unsent, cur |-> 0,
              total |-> iSendTotalLen, alloc |-> sendAlloc]
        ELSE [buf |-> moved, packet |-> unsent, cur |-> 0,
              total |-> Min({n \in {iSendTotalLen * 2^e : e \in 0 .. need} :
                                n - iSendPacketLen >= need}),
              alloc |-> SizeofInt]

(* GetDataSize of the request and the padding: the room asked for a test    *)
(* reply leaves out its head and its EOT.                                   *)
RoomAskedFor(p) == p.len - BodyPos - 1 + Pad

(* AddAllData2Packet starts its filling one byte too early: the last byte   *)
(* of the body is never written.                                            *)
LastOfBody(len) == len - 2

(* Offsets of a test reply that are never written; SetPacketCmd writes the  *)
(* command somewhere else.                                                  *)
Unwritten(len) == {CmdPos, LastOfBody(len)}

(* The test reply to packet k, built in buf from position at on.  For a body *)
(* longer than its literals AddAllData2Packet also reads past the second of *)
(* them; that, and the command written elsewhere, are taken as defined: the *)
(* values of bytes are left out.                                            *)
PackReply(buf, at, k, len) ==
    Write(buf, at, len, LAMBDA i : IF i \in Unwritten(len) THEN buf[at + i]
                                   ELSE <<k, i>>)

(* AppendPktToBuff of no buffer: len bytes from the start of the send       *)
(* buffer are copied to position at, over the reply that was built there.   *)
AppendFromStart(buf, at, len) == Write(buf, at, len, LAMBDA i : buf[i])

(* ProcessTestBinProtocol: room, a reply behind what is pending, append. *)
ProcessTestBinProtocol(k, p) ==
    LET len  == ReplyLen(p)
        r    == Resized(RoomAskedFor(p))
        fits == 0 <= r.packet /\ r.packet + len <= r.alloc
    IN  /\ pszSendBuf' =
              IF fits THEN AppendFromStart(PackReply(r.buf, r.packet, k, len),
                                           r.packet, len)
              ELSE pszSendBuf
        /\ iSendPacketLen' = r.packet + len
        /\ iSendCurLen' = r.cur
        /\ iSendTotalLen' = r.total /\ sendAlloc' = r.alloc
        /\ status' = IF fits THEN "open" ELSE "overrun"

(* String2PacketPack takes a packet only with an EOT at its end. *)
EndsInEot(p) == p.kind # "badEot"

(* Mutant: a reply is made and no write event registered for it. *)
ProcessEntirePacket_NoEvent(k, p) ==
    \/ /\ \/ p.kind = "echo" /\ SendBackEcho(k, p)
          \/ p.kind = "test" /\ ProcessTestBinProtocol(k, p)
       /\ UNCHANGED <<iMask, overlap>>
    \/ p.kind \in {"other", "badEot"} /\ UNCHANGED <<sendVars, overlap, status>>

(* ProcessEntirePacket: by command; a packet without EOT, or with another   *)
(* command, is dropped.  EventAdd of the write event goes with a reply.     *)
ProcessEntirePacket(k, p) ==
    \/ /\ \/ p.kind = "echo" /\ SendBackEcho(k, p)
          \/ p.kind = "test" /\ ProcessTestBinProtocol(k, p)
       /\ iMask' = "RW"
       /\ overlap' = IF iSendPacketLen > 0 THEN "yes" ELSE overlap
    \/ /\ p.kind = "other" \/ ~EndsInEot(p)
       /\ UNCHANGED <<sendVars, overlap, status>>

(* Mutant: the receive counter is not reset after a packet. *)
RecvPacket_NoReset ==
    /\ ReadEvent /\ AtBody /\ BodyGot > 0 /\ CurLen + BodyGot = Length
    /\ BodyRead
    /\ iRecvCurLen' = Length /\ iPacketLen' = 0
    /\ done' = done + 1
    /\ ProcessEntirePacket(Incoming, pkts[Incoming])
    /\ UNCHANGED <<clientVars, wire>>

RecvPacket ==
    /\ ReadEvent /\ AtBody /\ BodyGot > 0 /\ CurLen + BodyGot = Length
    /\ BodyRead
    /\ iRecvCurLen' = 0 /\ iPacketLen' = 0
    /\ done' = done + 1
    /\ ProcessEntirePacket(Incoming, pkts[Incoming])
    /\ UNCHANGED <<clientVars, wire>>

(***************************************************************************)
(* Sending.                                                                *)
(***************************************************************************)

(* Mutants: what a partial write sent is sent again; the write event is     *)
(* not removed after the last byte.                                         *)
ProcessSend_Again ==
    LET left == iSendPacketLen - iSendCurLen
    IN  /\ status = "open" /\ iMask = "RW" /\ iSendPacketLen > 0 /\ left >= 0
        /\ \E n \in Min({1, left}) .. left :
              /\ wire' = wire \o [i \in 1 .. n |-> pszSendBuf[iSendCurLen + i - 1]]
              /\ iSendPacketLen' = IF n = left THEN 0 ELSE iSendPacketLen
              /\ iMask' = IF n = left THEN "R" ELSE "RW"
        /\ UNCHANGED <<clientVars, recvVars, pszSendBuf, iSendCurLen, iSendTotalLen,
                       sendAlloc, overlap, status>>

ProcessSend_KeepsEvent ==
    LET left == iSendPacketLen - iSendCurLen
    IN  /\ status = "open" /\ iMask = "RW" /\ iSendPacketLen > 0 /\ left >= 0
        /\ \E n \in Min({1, left}) .. left :
              /\ wire' = wire \o [i \in 1 .. n |-> pszSendBuf[iSendCurLen + i - 1]]
              /\ iSendCurLen' = IF n = left THEN 0 ELSE iSendCurLen + n
              /\ iSendPacketLen' = IF n = left THEN 0 ELSE iSendPacketLen
        /\ UNCHANGED <<clientVars, recvVars, pszSendBuf, iSendTotalLen, sendAlloc,
                       iMask, overlap, status>>

(* ProcessSendCallback, on a write event: the kernel takes at least a byte. *)
(* After the last one the write event is removed.                           *)
ProcessSend ==
    LET left == iSendPacketLen - iSendCurLen
    IN  /\ status = "open" /\ iMask = "RW" /\ iSendPacketLen > 0 /\ left >= 0
        /\ \E n \in Min({1, left}) .. left :
              /\ wire' = wire \o [i \in 1 .. n |-> pszSendBuf[iSendCurLen + i - 1]]
              /\ iSendCurLen' = IF n = left THEN 0 ELSE iSendCurLen + n
              /\ iSendPacketLen' = IF n = left THEN 0 ELSE iSendPacketLen
              /\ iMask' = IF n = left THEN "R" ELSE "RW"
        /\ UNCHANGED <<clientVars, recvVars, pszSendBuf, iSendTotalLen, sendAlloc, overlap, status>>

(* PynServerSendData refuses a negative length, or the client is gone. *)
SendFails ==
    /\ status = "open" /\ iMask = "RW" /\ iSendPacketLen > 0
    /\ fin = "yes" \/ iSendPacketLen < iSendCurLen
    /\ Close("sendError")

(* ConnectionTimeoutCallback. *)
TimesOut == status = "open" /\ Close("timeout")

Recv ==
    \/ RecvHeadFails \/ RecvHeadPart \/ RecvBadHead
    \/ RecvBodyFails \/ RecvBodyPart \/ RecvPacket

Next ==
    \/ \E p \in Packets : ClientSends(p)
    \/ Arrive \/ ClientCloses
    \/ Recv \/ ProcessSend \/ SendFails
    \/ TimesOut

Spec == Init /\ [][Next]_vars

(* The network delivers, the worker serves its events and the client reads. *)
FairSpec == Spec /\ WF_vars(Arrive) /\ WF_vars(Recv) /\ WF_vars(ProcessSend)

(***************************************************************************)
(* Properties.                                                             *)
(***************************************************************************)

(* The types of the state. *)
TypeOK ==
    /\ pkts \in Seq([kind : Kinds, len : Nat, start : Nat, out : Nat])
    /\ arrived \in 0 .. StreamLen /\ readTotal \in 0 .. arrived
    /\ fin \in {"no", "yes"} /\ done \in 0 .. Len(pkts)
    /\ iRecvCurLen \in Nat /\ iPacketLen \in Nat /\ iRecvTotalLen \in Nat
    /\ iSendCurLen \in Nat /\ iSendTotalLen \in Nat /\ sendAlloc \in Nat
    /\ iSendPacketLen \in Int
    /\ pszSendBuf \in [0 .. BufSize - 1 -> Nat \X Nat]
    /\ overlap \in {"no", "yes"}
    /\ iMask \in {"R", "RW"} /\ wire \in Seq(Nat \X Nat)
    /\ status \in {"open", "endOfFile", "badHead", "bodyLate", "sendError",
                   "timeout", "overrun"}

(* The server's packets are the client's: however the stream is cut into    *)
(* reads, a packet is taken to start where one does, and is given the       *)
(* length its head declares.                                                *)
FramingExact ==
    status = "open" =>
        IF done = Len(pkts)
        THEN readTotal = StreamLen /\ iRecvCurLen = 0
        ELSE /\ readTotal - iRecvCurLen = pkts[done + 1].start
             /\ iRecvCurLen >= HeadLen => iPacketLen = pkts[done + 1].len

(* What the next callback reads fits the receive buffer, and it asks for at *)
(* least a byte.                                                            *)
RecvInBounds ==
    status = "open" /\ iRecvCurLen >= HeadLen =>
        iRecvCurLen < iPacketLen /\ iPacketLen <= iRecvTotalLen

(* The write event is registered exactly while there is something to send,  *)
(* so no reply is stuck and the loop does not spin, also when a reply is    *)
(* made while another is being sent.                                        *)
WriteArmed == status = "open" => (iMask = "RW" <=> iSendPacketLen > 0)

(* What was sent, followed by what is still to send. *)
Output == wire \o [i \in 1 .. iSendPacketLen - iSendCurLen |->
                        pszSendBuf[iSendCurLen + i - 1]]

(* Byte j of the replies to the packets, in order. *)
ReplyByte(j) ==
    LET k == CHOOSE n \in 1 .. Len(pkts) : RepliesLen(n - 1) < j /\ j <= RepliesLen(n)
    IN  <<k, j - 1 - RepliesLen(k - 1)>>

IsUnwritten(b) ==
    LET p == pkts[b[1]] IN p.kind = "test" /\ b[2] \in Unwritten(ReplyLen(p))

(* The output is the replies to the processed packets, whole, unmixed and   *)
(* in their order.  Left open are the bytes of a test reply that the code   *)
(* never writes.                                                            *)
OutputIsReplies ==
    /\ Len(Output) = RepliesLen(done)
    /\ \A j \in 1 .. Len(Output) :
           Output[j] = ReplyByte(j) \/ IsUnwritten(ReplyByte(j))

(* However the sends are cut and the packets arrive, replies are sent once, *)
(* whole and in order, as long as none is made while another still waits.   *)
StreamIntact == status = "open" /\ overlap = "no" => OutputIsReplies

(* A packet is answered or the connection ends: no reply waits for ever.    *)
Answered ==
    \A k \in 1 .. MaxPackets :
        k <= Len(pkts) ~> \/ status # "open"
                         \/ overlap = "yes"
                         \/ /\ done >= k
                            /\ Len(wire) >= RepliesLen(k)

(* The comment of PynServerRecvData: nothing to read now means to try again *)
(* next time.                                                               *)
LateBodyAwaited == status # "bodyLate"

(* The comment of ResizeSendBufferPtr: the send buffer is enlarged.  What   *)
(* a reply writes lies in the buffer.                                       *)
SendInBounds == status # "overrun"

(* The comment of SendPacket2Client: the packet is copied to the end of the *)
(* send buffer, behind what waits there.                                    *)
RepliesQueued == status = "open" => OutputIsReplies
=============================================================================
