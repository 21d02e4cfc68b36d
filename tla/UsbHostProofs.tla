---------------------------- MODULE UsbHostProofs ---------------------------
(***************************************************************************)
(* The V-USB driver, the driver on the bus, and the DeluxeUSB firmware on  *)
(* top of it.  In this order: what each step of the driver preserves; the  *)
(* types, the packet and the block of the driver on the bus; the control   *)
(* transfers and the abstract pipe; the firmware; the interrupt endpoint.  *)
(***************************************************************************)
EXTENDS DeluxeUSB, UsbIntr, SequenceTheorems, TLAPS

USE DEF USBPID_SETUP, USBPID_OUT, USBPID_DATA0, USBPID_DATA1, USBPID_ACK,
        USBPID_NAK, USBPID_STALL, USB_NO_MSG

-----------------------------------------------------------------------------
(***************************************************************************)
(* What each step of the driver preserves, whatever the bus and the        *)
(* application do: the types of its state, the packet that usbProcessRx    *)
(* works on, and the block that waits for an IN token.                     *)
(***************************************************************************)
\* The interrupt routine, with any input and any answer.
Isr(tok, addr, pkt, answer, acked) ==
    IsrToken(tok, addr) \/ IsrData(pkt, answer) \/ IsrIn(addr, answer, acked)

\* What the interrupt routine leaves to the main loop.
MainOwned == <<msgVars, appVars, pc, blkLen, line>>

\* usbPoll with any application that answers within the types.
MainStep(reply, rval) == PollDriver \/ RxRequest(reply) \/ RxWrite(rval)

-----------------------------------------------------------------------------
\* Bit 4 tells the two handshakes from every packet length.
LEMMA HandshakeBit ==
    /\ IsHandshake(USBPID_NAK) /\ IsHandshake(USBPID_STALL)
    /\ \A n \in 4..12 : ~IsHandshake(n)
  BY DEF IsHandshake

\* The length of a sequence that is given element by element.
LEMMA BlockLength ==
    ASSUME NEW n \in Nat, NEW s \in Seq(Byte), NEW f \in [1..n -> Byte], s = f
    PROVE  Len(s) = n
  <1>1. DOMAIN s = 1..Len(s) /\ DOMAIN s = 1..n /\ Len(s) \in Nat
    BY LenProperties
  <1> QED
    BY <1>1

\* What fills a block are bytes, as many as were reserved.
LEMMA BlockBytes ==
    ASSUME NEW n \in Nat, NEW x \in Nat, NEW off \in Nat
    PROVE  /\ [i \in 1..n |-> <<x, off + i>>] \in Seq(Byte)
           /\ Len([i \in 1..n |-> <<x, off + i>>]) = n
  <1> DEFINE f == [i \in 1..n |-> <<x, off + i>>]
  <1>1. f \in [1..n -> Byte]
    BY DEF Byte
  <1>2. f \in Seq(Byte)
    BY <1>1, SeqDef
  <1> QED
    BY <1>1, <1>2, BlockLength

\* A packet without data of ours, and the request of any packet.
LEMMA PacketTypes ==
    /\ \A n \in 0..8 : Junk(n) \in Packet
    /\ \A p \in Packet : p.req \in RequestType /\ p.xfer \in 0..MaxXfers
  BY RequestAssumption, XfersAssumption
    DEF Junk, Packet, NoRequest, RequestType, StandardRequests

\* The initial state of the driver has the right types.
LEMMA DevInitType == DevInit => DevTypeOK
  <1> SUFFICES ASSUME DevInit PROVE DevTypeOK
    OBVIOUS
  <1> USE DEF DevInit
  <1>1. Junk(0) \in Packet
    BY PacketTypes
  <1>2. RxTypeOK
    BY <1>1 DEF RxTypeOK
  <1>3. TxTypeOK
    <2>1. <<>> \in Seq(Byte)
      BY EmptySeq
    <2> QED
      BY <2>1 DEF TxTypeOK
  <1>4. MsgTypeOK /\ AddrTypeOK
    BY SMTT(30), PktAssumption, XfersAssumption DEF MsgTypeOK, AddrTypeOK
  <1>5. AppTypeOK /\ pc \in Labels /\ line \in Lines
    BY <1>1 DEF AppTypeOK, Labels, Lines
  <1> QED
    BY <1>2, <1>3, <1>4, <1>5 DEF DevTypeOK

\* The interrupt routine keeps the types.
LEMMA IsrType ==
    ASSUME DevTypeOK, UNCHANGED MainOwned,
           NEW tok \in {USBPID_SETUP, USBPID_OUT}, NEW addr, NEW pkt \in Packet,
           NEW answer, NEW acked \in BOOLEAN, Isr(tok, addr, pkt, answer, acked)
    PROVE  DevTypeOK'
  <1>1. RxTypeOK'
    <2> USE DEF DevTypeOK, RxTypeOK, ReceiveInto
    <2>1. Junk(0) \in Packet /\ pkt.len \in 0..8
      BY PacketTypes DEF Packet
    <2>2. CASE IsrToken(tok, addr)
      BY <2>1, <2>2 DEF IsrToken
    <2>3. CASE IsrData(pkt, answer)
      BY <2>1, <2>3 DEF IsrData
    <2>4. CASE IsrIn(addr, answer, acked)
      BY <2>1, <2>4 DEF IsrIn
    <2> QED
      BY <2>2, <2>3, <2>4 DEF Isr
  <1>2. TxTypeOK' /\ AddrTypeOK'
    <2>1. \/ UNCHANGED <<txVars, addrVars>>
          \/ /\ usbTxLen' = USBPID_NAK /\ usbDeviceAddr' = usbNewDeviceAddr
             /\ UNCHANGED <<usbTxBuf, usbNewDeviceAddr, usbConfiguration>>
      BY DEF Isr, IsrToken, IsrData, IsrIn
    <2>2. TxTypeOK'
      BY <2>1 DEF txVars, DevTypeOK, TxTypeOK
    <2>3. AddrTypeOK'
      BY <2>1 DEF addrVars, DevTypeOK, AddrTypeOK
    <2> QED
      BY <2>2, <2>3
  <1>3. MsgTypeOK' /\ AppTypeOK' /\ pc' \in Labels /\ line' \in Lines
    BY DEF MainOwned, msgVars, appVars, DevTypeOK, MsgTypeOK, AppTypeOK
  <1> QED
    BY <1>1, <1>2, <1>3 DEF DevTypeOK

\* The steps of usbPoll, by what they leave alone.
LEMMA MainFrame ==
    ASSUME NEW reply, NEW rval, MainStep(reply, rval)
    PROVE  /\ UNCHANGED rxVars \/ (RxRelease /\ UNCHANGED IsrOwned)
           /\ \/ UNCHANGED txVars
              \/ RxSetup \/ RxAbort \/ RxWrite(rval)
              \/ TxBuild \/ TxCopy \/ TxCrc \/ TxArm
           /\ \/ UNCHANGED <<msgVars, blkLen>>
              \/ RxAbort \/ RxRequest(reply) \/ RxWrite(rval)
              \/ TxBuild \/ TxCopy \/ TxCrc
           /\ UNCHANGED addrVars \/ RxRequest(reply) \/ PollLine \/ PollReset
           /\ UNCHANGED appVars \/ RxRequest(reply) \/ RxWrite(rval)
  BY DEF MainStep, PollDriver, PollRxLen, RxBadSetup, RxSetup, RxAbort,
    RxRequest, RxIgnoredOut, RxWrite, RxRelease, PollTxLen, TxBuild, TxCopy,
    TxCrc, TxArm, PollLine, PollReset, txVars, msgVars, addrVars, appVars

\* The packet usbProcessRx works on, with its request.
LEMMA RxPacketType ==
    ASSUME RxTypeOK
    PROVE  /\ RxPacket \in Packet /\ RxPacket.req \in RequestType
           /\ RxPacket.xfer \in 0..MaxXfers /\ RxPacket.req.value \in 0..127
  <1>1. RxPacket \in Packet
    BY DEF RxPacket, RxTypeOK
  <1> QED
    BY <1>1, PacketTypes DEF RequestType

\* usbPoll keeps the types, with any application.
LEMMA MainType ==
    ASSUME DevTypeOK, NEW reply \in 0..255, NEW rval \in {0, 1, 255},
           MainStep(reply, rval)
    PROVE  DevTypeOK'
  <1> USE PktAssumption DEF DevTypeOK
  <1>0. LimitedLen(reply, RxPacket.req) \in 0..255
    <2>1. RxPacket.req \in RequestType
      BY RxPacketType
    <2> QED
      BY <2>1 DEF LimitedLen, RequestType
  <1>1. RxTypeOK'
    BY MainFrame DEF rxVars, IsrOwned, RxRelease, RxTypeOK
  <1>2. TxTypeOK'
    <2>1. blkLen \in Nat /\ usbMsgPtr.xfer \in Nat /\ usbMsgPtr.off \in Nat
      BY XfersAssumption DEF MsgTypeOK
    <2>2. [i \in 1..blkLen |-> <<usbMsgPtr.xfer, usbMsgPtr.off + i>>] \in Seq(Byte)
      BY <2>1, BlockBytes
    <2> USE DEF TxTypeOK
    <2>3. CASE UNCHANGED txVars
      BY <2>3 DEF txVars
    <2>4. CASE RxSetup
      BY <2>4 DEF RxSetup
    <2>5. CASE RxAbort
      BY <2>5 DEF RxAbort
    <2>6. CASE RxWrite(rval)
      BY <2>6 DEF RxWrite
    <2>7. CASE TxBuild
      BY <2>7 DEF TxBuild, Toggle
    <2>8. CASE TxCopy
      BY <2>2, <2>8 DEF TxCopy
    <2>9. CASE TxCrc
      BY <2>9 DEF TxCrc
    <2>10. CASE TxArm
      <3>1. usbTxLen' \in 4..12
        BY <2>10 DEF TxArm, MsgTypeOK
      <3>2. usbTxBuf' = usbTxBuf
        BY <2>10 DEF TxArm
      <3> QED
        BY <3>1, <3>2
    <2> QED
      BY MainFrame, <2>3, <2>4, <2>5, <2>6, <2>7, <2>8, <2>9, <2>10
  <1>3. MsgTypeOK'
    <2> USE DEF MsgTypeOK
    <2>1. CASE UNCHANGED <<msgVars, blkLen>>
      BY <2>1 DEF msgVars
    <2>2. CASE RxAbort \/ RxWrite(rval)
      <3>1. usbMsgPtr' = usbMsgPtr /\ blkLen' = blkLen
        BY <2>2 DEF RxAbort, RxWrite
      <3>2. usbMsgLen' = 0 \/ usbMsgLen' = usbMsgLen
        BY <2>2 DEF RxAbort, RxWrite
      <3>3. usbMsgFlags' \in BOOLEAN
        BY <2>2 DEF RxAbort, RxWrite
      <3>4. usbMsgLen' \in 0..255
        BY <3>2
      <3> QED
        BY <3>1, <3>3, <3>4
    <2>3. CASE RxRequest(reply)
      BY <1>0, RxPacketType, <2>3 DEF RxRequest
    <2>4. CASE TxBuild
      BY <2>4 DEF TxBuild
    <2>5. CASE TxCopy
      BY <2>5 DEF TxCopy
    <2>6. CASE TxCrc
      BY <2>6 DEF TxCrc
    <2> QED
      BY MainFrame, <2>1, <2>2, <2>3, <2>4, <2>5, <2>6
  <1>4. AddrTypeOK'
    <2> USE DEF AddrTypeOK
    <2>1. CASE UNCHANGED addrVars
      BY <2>1 DEF addrVars
    <2>2. CASE RxRequest(reply)
      BY RxPacketType, <2>2 DEF RxRequest
    <2>3. CASE PollLine \/ PollReset
      BY <2>3 DEF PollLine, PollReset
    <2> QED
      BY MainFrame, <2>1, <2>2, <2>3
  <1>5. AppTypeOK'
    <2> USE DEF AppTypeOK
    <2>1. CASE UNCHANGED appVars
      BY <2>1 DEF appVars
    <2>2. CASE RxRequest(reply)
      BY <1>0, RxPacketType, <2>2 DEF RxRequest
    <2>3. CASE RxWrite(rval)
      BY <2>3 DEF RxWrite
    <2> QED
      BY MainFrame, <2>1, <2>2, <2>3
  <1>6. pc' \in Labels /\ line' \in Lines
    BY DEF MainStep, PollDriver, PollRxLen, RxBadSetup, RxSetup, RxAbort,
      RxRequest, RxIgnoredOut, RxWrite, RxRelease, PollTxLen, TxBuild, TxCopy,
      TxCrc, TxArm, PollLine, PollReset, Main, Labels, Lines
  <1> QED
    BY <1>1, <1>2, <1>3, <1>4, <1>5, <1>6

-----------------------------------------------------------------------------
(* The block in usbTxBuf: while usbBuildTxBlock works on it, and while a new *)
(* request is put in place of the old, the interrupt routine only finds a    *)
(* handshake; once armed it is whole and belongs to the request served.      *)
OwnBytes == \A i \in DOMAIN usbTxBuf.data : usbTxBuf.data[i][1] = served.xfer

TxBlockOK ==
    /\ pc \in {"setup", "build", "copy", "crc", "arm"} => IsHandshake(usbTxLen)
    /\ usbMsgPtr.xfer = served.xfer
    /\ pc \in {"crc", "arm"} => Len(usbTxBuf.data) = blkLen /\ OwnBytes
    /\ pc = "arm" => usbTxBuf.crc = usbTxBuf.data
    /\ ~IsHandshake(usbTxLen) =>
         /\ usbTxBuf.crc = usbTxBuf.data
         /\ usbTxLen = Len(usbTxBuf.data) + 4
         /\ OwnBytes

LEMMA DevInitBlock == DevInit => TxBlockOK
  BY HandshakeBit DEF DevInit, TxBlockOK, Junk

\* The interrupt routine keeps the block, and can only unarm it.
LEMMA IsrBlock ==
    ASSUME DevTypeOK, TxBlockOK, UNCHANGED MainOwned, NEW tok, NEW addr,
           NEW pkt, NEW answer, NEW acked, Isr(tok, addr, pkt, answer, acked)
    PROVE  TxBlockOK'
  <1>1. UNCHANGED usbTxBuf /\ (usbTxLen' = usbTxLen \/ usbTxLen' = USBPID_NAK)
    BY DEF Isr, IsrToken, IsrData, IsrIn, txVars
  <1>2. UNCHANGED <<usbMsgPtr, served, pc, blkLen>>
    BY DEF MainOwned, msgVars, appVars
  <1> QED
    BY <1>1, <1>2, HandshakeBit DEF TxBlockOK, OwnBytes

\* So does every step of usbPoll, whatever the application answers.
LEMMA MainBlock ==
    ASSUME DevTypeOK, TxBlockOK, NEW reply, NEW rval, MainStep(reply, rval)
    PROVE  TxBlockOK'
  <1> USE HandshakeBit DEF Main
  <1>1. CASE PollRxLen \/ RxBadSetup \/ RxIgnoredOut \/ RxRelease \/ PollTxLen
             \/ PollLine \/ PollReset
    <2>1. UNCHANGED <<usbTxLen, usbTxBuf, usbMsgPtr, served, blkLen>>
      BY <1>1 DEF PollRxLen, RxBadSetup, RxIgnoredOut, RxRelease, PollTxLen,
        PollLine, PollReset, txVars, msgVars, appVars
    <2>2. /\ pc' \notin {"setup", "copy", "crc", "arm"}
          /\ pc' = "build" => IsHandshake(usbTxLen)
      BY <1>1 DEF PollRxLen, RxBadSetup, RxIgnoredOut, RxRelease, PollTxLen,
        PollLine, PollReset
    <2> QED
      BY <2>1, <2>2 DEF TxBlockOK, OwnBytes
  <1>2. CASE RxSetup
    <2>1. /\ usbTxBuf'.data = usbTxBuf.data /\ usbTxBuf'.crc = usbTxBuf.crc
          /\ UNCHANGED <<usbTxLen, usbMsgPtr, served, blkLen>> /\ pc' = "abort"
      BY <1>2 DEF RxSetup, DevTypeOK, TxTypeOK, msgVars, appVars
    <2> QED
      BY <2>1 DEF TxBlockOK, OwnBytes
  <1>3. CASE RxAbort
    BY <1>3 DEF RxAbort, TxBlockOK, OwnBytes, appVars
  <1>4. CASE RxRequest(reply)
    <2>1. usbMsgPtr'.xfer = served'.xfer /\ UNCHANGED usbTxLen /\ pc' = "rxdone"
      BY <1>4 DEF RxRequest, txVars
    <2>2. IsHandshake(usbTxLen)
      BY <1>4 DEF RxRequest, TxBlockOK
    <2> QED
      BY <2>1, <2>2 DEF TxBlockOK
  <1>5. CASE RxWrite(rval)
    <2>1. /\ UNCHANGED <<usbTxBuf, usbMsgPtr, served>> /\ pc' = "rxdone"
          /\ usbTxLen' = usbTxLen \/ usbTxLen' = USBPID_STALL
      BY <1>5 DEF RxWrite
    <2> QED
      BY <2>1 DEF TxBlockOK, OwnBytes
  <1>6. CASE TxBuild
    BY <1>6 DEF TxBuild, TxBlockOK, appVars
  <1>7. CASE TxCopy
    <2>1. blkLen \in Nat /\ usbMsgPtr.xfer \in Nat /\ usbMsgPtr.off \in Nat
      BY PktAssumption, XfersAssumption DEF DevTypeOK, MsgTypeOK
    <2>2. usbTxBuf'.data = [i \in 1..blkLen |-> <<usbMsgPtr.xfer, usbMsgPtr.off + i>>]
      BY <1>7 DEF TxCopy, DevTypeOK, TxTypeOK
    <2>3. Len(usbTxBuf'.data) = blkLen
      BY <2>1, <2>2, BlockBytes
    <2>4. /\ usbMsgPtr'.xfer = usbMsgPtr.xfer /\ UNCHANGED <<usbTxLen, served, blkLen>>
          /\ pc = "copy" /\ pc' = "crc"
      BY <1>7 DEF TxCopy, DevTypeOK, MsgTypeOK, appVars
    <2>5. OwnBytes'
      BY <2>2, <2>4 DEF OwnBytes, TxBlockOK
    <2> QED
      BY <2>3, <2>4, <2>5 DEF TxBlockOK
  <1>8. CASE TxCrc
    <2>1. usbTxBuf'.data = usbTxBuf.data /\ usbTxBuf'.crc = usbTxBuf.data
      BY <1>8 DEF TxCrc, DevTypeOK, TxTypeOK
    <2> QED
      BY <1>8, <2>1 DEF TxCrc, TxBlockOK, OwnBytes, appVars
  <1>9. CASE TxArm
    BY <1>9 DEF TxArm, TxBlockOK, OwnBytes, msgVars, appVars
  <1> QED
    BY <1>1, <1>2, <1>3, <1>4, <1>5, <1>6, <1>7, <1>8, <1>9
      DEF MainStep, PollDriver

-----------------------------------------------------------------------------
\* The interrupt routine writes the half that usbProcessRx does not read, and
\* takes neither a packet nor its token away before it is released.
LEMMA IsrKeepsPacket ==
    ASSUME DevTypeOK, usbRxLen # 0, NEW tok, NEW addr, NEW pkt, NEW answer,
           NEW acked, Isr(tok, addr, pkt, answer, acked)
    PROVE  UNCHANGED <<RxPacket, usbRxToken>>
  <1>1. usbInputBufOffset \in 0..1 /\ usbRxBuf \in [0..1 -> Packet]
    BY DEF DevTypeOK, RxTypeOK
  <1>2. /\ UNCHANGED <<usbInputBufOffset, usbRxToken>>
        /\ \E p : ReceiveInto(p)
    BY DEF Isr, IsrToken, IsrData, IsrIn
  <1> QED
    BY <1>1, <1>2 DEF ReceiveInto, RxPacket

\* The main loop does not write the receive buffer at all.
LEMMA MainKeepsPacket ==
    ASSUME NEW reply, NEW rval, MainStep(reply, rval)
    PROVE  UNCHANGED <<RxPacket, usbRxToken>>
  BY MainFrame DEF rxVars, IsrOwned, RxPacket

-----------------------------------------------------------------------------
(***************************************************************************)
(* The driver on the bus keeps its types, never processes a torn packet    *)
(* and never sends a torn or stale block, whatever the requests, the       *)
(* application, the packet size, the losses and the number of transfers.   *)
(***************************************************************************)
\* The data stage never exceeds what the request announced.
HostInv ==
    /\ TypeOK
    /\ hSent <= hReq.wLength

DriverInv == HostInv /\ TxBlockOK

\* What a bus action does to the driver: an interrupt, or nothing but the line.
Interrupt ==
    /\ UNCHANGED MainOwned
    /\ \E tok \in {USBPID_SETUP, USBPID_OUT}, addr \in 0..127, pkt \in Packet,
          acked \in BOOLEAN : \E answer : Isr(tok, addr, pkt, answer, acked)
Deaf ==
    /\ UNCHANGED <<rxVars, txVars, msgVars, addrVars, appVars, pc, blkLen>>
    /\ line' = line \/ line' \in Lines

-----------------------------------------------------------------------------
\* The length of a request is a number that fits in the SETUP packet.
LEMMA RequestFields ==
    ASSUME TypeOK
    PROVE  hReq.wLength \in 0..254 /\ hReq.value \in 0..127
           /\ hReq \in Requests \cup {NoRequest}
  BY RequestAssumption DEF TypeOK, NoRequest, RequestType

\* What is left of a transfer, cut into packets.
LEMMA ChunkBound ==
    ASSUME NEW length \in 0..254, NEW done \in 0..254, done <= length
    PROVE  (IF length - done > MaxPkt THEN MaxPkt ELSE length - done)
             \in 0..(length - done) \cap 0..8
  <1>1. MaxPkt \in 1..8
    BY PktAssumption
  <1>2. length - done \in 0..254
    OBVIOUS
  <1> QED
    BY <1>1, <1>2

\* Every packet the host puts on the bus fits in the buffer.
LEMMA HostPacketType == HostInv => HostDataPacket \in Packet /\ ChunkLen \in 0..8
  <1> SUFFICES ASSUME HostInv PROVE HostDataPacket \in Packet /\ ChunkLen \in 0..8
    OBVIOUS
  <1>1. hReq.wLength \in 0..254 /\ hReq \in Requests \cup {NoRequest}
    BY RequestFields DEF HostInv
  <1>2. hSent \in 0..254 /\ hSent <= hReq.wLength /\ hXfer \in 0..MaxXfers
    BY DEF HostInv, TypeOK
  <1>3. ChunkLen \in 0..8
    BY <1>1, <1>2, ChunkBound DEF ChunkLen
  <1>4. Junk(0) \in Packet
    BY PacketTypes
  <1> QED
    BY <1>1, <1>2, <1>3, <1>4 DEF HostDataPacket, Packet

\* Whatever the application of UsbDrv answers is within the types.
LEMMA PollSteps ==
    ASSUME DevTypeOK, usbPoll
    PROVE  \E reply \in 0..255, rval \in {0, 1, 255} : MainStep(reply, rval)
  <1>1. CASE PollDriver
    BY <1>1 DEF MainStep
  <1>2. CASE \E reply \in ReplyLens(RxPacket.req) : RxRequest(reply)
    <2>1. RxPacket.req \in RequestType
      BY RxPacketType DEF DevTypeOK
    <2>2. ASSUME RxPacket.req.bRequest # "FUNCTION"
          PROVE  StdReplyLen[RxPacket.req.bRequest] \in 0..255
      BY <2>1, <2>2, LengthAssumption DEF StdReplyLen, RequestType, StandardRequests
    <2>3. ReplyLens(RxPacket.req) \subseteq 0..255
      <3>1. CASE RxPacket.req.bRequest # "FUNCTION"
        BY <2>2, <3>1 DEF ReplyLens
      <3>2. CASE RxPacket.req.bRequest = "FUNCTION" /\ RxPacket.req.dir = "in"
        <4>1. FnLens \subseteq 0..255
          BY LengthAssumption
        <4> QED
          BY <3>2, <4>1 DEF ReplyLens
      <3>3. CASE RxPacket.req.bRequest = "FUNCTION" /\ RxPacket.req.dir # "in"
        BY <3>3 DEF ReplyLens
      <3> QED
        BY <3>1, <3>2, <3>3
    <2> QED
      BY <1>2, <2>3 DEF MainStep
  <1>3. CASE \E rval \in WriteResults(usbRxLen - 3) : RxWrite(rval)
    <2>1. WriteResults(usbRxLen - 3) \subseteq {0, 1, 255}
      BY DEF WriteResults
    <2> QED
      BY <1>3, <2>1 DEF MainStep
  <1> QED
    BY <1>1, <1>2, <1>3 DEF usbPoll

\* Each of the three executions of the interrupt routine is an interrupt.
LEMMA InterruptIntro ==
    ASSUME UNCHANGED MainOwned, Junk(0) \in Packet,
           NEW tok \in {USBPID_SETUP, USBPID_OUT}, NEW addr \in 0..127,
           NEW pkt \in Packet, NEW acked \in BOOLEAN, NEW answer,
           IsrToken(tok, addr) \/ IsrData(pkt, answer) \/ IsrIn(addr, answer, acked)
    PROVE  Interrupt
  <1>1. Isr(tok, addr, pkt, answer, acked)
    BY DEF Isr
  <1> QED
    BY <1>1 DEF Interrupt

\* A host step is an interrupt of the driver, or does not reach it.
LEMMA HostSteps ==
    ASSUME HostInv, Host
    PROVE  Interrupt \/ Deaf
  <1>1. hAddr \in 0..127 /\ Others \subseteq 0..127
    BY HostAssumption DEF HostInv, TypeOK
  <1>2. Junk(0) \in Packet /\ Junk(8) \in Packet /\ HostDataPacket \in Packet
    BY PacketTypes, HostPacketType
  <1>3. CASE \E rq \in Requests : HostStart(rq)
    BY <1>3 DEF HostStart, DeviceDeaf, BusOnly, Deaf
  <1>4. CASE HostToken
    <2>1. UNCHANGED MainOwned
      BY <1>4 DEF HostToken, BusOnly, MainOwned
    <2>2. CASE DeviceDeaf
      BY <2>1, <2>2 DEF Deaf, DeviceDeaf, MainOwned
    <2>3. CASE IsrToken(IF hPhase = "setup" THEN USBPID_SETUP ELSE USBPID_OUT, hAddr)
      <3>1. PICK tok \in {USBPID_SETUP, USBPID_OUT} : IsrToken(tok, hAddr)
        BY <2>3
      <3> QED
        BY <1>1, <1>2, <2>1, <3>1, InterruptIntro
    <2> QED
      BY <1>4, <2>2, <2>3 DEF HostToken, Deliver
  <1>5. CASE HostData
    <2>1. UNCHANGED MainOwned
      BY <1>5 DEF HostData, BusOnly, MainOwned
    <2>2. DeviceDeaf \/ \E answer : IsrData(HostDataPacket, answer)
      BY <1>5 DEF HostData
    <2>3. CASE DeviceDeaf
      BY <2>1, <2>3 DEF Deaf, DeviceDeaf, MainOwned
    <2>4. CASE \E answer : IsrData(HostDataPacket, answer)
      BY <1>1, <1>2, <2>1, <2>4, InterruptIntro
    <2> QED
      BY <2>2, <2>3, <2>4
  <1>6. CASE HostIn
    <2>1. UNCHANGED MainOwned
      BY <1>6 DEF HostIn, BusOnly, MainOwned
    <2>2. DeviceDeaf \/ \E answer, acked : acked \in BOOLEAN /\ IsrIn(hAddr, answer, acked)
      BY <1>6 DEF HostIn
    <2>3. CASE DeviceDeaf
      BY <2>1, <2>3 DEF Deaf, DeviceDeaf, MainOwned
    <2>4. CASE \E answer, acked : acked \in BOOLEAN /\ IsrIn(hAddr, answer, acked)
      BY <1>1, <1>2, <2>1, <2>4, InterruptIntro
    <2> QED
      BY <2>2, <2>3, <2>4
  <1>7. CASE HostAbort
    BY <1>7 DEF HostAbort, DeviceDeaf, BusOnly, Deaf
  <1>8. CASE HostForeign
    <2>1. UNCHANGED MainOwned
      BY <1>8 DEF HostForeign, BusOnly, MainOwned
    <2>2. \A rq \in Requests : [Junk(8) EXCEPT !.req = rq] \in Packet
      BY <1>2 DEF Packet
    <2>3. \/ DeviceDeaf
          \/ \E addr \in Others : IsrToken(USBPID_OUT, addr)
          \/ \E pkt \in Packet : \E answer : IsrData(pkt, answer)
      BY <1>2, <1>8, <2>2 DEF HostForeign, Deliver
    <2>4. CASE DeviceDeaf
      BY <2>1, <2>4 DEF Deaf, DeviceDeaf, MainOwned
    <2>5. CASE \E addr \in Others : IsrToken(USBPID_OUT, addr)
      BY ZenonT(60), <1>1, <1>2, <2>1, <2>5, InterruptIntro
    <2>6. CASE \E pkt \in Packet : \E answer : IsrData(pkt, answer)
      BY <1>1, <1>2, <2>1, <2>6, InterruptIntro
    <2> QED
      BY <2>3, <2>4, <2>5, <2>6
  <1>9. CASE HostReset
    BY <1>9 DEF HostReset, DeviceDeaf, Deaf, Lines
  <1>10. CASE HostEndReset
    BY <1>10 DEF HostEndReset, DeviceDeaf, Deaf, Lines
  <1> QED
    BY <1>3, <1>4, <1>5, <1>6, <1>7, <1>8, <1>9, <1>10 DEF Host, HostProgress

-----------------------------------------------------------------------------
\* A loss is noted with the number of the transfer.
LEMMA LoseType ==
    ASSUME HostInv, Lose \/ losses' = losses
    PROVE  LossTypeOK'
  <1>1. losses \in Seq(0..MaxXfers) /\ Len(losses) <= MaxLoss /\ hXfer \in 0..MaxXfers
    BY DEF HostInv, TypeOK, LossTypeOK
  <1>2. CASE Lose
    <2>1. /\ Append(losses, hXfer) \in Seq(0..MaxXfers)
          /\ Len(Append(losses, hXfer)) = Len(losses) + 1 /\ Len(losses) \in Nat
      BY <1>1, AppendProperties, LenProperties
    <2> QED
      BY <1>2, <2>1, HostAssumption DEF Lose, LossTypeOK
  <1>3. CASE losses' = losses
    BY <1>1, <1>3 DEF LossTypeOK
  <1> QED
    BY <1>2, <1>3

\* The host's own state keeps its types, and the data stage its length.
LEMMA HostType ==
    ASSUME HostInv, [Next]_vars, DevTypeOK'
    PROVE  HostInv'
  <1>a. LossTypeOK'
    <2>1. losses' = losses \/ Lose
      BY DEF Next, vars, Host, HostProgress, HostStart, HostToken, HostData, HostIn,
        HostAbort, HostForeign, HostReset, HostEndReset, Deliver
    <2> QED
      BY <2>1, LoseType
  <1> USE <1>a DEF HostInv, TypeOK
  <1>0. /\ hReq \in Requests \cup {NoRequest}
        /\ \A rq \in Requests \cup {NoRequest} : rq.wLength \in 0..254 /\ rq.value \in 0..127
    BY RequestAssumption DEF NoRequest, RequestType
  <1>1. CASE usbPoll /\ UNCHANGED <<hostVars, resets, losses>>
    BY <1>1 DEF hostVars
  <1>2. CASE UNCHANGED vars
    BY <1>2 DEF vars, hostVars
  <1>3. ASSUME NEW rq \in Requests, HostStart(rq) PROVE HostInv'
    <2>1. hReq' = rq /\ hSent' = 0
      BY <1>3 DEF HostStart
    <2>2. rq.wLength \in 0..254
      BY <1>0
    <2>3. hXfer' \in 0..MaxXfers
      BY <1>3, XfersAssumption DEF HostStart
    <2>4. /\ UNCHANGED <<hAddr, hGaveUp, resets, losses>>
          /\ hPhase' \in Phases /\ hTog' = USBPID_DATA0 /\ hOutcome' = "pending"
      BY <1>3 DEF HostStart, BusOnly, Phases, Stages
    <2> QED
      BY <2>1, <2>2, <2>3, <2>4
  <1>4. CASE HostToken
    <2>1. /\ UNCHANGED <<hXfer, hReq, hSent, hTog, hAddr, hOutcome, hGaveUp, resets>>
          /\ hPhase' \in Phases
      BY <1>4 DEF HostToken, BusOnly, Phases, Stages
    <2> QED
      BY <2>1
  <1>5. CASE HostData
    <2>1. UNCHANGED <<hXfer, hReq, hGot, hAddr, hGaveUp, resets>>
      BY <1>5 DEF HostData, BusOnly
    <2>2. hPhase' \in Phases
      BY <1>0, <1>5, RequestAssumption
        DEF HostData, AfterSetup, AfterOut, Phases, Stages, NoRequest, RequestType
    <2>3. hSent' \in 0..254 /\ hSent' <= hReq.wLength
      <3>0. hReq.wLength \in 0..254 /\ hSent \in 0..254 /\ hSent <= hReq.wLength
        BY <1>0
      <3>1. hSent' = hSent \/ hSent' = hSent + ChunkLen
        BY <1>5 DEF HostData
      <3>2. ChunkLen \in 0..(hReq.wLength - hSent)
        BY ZenonT(60), <3>0, ChunkBound DEF ChunkLen
      <3>3. hSent + ChunkLen \in 0..254 /\ hSent + ChunkLen <= hReq.wLength
        BY <3>0, <3>2
      <3> QED
        BY <3>0, <3>1, <3>3
    <2>4. hTog' \in {USBPID_DATA0, USBPID_DATA1}
      BY <1>5 DEF HostData, Flip
    <2>5. hOutcome' \in {"none", "pending", "ok", "stall", "error", "aborted"}
      BY <1>5 DEF HostData
    <2> QED
      BY <2>1, <2>2, <2>3, <2>4, <2>5
  <1>6. CASE HostIn
    <2>1. UNCHANGED <<hXfer, hReq, hSent, hGaveUp, resets>>
      BY <1>6 DEF HostIn, BusOnly
    <2>2. hPhase' \in Phases
      BY <1>6 DEF HostIn, AfterIn, Phases, Stages
    <2>3. hTog' \in {USBPID_DATA0, USBPID_DATA1}
      BY <1>6 DEF HostIn, Flip
    <2>4. hAddr' \in 0..127
      <3>1. hAddr' = hAddr \/ hAddr' = hReq.value
        BY <1>6 DEF HostIn
      <3> QED
        BY <1>0, <3>1
    <2>5. hOutcome' \in {"none", "pending", "ok", "stall", "error", "aborted"}
      BY <1>6 DEF HostIn
    <2> QED
      BY <2>1, <2>2, <2>3, <2>4, <2>5
  <1>7. CASE HostAbort
    BY <1>7 DEF HostAbort, BusOnly, Phases, Stages
  <1>8. CASE HostForeign
    BY <1>8 DEF HostForeign, BusOnly, hostVars
  <1>9. CASE HostReset
    BY <1>9, HostAssumption DEF HostReset, Phases, Stages
  <1>10. CASE HostEndReset
    BY <1>10 DEF HostEndReset, Phases, Stages
  <1> QED
    BY <1>1, <1>2, <1>3, <1>4, <1>5, <1>6, <1>7, <1>8, <1>9, <1>10
      DEF Next, Host, HostProgress

LEMMA DriverInit == Init => DriverInv
  <1> SUFFICES ASSUME Init PROVE DriverInv
    OBVIOUS
  <1>1. DevTypeOK /\ TxBlockOK
    BY DevInitType, DevInitBlock DEF Init
  <1>2. HostInv
    <2>1. /\ hReq = NoRequest /\ hSent = 0 /\ hAddr = 0 /\ hXfer = 0
          /\ hPhase \in Phases /\ hTog = USBPID_DATA0 /\ hOutcome = "none"
          /\ hGaveUp = FALSE /\ resets = 0 /\ losses = <<>>
      BY DEF Init, HostInit, Phases, Stages
    <2>2. NoRequest.wLength = 0
      BY DEF NoRequest
    <2>3. 0 \in 0..MaxXfers /\ 0 \in 0..MaxResets /\ <<>> \in Seq(0..MaxXfers)
          /\ Len(<<>>) <= MaxLoss
      BY EmptySeq, HostAssumption, XfersAssumption
    <2>4. hSent <= hReq.wLength
      BY <2>1, <2>2
    <2>5. hGaveUp \in BOOLEAN
      BY <2>1
    <2>6. TypeOK
      <3> USE <1>1, <2>1, <2>3
      <3>1. hXfer \in 0..MaxXfers /\ resets \in 0..MaxResets /\ LossTypeOK
        BY DEF LossTypeOK
      <3>2. hSent \in 0..254 /\ hAddr \in 0..127
        OBVIOUS
      <3> QED
        BY <2>5, <3>1, <3>2 DEF TypeOK, LossTypeOK
    <2> QED
      BY <2>4, <2>6 DEF HostInv
  <1> QED
    BY <1>1, <1>2 DEF DriverInv

LEMMA DriverInvStep == DriverInv /\ [Next]_vars => DriverInv'
  <1> SUFFICES ASSUME DriverInv, [Next]_vars PROVE DriverInv'
    OBVIOUS
  <1>0. HostInv /\ DevTypeOK /\ TxBlockOK
    BY DEF DriverInv, HostInv, TypeOK
  <1>1. CASE usbPoll
    <2>1. PICK reply \in 0..255, rval \in {0, 1, 255} : MainStep(reply, rval)
      BY <1>0, <1>1, PollSteps
    <2>2. DevTypeOK' /\ TxBlockOK'
      BY <1>0, <2>1, MainType, MainBlock
    <2> QED
      BY <1>0, <2>2, HostType DEF DriverInv
  <1>2. CASE Interrupt
    <2>1. PICK tok \in {USBPID_SETUP, USBPID_OUT}, addr \in 0..127, pkt \in Packet,
               acked \in BOOLEAN : \E answer : Isr(tok, addr, pkt, answer, acked)
      BY <1>2 DEF Interrupt
    <2>2. PICK answer : Isr(tok, addr, pkt, answer, acked)
      BY <2>1
    <2>3. DevTypeOK' /\ TxBlockOK'
      BY <1>0, <1>2, <2>2, IsrType, IsrBlock DEF Interrupt
    <2> QED
      BY <1>0, <2>3, HostType DEF DriverInv
  <1>3. CASE Deaf
    <2>1. DevTypeOK'
      BY <1>0, <1>3 DEF Deaf, DevTypeOK, RxTypeOK, TxTypeOK, MsgTypeOK,
        AddrTypeOK, AppTypeOK, rxVars, txVars, msgVars, addrVars, appVars
    <2>2. TxBlockOK'
      BY <1>0, <1>3 DEF Deaf, TxBlockOK, OwnBytes, txVars, msgVars, appVars
    <2> QED
      BY <1>0, <2>1, <2>2, HostType DEF DriverInv
  <1>4. CASE UNCHANGED vars
    BY <1>4, <1>3 DEF vars, devVars, Deaf
  <1> QED
    BY <1>0, <1>1, <1>2, <1>3, <1>4, HostSteps DEF Next

(* DriverInv is an invariant of the driver on the bus.                       *)
THEOREM DriverInvariant == Spec => []DriverInv
  BY DriverInit, DriverInvStep, PTL DEF Spec

(* Every variable of the driver and of its host keeps its type.              *)
THEOREM HostTypeCorrect == Spec => []TypeOK
  <1>1. DriverInv => TypeOK
    BY DEF DriverInv, HostInv
  <1> QED
    BY <1>1, DriverInvariant, PTL

(* Wherever the interrupt routine breaks in on usbPoll, an IN token fetches  *)
(* only a finished block of the request served last.                         *)
THEOREM DriverTxWhole == Spec => []TxWhole
  <1>1. DriverInv => TxWhole
    BY DEF DriverInv, TxBlockOK, OwnBytes, TxWhole, TxReady
  <1> QED
    BY <1>1, DriverInvariant, PTL

(* No traffic on the bus changes the packet that usbProcessRx works on.      *)
THEOREM DriverRxStable == Spec => RxStable
  <1>1. DriverInv /\ [Next]_vars =>
          [usbRxLen # 0 => UNCHANGED <<RxPacket, usbRxToken>>]_vars
    <2> SUFFICES ASSUME DriverInv, Next, usbRxLen # 0
                 PROVE  UNCHANGED <<RxPacket, usbRxToken>>
      OBVIOUS
    <2>0. HostInv /\ DevTypeOK
      BY DEF DriverInv, HostInv, TypeOK
    <2>1. CASE usbPoll
      BY <2>0, <2>1, PollSteps, MainKeepsPacket
    <2>2. CASE Interrupt
      BY <2>0, <2>2, IsrKeepsPacket DEF Interrupt
    <2>3. CASE Deaf
      BY <2>3 DEF Deaf, rxVars, RxPacket
    <2> QED
      BY <2>0, <2>1, <2>2, <2>3, HostSteps DEF Next
  <1> QED
    BY <1>1, DriverInvariant, PTL DEF Spec, RxStable

-----------------------------------------------------------------------------
(***************************************************************************)
(* Control transfers between the host and the driver, whatever the         *)
(* requests, the application, the packet size, the number of transfers and *)
(* the losses: a transfer in which no packet is lost moves its data        *)
(* complete and in order, and without losses the driver on the bus         *)
(* implements the control pipe of ControlPipe.                             *)
(***************************************************************************)
Working == hPhase \notin {"idle", "reset"}
PastSetup == hPhase \notin {"idle", "reset", "setup", "setupData"}
Building == {"copy", "crc", "arm"}

\* A packet in the receive buffer that usbProcessRx has not dealt with.
PendingSetup == usbRxLen # 0 /\ usbRxToken = USBPID_SETUP /\ pc # "rxdone"
PendingOut == usbRxLen # 0 /\ usbRxToken = USBPID_OUT /\ pc # "rxdone"

(***************************************************************************)
(* What holds whatever is lost: where usbPoll is and what it works on,     *)
(* the order of the transfers, and the stages of the host.                 *)
(***************************************************************************)
RxInv ==
    /\ pc \in {"rx", "abort", "setup", "rxdone"} => usbRxLen # 0
    /\ pc \in {"abort", "setup"} =>
         usbRxToken = USBPID_SETUP /\ usbTxBuf.pid = USBPID_DATA0
    /\ pc = "setup" => usbTxLen = USBPID_NAK
    /\ usbRxLen # 0 => /\ usbRxLen = RxPacket.len + 3 /\ RxPacket.xfer <= hXfer
                       /\ usbRxToken # 0
    /\ usbMsgFlags => promised = USB_NO_MSG
    /\ pc = "build" => usbMsgLen # USB_NO_MSG
    /\ served.xfer <= hXfer
    /\ appGot \in Seq(Byte)

StageInv ==
    /\ hOutcome = "pending" <=> Working
    /\ line = "idle" <=> hPhase # "reset"
    /\ hPhase \in {"in", "statusOut", "statusOutData"} => hReq.dir = "in" /\ hReq.wLength > 0
    /\ hPhase \in {"out", "outData"} => hReq.dir = "out" /\ hSent < hReq.wLength
    /\ hPhase = "statusIn" =>
         /\ hReq.dir = "out" \/ hReq.wLength = 0
         /\ hSent = hReq.wLength /\ hTog = USBPID_DATA1
    /\ hPhase = "in" => Len(hGot) < hReq.wLength
    /\ hPhase \in {"setup", "setupData"} => hSent = 0
    /\ hPhase \in {"setup", "setupData", "out", "outData", "statusIn"} => hGot = <<>>
    /\ hGot \in Seq(Byte)

LinkInv ==
    /\ RxInv /\ StageInv
    /\ \A i \in DOMAIN losses : losses[i] <= hXfer

-----------------------------------------------------------------------------
(* What a packet does to the driver as usbPoll sees it.                      *)
MainKept == UNCHANGED <<msgVars, appVars, pc, blkLen>>
Ignored == UNCHANGED <<txVars, addrVars, usbRxLen, usbRxToken, RxPacket>>
Stored(pkt) ==
    /\ usbRxLen = 0 /\ pkt.len >= 1 /\ usbCurrentTok # 0
    /\ usbRxLen' = pkt.len + 3 /\ usbRxToken' = usbCurrentTok /\ RxPacket' = pkt
    /\ UNCHANGED <<txVars, addrVars>>
Sent ==
    /\ usbRxLen = 0 /\ ~IsHandshake(usbTxLen)
    /\ usbTxLen' = USBPID_NAK /\ usbDeviceAddr' = usbNewDeviceAddr
    /\ UNCHANGED <<usbTxBuf, usbNewDeviceAddr, usbRxLen, usbRxToken, RxPacket>>

\* A packet received into the interrupt routine's own half.
LEMMA ReceivedApart ==
    ASSUME RxTypeOK, NEW pkt, ReceiveInto(pkt)
    PROVE  /\ usbInputBufOffset' = usbInputBufOffset => RxPacket' = RxPacket
           /\ usbInputBufOffset' = 1 - usbInputBufOffset => RxPacket' = pkt
  <1>1. usbInputBufOffset \in 0..1 /\ usbRxBuf \in [0..1 -> Packet]
    BY DEF RxTypeOK
  <1>2. 1 - (1 - usbInputBufOffset) = usbInputBufOffset
        /\ 1 - usbInputBufOffset # usbInputBufOffset
        /\ 1 - usbInputBufOffset \in 0..1
    BY <1>1
  <1>3. usbRxBuf'[usbInputBufOffset] = pkt
        /\ usbRxBuf'[1 - usbInputBufOffset] = usbRxBuf[1 - usbInputBufOffset]
    BY <1>1, <1>2 DEF ReceiveInto
  <1> QED
    BY <1>2, <1>3 DEF RxPacket

LEMMA DeafEffect == DeviceDeaf => Ignored
  BY DEF DeviceDeaf, Ignored, rxVars, RxPacket

LEMMA TokenEffect ==
    ASSUME RxTypeOK, NEW tok, NEW addr, IsrToken(tok, addr)
    PROVE  Ignored /\ usbCurrentTok' \in {0, tok}
  BY ReceivedApart DEF IsrToken, Ignored

LEMMA DataEffect ==
    ASSUME RxTypeOK, NEW pkt, pkt.len \in 0..8, NEW answer, IsrData(pkt, answer)
    PROVE  /\ \/ Ignored /\ answer.pid # USBPID_ACK
              \/ Ignored /\ usbRxLen = 0 /\ pkt.len = 0
              \/ Stored(pkt) /\ answer.pid = USBPID_ACK
           /\ UNCHANGED usbCurrentTok
  <1>1. ReceiveInto(pkt) /\ UNCHANGED <<usbCurrentTok, txVars, addrVars>>
    BY DEF IsrData
  <1>2. ASSUME UNCHANGED <<usbInputBufOffset, usbRxLen, usbRxToken>> PROVE Ignored
    BY <1>1, <1>2, ReceivedApart DEF Ignored
  <1>3. CASE usbCurrentTok = 0
    BY <1>1, <1>2, <1>3 DEF IsrData, Silent
  <1>4. CASE usbCurrentTok # 0 /\ usbRxLen # 0
    BY <1>1, <1>2, <1>4 DEF IsrData, Shake
  <1>5. CASE usbCurrentTok # 0 /\ usbRxLen = 0 /\ pkt.len = 0
    BY <1>1, <1>2, <1>5 DEF IsrData
  <1>6. CASE usbCurrentTok # 0 /\ usbRxLen = 0 /\ pkt.len >= 1
    BY <1>1, <1>6, ReceivedApart DEF IsrData, Shake, Stored
  <1> QED
    BY <1>1, <1>3, <1>4, <1>5, <1>6

LEMMA InEffect ==
    ASSUME DevTypeOK, NEW addr, NEW answer, NEW acked, IsrIn(addr, answer, acked)
    PROVE  \/ Ignored /\ answer.pid \in {0, USBPID_NAK}
           \/ /\ Ignored /\ usbRxLen = 0
              /\ usbTxLen = USBPID_STALL /\ answer.pid = USBPID_STALL
           \/ /\ Sent /\ addr = usbDeviceAddr
              /\ answer = [pid |-> usbTxBuf.pid, data |-> usbTxBuf.data]
  <1>1. ReceiveInto(Junk(0)) /\ UNCHANGED <<usbInputBufOffset, usbRxLen, usbRxToken>>
    BY DEF IsrIn
  <1>2. RxPacket' = RxPacket
    BY <1>1, ReceivedApart DEF DevTypeOK
  <1>3. usbTxLen \in {USBPID_NAK, USBPID_STALL} \cup 4..12 /\ usbRxLen \in {0} \cup 4..11
    BY DEF DevTypeOK, TxTypeOK, RxTypeOK
  <1>4. CASE addr # usbDeviceAddr
    BY <1>1, <1>2, <1>4 DEF IsrIn, Ignored, Silent
  <1>5. CASE addr = usbDeviceAddr /\ usbRxLen >= 1
    BY <1>1, <1>2, <1>3, <1>5 DEF IsrIn, Ignored, Shake
  <1>6. CASE addr = usbDeviceAddr /\ usbRxLen < 1 /\ IsHandshake(usbTxLen)
    <2>1. Ignored /\ answer = Shake(usbTxLen) /\ usbRxLen = 0
      BY <1>1, <1>2, <1>3, <1>6 DEF IsrIn, Ignored
    <2>2. usbTxLen \in {USBPID_NAK, USBPID_STALL}
      BY <1>3, <1>6, HandshakeBit
    <2> QED
      BY <2>1, <2>2 DEF Shake
  <1>7. CASE addr = usbDeviceAddr /\ usbRxLen < 1 /\ ~IsHandshake(usbTxLen)
    BY <1>1, <1>2, <1>3, <1>7 DEF IsrIn, Sent
  <1> QED
    BY <1>3, <1>4, <1>5, <1>6, <1>7

-----------------------------------------------------------------------------
\* A loss is on record for the current transfer.
LEMMA LossOnRecord ==
    ASSUME HostInv, Lose, UNCHANGED hXfer
    PROVE  ~AfterLosses' /\ losses' # <<>> /\ \E i \in DOMAIN losses' : losses'[i] = hXfer
  <1>1. losses \in Seq(0..MaxXfers) /\ hXfer \in 0..MaxXfers
    BY DEF HostInv, TypeOK, LossTypeOK
  <1> DEFINE noted == Append(losses, hXfer)
  <1>2. /\ noted \in Seq(0..MaxXfers) /\ Len(noted) = Len(losses) + 1
        /\ noted[Len(losses) + 1] = hXfer /\ Len(losses) \in Nat
    BY <1>1, AppendProperties, LenProperties
  <1>3. Len(losses) + 1 \in DOMAIN noted
    BY <1>2, LenProperties
  <1>4. losses' = noted
    BY DEF Lose
  <1>5. ~(hXfer < hXfer)
    BY <1>1
  <1>6. noted # <<>>
    BY <1>2, EmptySeq
  <1> QED
    BY <1>2, <1>3, <1>4, <1>5, <1>6 DEF AfterLosses

\* A record with one more loss is another record.
LEMMA LossLonger == HostInv /\ UNCHANGED losses => ~Lose
  <1> SUFFICES ASSUME HostInv, losses' = losses, Lose PROVE FALSE
    OBVIOUS
  <1>1. losses \in Seq(0..MaxXfers) /\ hXfer \in 0..MaxXfers
    BY DEF HostInv, TypeOK, LossTypeOK
  <1>2. Len(Append(losses, hXfer)) = Len(losses) + 1 /\ Len(losses) \in Nat
    BY <1>1, AppendProperties, LenProperties
  <1>3. Append(losses, hXfer) = losses
    BY DEF Lose
  <1>4. Len(losses) = Len(losses) + 1
    BY <1>2, <1>3
  <1> QED
    BY <1>2, <1>4

LEMMA HostLosses == Host => UNCHANGED losses \/ (Lose /\ UNCHANGED hXfer)
  BY DEF Host, HostProgress, HostStart, HostToken, HostData, HostIn, HostAbort,
    HostForeign, HostReset, HostEndReset, Deliver, hostVars

\* What a step of the host loses, it loses in the current transfer.
LEMMA LossesKept ==
    ASSUME HostInv, Host, NEW x \in Int, x <= hXfer,
           \A i \in DOMAIN losses' : losses'[i] < x
    PROVE  ~Lose /\ UNCHANGED losses
  <1>1. UNCHANGED losses \/ (Lose /\ UNCHANGED hXfer)
    BY HostLosses
  <1>2. hXfer \in 0..MaxXfers
    BY DEF HostInv, TypeOK
  <1>3. ASSUME Lose, UNCHANGED hXfer PROVE FALSE
    <2>1. PICK i \in DOMAIN losses' : losses'[i] = hXfer
      BY <1>3, LossOnRecord
    <2> QED
      BY <1>2, <2>1
  <1> QED
    BY <1>1, <1>3, LossLonger

\* Losses before a transfer are before any later one.
LEMMA LossesBefore ==
    ASSUME HostInv, NEW x \in Int, NEW y \in Int, x <= y,
           \A i \in DOMAIN losses : losses[i] < x
    PROVE  \A i \in DOMAIN losses : losses[i] < y
  <1>1. losses \in Seq(0..MaxXfers)
    BY DEF HostInv, TypeOK, LossTypeOK
  <1>2. \A i \in DOMAIN losses : losses[i] \in 0..MaxXfers
    BY <1>1, ElementOfSeq, LenProperties
  <1> QED
    BY <1>2

\* The next packet of the data stage is never empty.
LEMMA ChunkStep ==
    ASSUME HostInv, hSent < hReq.wLength
    PROVE  ChunkLen \in 1..8 /\ ChunkLen <= MaxPkt
  <1>1. hReq.wLength \in 0..254 /\ hSent \in 0..254 /\ MaxPkt \in 1..8
    BY RequestFields, PktAssumption DEF HostInv, TypeOK
  <1>2. \A m \in 1..8, w, s \in 0..254 :
          s < w => LET n == IF w - s > m THEN m ELSE w - s IN n \in 1..8 /\ n <= m
    OBVIOUS
  <1> QED
    BY <1>1, <1>2 DEF ChunkLen

SetupPacket == [len |-> 8, xfer |-> hXfer, off |-> 0, req |-> hReq]
OutPacket == [len |-> ChunkLen, xfer |-> hXfer, off |-> hSent, req |-> NoRequest]

\* A data packet of the host of which nothing is lost.
LEMMA DataCases ==
    ASSUME DriverInv, LinkInv, HostData, ~Lose
    PROVE  /\ MainKept
           /\ UNCHANGED <<line, resets, hXfer, hReq, hGot, hAddr, hGaveUp, losses,
                          usbCurrentTok>>
           /\ \/ /\ Ignored /\ UNCHANGED <<hSent, hTog, hOutcome>>
                 /\ \/ hPhase = "setupData" /\ hPhase' = "setup"
                    \/ hPhase = "outData" /\ hPhase' = "out"
                    \/ hPhase = "statusOutData" /\ hPhase' = "statusOut"
              \/ /\ hPhase = "setupData" /\ Stored(SetupPacket)
                 /\ hPhase' = AfterSetup /\ hTog' = USBPID_DATA1
                 /\ UNCHANGED <<hSent, hOutcome>>
              \/ /\ hPhase = "outData" /\ Stored(OutPacket)
                 /\ hSent' = hSent + ChunkLen /\ hPhase' = AfterOut(hSent')
                 /\ hTog' = IF hPhase' = "out" THEN Flip(hTog) ELSE USBPID_DATA1
                 /\ UNCHANGED hOutcome
              \/ /\ hPhase = "statusOutData" /\ Ignored /\ usbRxLen = 0
                 /\ hPhase' = "idle" /\ hOutcome' = "ok" /\ UNCHANGED <<hSent, hTog>>
  <1>1. HostInv /\ RxTypeOK /\ HostDataPacket \in Packet
    BY HostPacketType DEF DriverInv, HostInv, TypeOK, DevTypeOK
  <1>2. HostDataPacket.len \in 0..8
    BY <1>1 DEF Packet
  <1>3. MainKept /\ UNCHANGED <<line, resets, hXfer, hReq, hGot, hAddr, hGaveUp>>
    BY DEF HostData, BusOnly, MainKept
  <1>4. PICK answer \in {Silent, Shake(USBPID_ACK), Shake(USBPID_NAK)} :
         /\ IsrData(HostDataPacket, answer) /\ UNCHANGED losses
         /\ \/ /\ answer.pid # USBPID_ACK
               /\ hPhase' = CASE hPhase = "setupData" -> "setup"
                              [] hPhase = "outData" -> "out"
                              [] hPhase = "statusOutData" -> "statusOut"
               /\ UNCHANGED <<hSent, hTog, hOutcome>>
            \/ /\ answer.pid = USBPID_ACK /\ hPhase = "setupData"
               /\ hPhase' = AfterSetup /\ hTog' = USBPID_DATA1
               /\ UNCHANGED <<hSent, hOutcome>>
            \/ /\ answer.pid = USBPID_ACK /\ hPhase = "outData"
               /\ hSent' = hSent + ChunkLen
               /\ hPhase' = AfterOut(hSent')
               /\ hTog' = IF hPhase' = "out" THEN Flip(hTog) ELSE USBPID_DATA1
               /\ UNCHANGED hOutcome
            \/ /\ answer.pid = USBPID_ACK /\ hPhase = "statusOutData"
               /\ hPhase' = "idle" /\ hOutcome' = "ok"
               /\ UNCHANGED <<hSent, hTog>>
    BY DEF HostData
  <1>5. /\ \/ Ignored /\ answer.pid # USBPID_ACK
           \/ Ignored /\ usbRxLen = 0 /\ HostDataPacket.len = 0
           \/ Stored(HostDataPacket) /\ answer.pid = USBPID_ACK
        /\ UNCHANGED usbCurrentTok
    BY <1>1, <1>2, <1>4, DataEffect
  <1>6. hPhase \in {"setupData", "outData", "statusOutData"}
    BY DEF HostData
  <1>7. CASE answer.pid # USBPID_ACK
    <2>1. Ignored
      BY <1>5, <1>7
    <2> QED
      BY <1>3, <1>4, <1>5, <1>6, <1>7, <2>1
  <1>8. CASE answer.pid = USBPID_ACK /\ hPhase = "setupData"
    <2>1. HostDataPacket = SetupPacket /\ SetupPacket.len = 8
      BY <1>8 DEF HostDataPacket, SetupPacket
    <2>2. Stored(SetupPacket)
      BY <1>5, <1>8, <2>1
    <2> QED
      BY <1>3, <1>4, <1>5, <1>8, <2>2
  <1>9. CASE answer.pid = USBPID_ACK /\ hPhase = "outData"
    <2>1. HostDataPacket = OutPacket /\ OutPacket.len = ChunkLen
      BY <1>9 DEF HostDataPacket, OutPacket
    <2>2. ChunkLen # 0
      BY <1>1, <1>9, ChunkStep DEF LinkInv, StageInv
    <2>3. Stored(OutPacket)
      BY <1>5, <1>9, <2>1, <2>2
    <2> QED
      BY <1>3, <1>4, <1>5, <1>9, <2>3
  <1>10. CASE answer.pid = USBPID_ACK /\ hPhase = "statusOutData"
    <2>1. HostDataPacket.len = 0
      BY <1>10 DEF HostDataPacket, Junk
    <2>2. Ignored /\ usbRxLen = 0
      BY <1>5, <1>10, <2>1 DEF Stored
    <2> QED
      BY <1>3, <1>4, <1>5, <1>10, <2>2
  <1> QED
    BY <1>6, <1>7, <1>8, <1>9, <1>10

\* An IN transaction of which nothing is lost.
LEMMA InCases ==
    ASSUME DriverInv, HostIn, ~Lose
    PROVE  /\ MainKept
           /\ UNCHANGED <<line, resets, hXfer, hReq, hSent, hGaveUp, losses>>
           /\ \/ Ignored /\ UNCHANGED <<hPhase, hGot, hTog, hAddr, hOutcome>>
              \/ /\ Ignored /\ usbRxLen = 0 /\ usbTxLen = USBPID_STALL
                 /\ hPhase' = "idle" /\ hOutcome' = "stall"
                 /\ UNCHANGED <<hGot, hTog, hAddr>>
              \/ /\ Sent /\ hAddr = usbDeviceAddr /\ usbTxBuf.pid # hTog
                 /\ UNCHANGED <<hPhase, hGot, hTog, hAddr, hOutcome>>
              \/ /\ Sent /\ hAddr = usbDeviceAddr /\ usbTxBuf.pid = hTog /\ hPhase = "in"
                 /\ hGot' = hGot \o usbTxBuf.data
                 /\ hPhase' = AfterIn(hGot', Len(usbTxBuf.data))
                 /\ hTog' = Flip(hTog) /\ UNCHANGED <<hAddr, hOutcome>>
              \/ /\ Sent /\ hAddr = usbDeviceAddr /\ usbTxBuf.pid = hTog /\ hPhase = "statusIn"
                 /\ hPhase' = "idle"
                 /\ hOutcome' = IF usbTxBuf.data = <<>> THEN "ok" ELSE "error"
                 /\ hAddr' = IF hReq.bRequest = "SET_ADDRESS" THEN hReq.value ELSE hAddr
                 /\ UNCHANGED <<hGot, hTog>>
  <1>1. DevTypeOK
    BY DEF DriverInv, HostInv, TypeOK
  <1>2. /\ MainKept /\ UNCHANGED <<line, resets, hXfer, hReq, hSent, hGaveUp>>
        /\ hPhase \in {"in", "statusIn"}
    BY DEF HostIn, BusOnly, MainKept
  <1>3. PICK answer :
         /\ IsrIn(hAddr, answer, TRUE) /\ UNCHANGED losses
         /\ \/ /\ answer.pid \in {0, USBPID_NAK, Flip(hTog)}
               /\ UNCHANGED <<hPhase, hGot, hTog, hAddr, hOutcome>>
            \/ /\ answer.pid = USBPID_STALL
               /\ hPhase' = "idle" /\ hOutcome' = "stall"
               /\ UNCHANGED <<hGot, hTog, hAddr>>
            \/ /\ answer.pid = hTog /\ hPhase = "in"
               /\ hGot' = hGot \o answer.data
               /\ hPhase' = AfterIn(hGot', Len(answer.data))
               /\ hTog' = Flip(hTog)
               /\ UNCHANGED <<hAddr, hOutcome>>
            \/ /\ answer.pid = hTog /\ hPhase = "statusIn"
               /\ hPhase' = "idle"
               /\ hOutcome' = IF answer.data = <<>> THEN "ok" ELSE "error"
               /\ hAddr' = IF hReq.bRequest = "SET_ADDRESS" THEN hReq.value ELSE hAddr
               /\ UNCHANGED <<hGot, hTog>>
    BY DEF HostIn
  <1>4. hTog \in {USBPID_DATA0, USBPID_DATA1} /\ Flip(hTog) \in {USBPID_DATA0, USBPID_DATA1}
        /\ Flip(hTog) # hTog /\ usbTxBuf.pid \in {0, USBPID_DATA0, USBPID_DATA1}
    BY DEF DriverInv, HostInv, TypeOK, DevTypeOK, TxTypeOK, Flip
  <1>5. CASE Ignored /\ answer.pid \in {0, USBPID_NAK}
    BY <1>2, <1>3, <1>4, <1>5
  <1>6. CASE /\ Ignored /\ usbRxLen = 0
             /\ usbTxLen = USBPID_STALL /\ answer.pid = USBPID_STALL
    BY <1>2, <1>3, <1>4, <1>6
  <1>7. CASE /\ Sent /\ hAddr = usbDeviceAddr
             /\ answer = [pid |-> usbTxBuf.pid, data |-> usbTxBuf.data]
    <2>1. answer.pid = usbTxBuf.pid /\ answer.data = usbTxBuf.data
      BY <1>7
    <2> QED
      BY <1>2, <1>3, <1>4, <1>7, <2>1
  <1>8. IsrIn(hAddr, answer, TRUE)
    BY <1>3
  <1>9. \/ Ignored /\ answer.pid \in {0, USBPID_NAK}
        \/ /\ Ignored /\ usbRxLen = 0
           /\ usbTxLen = USBPID_STALL /\ answer.pid = USBPID_STALL
        \/ /\ Sent /\ hAddr = usbDeviceAddr
           /\ answer = [pid |-> usbTxBuf.pid, data |-> usbTxBuf.data]
    BY <1>1, <1>8, InEffect
  <1> QED
    BY <1>5, <1>6, <1>7, <1>9

-----------------------------------------------------------------------------
\* The bytes of a packet, as usbFunctionWrite gets them.
LEMMA PacketBytesSeq ==
    ASSUME NEW pkt \in Packet, NEW n \in Nat
    PROVE  PacketBytes(pkt, n) \in Seq(Byte) /\ Len(PacketBytes(pkt, n)) = n
  <1>1. pkt.xfer \in Nat /\ pkt.off \in Nat
    BY XfersAssumption DEF Packet
  <1>2. \A i \in 1..n : (IF pkt.req = NoRequest THEN <<pkt.xfer, pkt.off + i>>
                         ELSE <<0, i>>) \in Byte
    BY <1>1 DEF Byte
  <1>3. PacketBytes(pkt, n) \in [1..n -> Byte]
    BY <1>2 DEF PacketBytes
  <1>4. PacketBytes(pkt, n) \in Seq(Byte)
    BY <1>3, SeqDef
  <1> QED
    BY <1>3, <1>4, BlockLength

\* Only a control-out request of the application is answered with USB_NO_MSG.
LEMMA RequestReply ==
    ASSUME NEW rq \in RequestType, NEW reply \in ReplyLens(rq)
    PROVE  /\ LimitedLen(reply, rq) = USB_NO_MSG <=> reply = USB_NO_MSG
           /\ reply = USB_NO_MSG => rq.dir = "out"
           /\ reply # USB_NO_MSG => LimitedLen(reply, rq) \in 0..rq.wLength
  <1>1. rq.wLength \in 0..254 /\ rq.dir \in {"in", "out"}
    BY DEF RequestType
  <1>2. CASE rq.bRequest # "FUNCTION"
    <2>1. reply \in 0..254
      BY <1>2, LengthAssumption DEF ReplyLens, StdReplyLen, RequestType, StandardRequests
    <2> QED
      BY <1>1, <2>1 DEF LimitedLen
  <1>3. CASE rq.bRequest = "FUNCTION" /\ rq.dir = "in"
    <2>1. reply \in 0..254
      BY <1>3, LengthAssumption DEF ReplyLens
    <2> QED
      BY <1>1, <2>1 DEF LimitedLen
  <1>4. CASE rq.bRequest = "FUNCTION" /\ rq.dir = "out"
    <2>1. reply \in {0, USB_NO_MSG}
      BY <1>4 DEF ReplyLens
    <2> QED
      BY <1>1, <1>4, <2>1 DEF LimitedLen
  <1> QED
    BY <1>1, <1>2, <1>3, <1>4

\* The receive side of the invariant, under the steps of usbPoll.
LEMMA MainRxInv ==
    ASSUME DriverInv, RxInv, usbPoll, UNCHANGED hXfer
    PROVE  RxInv'
  <1>0. DevTypeOK
    BY DEF DriverInv, HostInv, TypeOK
  <1>1. UNCHANGED <<RxPacket, usbRxToken>>
    BY <1>0, PollSteps, MainKeepsPacket
  <1>2. CASE PollRxLen \/ RxBadSetup \/ RxIgnoredOut \/ PollTxLen \/ TxArm
             \/ PollLine \/ PollReset
    <2>1. UNCHANGED <<usbRxLen, usbTxBuf, usbMsgLen, usbMsgFlags, served, promised, appGot>>
      BY <1>2 DEF PollRxLen, RxBadSetup, RxIgnoredOut, PollTxLen, TxArm,
        PollLine, PollReset, rxVars, txVars, msgVars, appVars
    <2>2. /\ pc' \notin {"abort", "setup"}
          /\ pc' \in {"rx", "rxdone"} => usbRxLen # 0
          /\ pc' = "build" => usbMsgLen # USB_NO_MSG
      BY <1>2 DEF PollRxLen, RxBadSetup, RxIgnoredOut, PollTxLen, TxArm,
        PollLine, PollReset, Main, RxInv
    <2> QED
      BY <1>1, <2>1, <2>2 DEF RxInv
  <1>3. CASE RxSetup
    <2>1. usbTxBuf'.pid = USBPID_DATA0
      BY <1>0, <1>3 DEF RxSetup, DevTypeOK, TxTypeOK
    <2> QED
      BY <1>1, <1>3, <2>1 DEF RxSetup, RxInv, Main, rxVars, msgVars, appVars
  <1>4. CASE RxAbort
    BY <1>1, <1>4 DEF RxAbort, RxInv, Main, rxVars, appVars
  <1>5. ASSUME NEW reply \in ReplyLens(RxPacket.req), RxRequest(reply) PROVE RxInv'
    <2>1. RxPacket.xfer <= hXfer
      BY <1>5 DEF RxRequest, Main, RxInv
    <2>2. usbMsgFlags' => promised' = USB_NO_MSG
      BY <1>0, <1>5, RxPacketType, RequestReply DEF RxRequest, DevTypeOK
    <2>3. /\ UNCHANGED usbRxLen /\ pc = "setup" /\ pc' = "rxdone"
          /\ served' = RxPacket /\ appGot' = <<>>
      BY <1>5 DEF RxRequest, Main, rxVars
    <2>4. appGot' \in Seq(Byte)
      BY <2>3, EmptySeq
    <2> QED
      BY <1>1, <2>1, <2>2, <2>3, <2>4 DEF RxInv
  <1>6. ASSUME NEW rval \in WriteResults(usbRxLen - 3), RxWrite(rval) PROVE RxInv'
    <2>1. usbRxLen - 3 \in Nat /\ RxPacket \in Packet
      BY <1>0, <1>6, RxPacketType DEF RxWrite, Main, RxInv, DevTypeOK, RxTypeOK
    <2>2. appGot' \in Seq(Byte)
      BY <1>6, <2>1, PacketBytesSeq, ConcatProperties DEF RxWrite, RxInv
    <2> QED
      BY <1>1, <1>6, <2>2 DEF RxWrite, RxInv, Main, rxVars
  <1>7. CASE RxRelease
    BY <1>1, <1>7 DEF RxRelease, RxInv, Main, txVars, msgVars, appVars
  <1>8. CASE TxBuild \/ TxCopy \/ TxCrc
    <2>1. UNCHANGED <<usbRxLen, usbMsgFlags, served, promised, appGot>>
          /\ pc' \in {"copy", "crc", "arm"}
      BY <1>8 DEF TxBuild, TxCopy, TxCrc, Main, rxVars, appVars
    <2> QED
      BY <1>1, <2>1 DEF RxInv
  <1> QED
    BY <1>2, <1>3, <1>4, <1>5, <1>6, <1>7, <1>8 DEF usbPoll, PollDriver

\* What any step of the host does to the driver.
LEMMA HostEffect ==
    ASSUME DriverInv, Host
    PROVE  /\ MainKept /\ hXfer \in Nat /\ hXfer' \in {hXfer, hXfer + 1}
           /\ \/ Ignored \/ Sent
              \/ \E pkt \in Packet : pkt.xfer <= hXfer /\ Stored(pkt)
  <1>0. /\ HostInv /\ DevTypeOK /\ RxTypeOK /\ hXfer \in Nat
        /\ \A pkt \in Packet : pkt.len \in 0..8 /\ pkt.xfer \in Nat
    BY XfersAssumption DEF DriverInv, HostInv, TypeOK, DevTypeOK, Packet
  <1>1. HostDataPacket \in Packet /\ HostDataPacket.xfer <= hXfer
    BY <1>0, HostPacketType DEF HostDataPacket, Junk
  <1>2. CASE \E rq \in Requests : HostStart(rq)
    BY <1>0, <1>2, DeafEffect DEF HostStart, BusOnly, MainKept
  <1>3. CASE HostToken
    BY <1>0, <1>3, DeafEffect, TokenEffect DEF HostToken, Deliver, BusOnly, MainKept
  <1>4. CASE HostData
    <2>1. \A answer : IsrData(HostDataPacket, answer) => Ignored \/ Stored(HostDataPacket)
      BY <1>0, <1>1, DataEffect
    <2>2. Ignored \/ Stored(HostDataPacket)
      BY <1>4, <2>1, DeafEffect DEF HostData
    <2> QED
      BY <1>0, <1>1, <1>4, <2>2 DEF HostData, BusOnly, MainKept
  <1>5. CASE HostIn
    <2>1. \A answer : \A acked : IsrIn(hAddr, answer, acked) => Ignored \/ Sent
      BY <1>0, InEffect
    <2>2. Ignored \/ Sent
      BY <1>5, <2>1, DeafEffect DEF HostIn
    <2> QED
      BY <1>0, <1>5, <2>2 DEF HostIn, BusOnly, MainKept
  <1>6. CASE HostAbort
    BY <1>0, <1>6, DeafEffect DEF HostAbort, BusOnly, MainKept
  <1>7. CASE HostForeign
    <2>1. MainKept /\ hXfer' = hXfer
      BY <1>7 DEF HostForeign, BusOnly, MainKept, hostVars
    <2>2. Junk(8) \in Packet /\ \A rq \in Requests :
            [Junk(8) EXCEPT !.req = rq] \in Packet /\ [Junk(8) EXCEPT !.req = rq].xfer = 0
      BY PacketTypes DEF Packet, Junk
    <2>3. Junk(8).xfer = 0
      BY DEF Junk
    <2>4. \/ DeviceDeaf
          \/ \E addr \in Others : IsrToken(USBPID_OUT, addr)
          \/ \E pkt \in Packet : pkt.xfer = 0 /\ \E answer : IsrData(pkt, answer)
      BY <1>7, <2>2, <2>3 DEF HostForeign, Deliver
    <2>5. CASE DeviceDeaf \/ \E addr \in Others : IsrToken(USBPID_OUT, addr)
      BY <1>0, <2>1, <2>5, DeafEffect, TokenEffect
    <2>6. CASE \E pkt \in Packet : pkt.xfer = 0 /\ \E answer : IsrData(pkt, answer)
      <3>1. PICK pkt \in Packet : pkt.xfer = 0 /\ \E answer : IsrData(pkt, answer)
        BY <2>6
      <3>2. Ignored \/ Stored(pkt)
        BY <1>0, <3>1, DataEffect
      <3> QED
        BY <1>0, <2>1, <3>1, <3>2
    <2> QED
      BY <2>4, <2>5, <2>6
  <1>8. CASE HostReset \/ HostEndReset
    BY <1>0, <1>8, DeafEffect DEF HostReset, HostEndReset, MainKept
  <1> QED
    BY <1>2, <1>3, <1>4, <1>5, <1>6, <1>7, <1>8 DEF Host, HostProgress

\* The receive side of the invariant, under the packets of the bus.
LEMMA HostRxInv ==
    ASSUME DriverInv, RxInv, Host
    PROVE  RxInv'
  <1>0. /\ MainKept /\ hXfer \in Nat /\ hXfer' \in {hXfer, hXfer + 1}
        /\ \/ Ignored \/ Sent
           \/ \E pkt \in Packet : pkt.xfer <= hXfer /\ Stored(pkt)
    BY HostEffect
  <1>1. DevTypeOK /\ served.xfer \in Nat /\ RxPacket.xfer \in Nat
    BY RxPacketType, XfersAssumption
      DEF DriverInv, HostInv, TypeOK, DevTypeOK, AppTypeOK, Packet
  <1>2. /\ UNCHANGED <<pc, usbMsgLen, usbMsgFlags, served, promised, appGot>>
        /\ served.xfer <= hXfer => served.xfer <= hXfer'
        /\ RxPacket.xfer <= hXfer => RxPacket.xfer <= hXfer'
    BY <1>0, <1>1 DEF MainKept, msgVars, appVars
  <1>3. CASE Ignored \/ Sent
    <2>1. /\ UNCHANGED <<usbRxLen, usbRxToken, RxPacket, usbTxBuf>>
          /\ usbTxLen' = usbTxLen \/ usbTxLen' = USBPID_NAK
      BY <1>3 DEF Ignored, Sent, txVars
    <2> QED
      BY <1>2, <2>1 DEF RxInv
  <1>4. CASE \E pkt \in Packet : pkt.xfer <= hXfer /\ Stored(pkt)
    <2>1. PICK pkt \in Packet : pkt.xfer <= hXfer /\ Stored(pkt)
      BY <1>4
    <2>2. pkt.xfer \in Nat /\ pkt.len \in 0..8
      BY <2>1, XfersAssumption DEF Packet
    <2>3. /\ usbRxLen = 0 /\ usbRxLen' # 0 /\ usbRxLen' = RxPacket'.len + 3
          /\ RxPacket'.xfer <= hXfer' /\ usbRxToken' # 0
      BY <1>0, <2>1, <2>2 DEF Stored
    <2> QED
      BY <1>2, <2>3 DEF RxInv
  <1> QED
    BY <1>0, <1>3, <1>4

\* The line is idle as long as the host does not hold it in reset.
LEMMA MainStage ==
    ASSUME DriverInv, StageInv, usbPoll, UNCHANGED hostVars
    PROVE  StageInv'
  <1>1. \/ line' = line
        \/ line = "reset" /\ line' = "polled"
        \/ line = "polled" /\ line' = "seen"
    BY DEF usbPoll, PollDriver, PollRxLen, RxBadSetup, RxSetup, RxAbort, RxRequest,
      RxIgnoredOut, RxWrite, RxRelease, PollTxLen, TxBuild, TxCopy, TxCrc, TxArm,
      PollLine, PollReset
  <1> QED
    BY <1>1 DEF StageInv, hostVars, Working

\* The stages of a transfer, with or without losses.
LEMMA HostStage ==
    ASSUME DriverInv, StageInv, Host
    PROVE  StageInv'
  <1>a. hReq \in RequestType
    BY RequestAssumption DEF DriverInv, HostInv, TypeOK, RequestType, NoRequest,
      StandardRequests
  <1>0. /\ hReq.wLength \in 0..254 /\ hReq.dir \in {"in", "out"}
        /\ hSent \in 0..254 /\ hSent <= hReq.wLength
    BY <1>a DEF DriverInv, HostInv, TypeOK, RequestType
  <1>b. usbTxBuf.data \in Seq(Byte)
    BY DEF DriverInv, HostInv, TypeOK, DevTypeOK, TxTypeOK
  <1>c. \A m \in Nat, w \in 0..254 : m >= w \/ m < w
    OBVIOUS
  <1>1. ASSUME NEW rq \in Requests, HostStart(rq) PROVE StageInv'
    BY <1>1, EmptySeq DEF HostStart, StageInv, Working, BusOnly
  <1>2. CASE HostToken
    <2>1. /\ UNCHANGED <<hReq, hGot, hSent, hTog, hOutcome, line>>
          /\ \/ hPhase = "setup" /\ hPhase' = "setupData"
             \/ hPhase = "out" /\ hPhase' = "outData"
             \/ hPhase = "statusOut" /\ hPhase' = "statusOutData"
      BY <1>2 DEF HostToken, BusOnly
    <2> QED
      BY <2>1 DEF StageInv, Working
  <1>3. CASE HostData
    <2>0. UNCHANGED <<hReq, hGot, line>>
      BY <1>3 DEF HostData, BusOnly
    <2>1. \/ /\ UNCHANGED <<hSent, hTog, hOutcome>>
             /\ \/ hPhase = "setupData" /\ hPhase' = "setup"
                \/ hPhase = "outData" /\ hPhase' = "out"
                \/ hPhase = "statusOutData" /\ hPhase' = "statusOut"
          \/ /\ hPhase = "setupData" /\ hPhase' = AfterSetup /\ hTog' = USBPID_DATA1
             /\ UNCHANGED <<hSent, hOutcome>>
          \/ /\ hPhase = "outData" /\ hSent' = hSent + ChunkLen
             /\ hPhase' = AfterOut(hSent') /\ (hPhase' # "out" => hTog' = USBPID_DATA1)
             /\ UNCHANGED hOutcome
          \/ /\ hPhase = "statusOutData" /\ hPhase' = "idle" /\ hOutcome' = "ok"
             /\ UNCHANGED hSent
      BY <1>3 DEF HostData
    <2>2. CASE /\ UNCHANGED <<hSent, hTog, hOutcome>>
               /\ \/ hPhase = "setupData" /\ hPhase' = "setup"
                  \/ hPhase = "outData" /\ hPhase' = "out"
                  \/ hPhase = "statusOutData" /\ hPhase' = "statusOut"
      BY <2>0, <2>2 DEF StageInv, Working
    <2>3. CASE /\ hPhase = "setupData" /\ hPhase' = AfterSetup /\ hTog' = USBPID_DATA1
               /\ UNCHANGED <<hSent, hOutcome>>
      <3>1. hPhase' = IF hReq.wLength = 0 THEN "statusIn" ELSE hReq.dir
        BY <2>3 DEF AfterSetup
      <3>2. hSent' = 0 /\ hGot' = <<>> /\ Len(hGot') = 0 /\ hGot' \in Seq(Byte)
        BY <2>0, <2>3, EmptySeq DEF StageInv
      <3>3. hOutcome' = "pending" /\ line' = "idle"
        BY <2>0, <2>3 DEF StageInv, Working
      <3>4. CASE hReq.wLength = 0
        BY <1>0, <2>0, <2>3, <3>1, <3>2, <3>3, <3>4 DEF StageInv, Working
      <3>5. CASE hReq.wLength # 0
        <4>1. hReq.wLength > 0 /\ hPhase' = hReq.dir
          BY <1>0, <3>1, <3>5
        <4> QED
          BY <1>0, <2>0, <2>3, <3>2, <3>3, <4>1 DEF StageInv, Working
      <3> QED
        BY <3>4, <3>5
    <2>4. CASE /\ hPhase = "outData" /\ hSent' = hSent + ChunkLen
               /\ hPhase' = AfterOut(hSent') /\ (hPhase' # "out" => hTog' = USBPID_DATA1)
               /\ UNCHANGED hOutcome
      <3>1. hSent' \in Nat /\ hSent' <= hReq.wLength
        <4>1. ChunkLen \in 0..(hReq.wLength - hSent)
          BY <1>0, ChunkBound DEF ChunkLen
        <4>2. \A w, s \in 0..254 : s <= w => \A n \in 0..(w - s) : s + n \in Nat /\ s + n <= w
          OBVIOUS
        <4>3. hSent + ChunkLen \in Nat /\ hSent + ChunkLen <= hReq.wLength
          BY <1>0, <4>1, <4>2
        <4> QED
          BY <2>4, <4>3
      <3>2. hPhase' = IF hSent' = hReq.wLength THEN "statusIn" ELSE "out"
        BY <2>4 DEF AfterOut
      <3>3. hSent' # hReq.wLength => hSent' < hReq.wLength
        BY <1>0, <3>1
      <3>4. /\ hOutcome' = "pending" /\ line' = "idle" /\ hReq.dir = "out"
            /\ hGot' = <<>> /\ hGot' \in Seq(Byte)
        BY <2>0, <2>4 DEF StageInv, Working
      <3> QED
        BY <2>0, <2>4, <3>2, <3>3, <3>4 DEF StageInv, Working
    <2>5. CASE /\ hPhase = "statusOutData" /\ hPhase' = "idle" /\ hOutcome' = "ok"
               /\ UNCHANGED hSent
      BY <2>0, <2>5 DEF StageInv, Working
    <2> QED
      BY <2>1, <2>2, <2>3, <2>4, <2>5
  <1>4. CASE HostIn
    <2>0. UNCHANGED <<hReq, hSent, line>> /\ hPhase \in {"in", "statusIn"}
      BY <1>4 DEF HostIn, BusOnly
    <2>1. \/ UNCHANGED <<hPhase, hGot, hTog, hOutcome>>
          \/ /\ hPhase' = "idle" /\ hOutcome' \in {"ok", "error", "stall"}
             /\ UNCHANGED hGot
          \/ /\ hPhase = "in" /\ UNCHANGED hOutcome
             /\ \E data \in {<<>>, usbTxBuf.data} :
                  hGot' = hGot \o data /\ hPhase' = AfterIn(hGot', Len(data))
      <3>1. PICK answer \in {Silent, Shake(USBPID_NAK), Shake(USBPID_STALL),
                             [pid |-> usbTxBuf.pid, data |-> usbTxBuf.data]} :
             \/ UNCHANGED <<hPhase, hGot, hTog, hOutcome>>
             \/ hPhase' = "idle" /\ hOutcome' = "stall" /\ UNCHANGED hGot
             \/ /\ hPhase = "in" /\ UNCHANGED hOutcome
                /\ hGot' = hGot \o answer.data
                /\ hPhase' = AfterIn(hGot', Len(answer.data))
             \/ /\ hPhase' = "idle" /\ UNCHANGED hGot
                /\ hOutcome' = IF answer.data = <<>> THEN "ok" ELSE "error"
        BY <1>4 DEF HostIn
      <3>2. answer.data \in {<<>>, usbTxBuf.data}
        BY DEF Silent, Shake
      <3> QED
        BY <3>1, <3>2
    <2>2. CASE UNCHANGED <<hPhase, hGot, hTog, hOutcome>>
      BY <2>0, <2>2 DEF StageInv, Working
    <2>3. CASE /\ hPhase' = "idle" /\ hOutcome' \in {"ok", "error", "stall"}
               /\ UNCHANGED hGot
      BY <2>0, <2>3 DEF StageInv, Working
    <2>4. CASE /\ hPhase = "in" /\ UNCHANGED hOutcome
               /\ \E data \in {<<>>, usbTxBuf.data} :
                    hGot' = hGot \o data /\ hPhase' = AfterIn(hGot', Len(data))
      <3>1. PICK data \in {<<>>, usbTxBuf.data} :
              hGot' = hGot \o data /\ hPhase' = AfterIn(hGot', Len(data))
        BY <2>4
      <3>a. data \in Seq(Byte) /\ hGot \in Seq(Byte)
        BY ZenonT(60), <1>b, EmptySeq DEF StageInv
      <3>2. hGot' \in Seq(Byte) /\ Len(hGot') \in Nat
        <4>1. hGot \o data \in Seq(Byte)
          BY <3>a, ConcatProperties
        <4> QED
          BY <3>1, <4>1, LenProperties
      <3>3. \/ hPhase' = "statusOut"
            \/ hPhase' = "in" /\ Len(hGot') < hReq.wLength
        <4>1. \/ hPhase' = "statusOut"
              \/ hPhase' = "in" /\ ~(Len(hGot') >= hReq.wLength)
          BY <2>0, <3>1 DEF AfterIn
        <4>2. Len(hGot') >= hReq.wLength \/ Len(hGot') < hReq.wLength
          BY <1>0, <1>c, <3>2
        <4> QED
          BY <4>1, <4>2
      <3> QED
        BY <2>0, <2>4, <3>2, <3>3 DEF StageInv, Working
    <2> QED
      BY <2>1, <2>2, <2>3, <2>4
  <1>5. CASE HostAbort
    BY <1>5 DEF HostAbort, StageInv, Working, BusOnly, Stages
  <1>6. CASE HostForeign
    BY <1>6 DEF HostForeign, StageInv, Working, BusOnly, hostVars
  <1>7. CASE HostReset
    BY <1>7 DEF HostReset, StageInv, Working, Stages
  <1>8. CASE HostEndReset
    BY <1>8 DEF HostEndReset, StageInv, Working
  <1> QED
    BY <1>1, <1>2, <1>3, <1>4, <1>5, <1>6, <1>7, <1>8 DEF Host, HostProgress

\* A loss is never noted for a transfer that has not begun.
LEMMA LossesPast ==
    ASSUME HostInv, [Next]_vars, \A i \in DOMAIN losses : losses[i] <= hXfer
    PROVE  \A i \in DOMAIN losses' : losses'[i] <= hXfer'
  <1>1. losses \in Seq(0..MaxXfers) /\ hXfer \in 0..MaxXfers
    BY DEF HostInv, TypeOK, LossTypeOK
  <1>2. \/ losses' = losses /\ hXfer' \in {hXfer, hXfer + 1}
        \/ Lose /\ hXfer' = hXfer
    BY DEF Next, vars, hostVars, Host, HostProgress, HostStart, HostToken, HostData,
      HostIn, HostAbort, HostForeign, HostReset, HostEndReset, Deliver
  <1>3. \A i \in DOMAIN losses : losses[i] \in Nat
    BY <1>1, XfersAssumption
  <1>4. CASE losses' = losses /\ hXfer' \in {hXfer, hXfer + 1}
    BY <1>1, <1>3, <1>4, XfersAssumption
  <1>5. CASE Lose /\ hXfer' = hXfer
    <2> DEFINE noted == Append(losses, hXfer)
    <2>1. /\ noted \in Seq(0..MaxXfers) /\ Len(noted) = Len(losses) + 1
          /\ noted[Len(losses) + 1] = hXfer /\ Len(losses) \in Nat
          /\ \A i \in 1..Len(losses) : noted[i] = losses[i]
          /\ DOMAIN losses = 1..Len(losses)
      BY <1>1, AppendProperties, LenProperties
    <2>2. \A i \in DOMAIN noted : i \in 1..Len(losses) \/ i = Len(losses) + 1
      BY <2>1, LenProperties
    <2>3. losses' = noted
      BY <1>5 DEF Lose
    <2> HIDE DEF noted
    <2> QED
      BY SMTT(30), <1>1, <1>5, <2>1, <2>2, <2>3, XfersAssumption
  <1> QED
    BY <1>2, <1>4, <1>5

LEMMA LinkInit == Init => LinkInv
  <1> SUFFICES ASSUME Init PROVE LinkInv
    OBVIOUS
  <1>1. RxInv
    BY EmptySeq DEF Init, DevInit, HostInit, RxInv, Junk
  <1>2. StageInv
    BY EmptySeq DEF Init, DevInit, HostInit, StageInv, Working
  <1>3. losses = <<>> /\ \A i \in DOMAIN <<>> : FALSE
    BY DEF Init, HostInit
  <1> QED
    BY <1>1, <1>2, <1>3 DEF LinkInv

LEMMA LinkStep == DriverInv /\ LinkInv /\ [Next]_vars => LinkInv'
  <1> SUFFICES ASSUME DriverInv, LinkInv, [Next]_vars PROVE LinkInv'
    OBVIOUS
  <1>1. \A i \in DOMAIN losses' : losses'[i] <= hXfer'
    BY LossesPast DEF LinkInv, DriverInv
  <1>2. CASE usbPoll /\ UNCHANGED <<hostVars, resets, losses>>
    <2>1. hXfer' = hXfer
      BY <1>2 DEF hostVars
    <2> QED
      BY <1>1, <1>2, <2>1, MainRxInv, MainStage DEF LinkInv
  <1>3. CASE Host
    BY <1>1, <1>3, HostRxInv, HostStage DEF LinkInv
  <1>4. CASE UNCHANGED vars
    <2>1. RxInv'
      BY <1>4 DEF LinkInv, RxInv, vars, devVars, hostVars, rxVars, txVars, msgVars,
        appVars, RxPacket
    <2>2. StageInv'
      BY <1>4 DEF LinkInv, StageInv, Working, vars, devVars, hostVars
    <2> QED
      BY <1>1, <2>1, <2>2 DEF LinkInv
  <1> QED
    BY <1>2, <1>3, <1>4 DEF Next

-----------------------------------------------------------------------------
(***************************************************************************)
(* The reply to a request on its way to the host.  Of the bytes promised,  *)
(* "done" are at the host, and tog is the identifier of the next packet:   *)
(* it is armed, or usbBuildTxBlock has yet to begin, copy or finish it.    *)
(***************************************************************************)
ChunkOf(rest) == IF rest > MaxPkt THEN MaxPkt ELSE rest
After(n, rest) == IF n < MaxPkt THEN USB_NO_MSG ELSE rest - n
Block(done, n) == [i \in 1..n |-> <<served.xfer, done + i>>]

Armed(done, tog, rest, n) ==
    /\ usbTxLen = n + 4 /\ pc \notin Building \cup {"build"}
    /\ usbTxBuf.pid = tog /\ usbTxBuf.data = Block(done, n)
    /\ usbMsgPtr.off = done + n /\ usbMsgLen = After(n, rest)
Resting(done, tog, rest) ==
    /\ usbTxLen = USBPID_NAK /\ pc \notin Building
    /\ usbTxBuf.pid = Flip(tog) /\ usbMsgPtr.off = done /\ usbMsgLen = rest
Reserved(done, tog, rest, n) ==
    /\ usbTxLen = USBPID_NAK /\ pc = "copy" /\ blkLen = n
    /\ usbTxBuf.pid = tog /\ usbMsgPtr.off = done /\ usbMsgLen = rest - n
Filled(done, tog, rest, n) ==
    /\ usbTxLen = USBPID_NAK /\ pc \in {"crc", "arm"} /\ blkLen = n
    /\ usbTxBuf.pid = tog /\ usbTxBuf.data = Block(done, n)
    /\ usbMsgPtr.off = done + n
    /\ usbMsgLen = IF pc = "crc" THEN rest - n ELSE After(n, rest)

ChainParts(done, tog, rest, n) ==
    \/ Armed(done, tog, rest, n) \/ Resting(done, tog, rest)
    \/ Reserved(done, tog, rest, n) \/ Filled(done, tog, rest, n)
Chain(done, tog) ==
    /\ done <= promised
    /\ ChainParts(done, tog, promised - done, ChunkOf(promised - done))

(* The data stage of a control-out request that the application takes.       *)
Writing ==
    /\ appVerdict \in {0, 255} =>
         /\ usbTxLen = IF appVerdict = 0 THEN USBPID_NAK ELSE USBPID_STALL
         /\ usbMsgLen = USB_NO_MSG /\ pc \notin Building \cup {"build"}
    /\ appVerdict = 1 =>
         /\ usbTxLen \in {USBPID_NAK, 4} /\ usbMsgLen \in {0, USB_NO_MSG}
         /\ pc \in Building => blkLen = 0
    /\ Len(appGot) + (IF PendingOut THEN RxPacket.len ELSE 0) = hSent

(* usbProcessRx has yet to take up the host's request, or has done so.       *)
Accepted ==
    /\ PendingSetup /\ RxPacket = SetupPacket
    /\ hGot = <<>> /\ hSent = 0 /\ hTog = USBPID_DATA1
    /\ hPhase \notin {"statusOut", "statusOutData"}

InService ==
    /\ served.req = hReq /\ ~PendingSetup
    /\ usbMsgFlags <=> promised = USB_NO_MSG
    /\ hReq.dir = "in" /\ usbRxLen # 0 => pc = "rxdone"
    /\ \E reply \in ReplyLens(hReq) : promised = LimitedLen(reply, hReq)
    /\ hPhase \in {"in", "statusOut", "statusOutData"} =>
         hGot = Payload(hXfer, Len(hGot))
    /\ hPhase \in {"statusOut", "statusOutData"} => Len(hGot) = promised
    /\ hPhase = "in" => Chain(Len(hGot), hTog)
    /\ hPhase \in {"out", "outData", "statusIn"} =>
         IF usbMsgFlags THEN Writing ELSE Chain(0, USBPID_DATA1)

(***************************************************************************)
(* Both ends of a transfer in which nothing has been lost.                 *)
(***************************************************************************)
TransferInv ==
    AfterLosses =>
      /\ hPhase = "setupData" => usbCurrentTok \in {0, USBPID_SETUP}
      /\ hPhase = "outData" => usbCurrentTok \in {0, USBPID_OUT}
      /\ hPhase \in {"setup", "setupData"} =>
           /\ served.xfer < hXfer
           /\ usbRxLen # 0 => RxPacket.xfer < hXfer
      /\ PastSetup => IF served.xfer = hXfer THEN InService ELSE Accepted
      /\ hOutcome \in {"ok", "stall"} => usbRxLen = 0

(* What the application receives is the data of the transfer being served,  *)
(* aborted by the host or not, when nothing was lost in it or since.         *)
Trusted == \A i \in DOMAIN losses : losses[i] < served.xfer
WriteInv ==
    (Trusted /\ usbMsgFlags) =>
      /\ appGot = Payload(served.xfer, Len(appGot))
      /\ PendingOut => /\ RxPacket.xfer = served.xfer /\ RxPacket.off = Len(appGot)
                       /\ RxPacket.req = NoRequest /\ RxPacket.len <= MaxPkt

PipeInv == DriverInv /\ LinkInv /\ TransferInv /\ WriteInv /\ ControlOut

-----------------------------------------------------------------------------
\* The bytes of a transfer, and a block of them appended in its place.
LEMMA PayloadSeq ==
    ASSUME NEW x \in Nat, NEW n \in Nat
    PROVE  /\ Payload(x, n) \in Seq(Byte) /\ Len(Payload(x, n)) = n
           /\ \A i \in 1..n : Payload(x, n)[i] = <<x, i>>
  <1>1. Payload(x, n) \in [1..n -> Byte]
    BY DEF Payload, Byte
  <1>2. Payload(x, n) \in Seq(Byte)
    BY <1>1, SeqDef
  <1> QED
    BY <1>1, <1>2, BlockLength DEF Payload

LEMMA PayloadEmpty == \A x \in Nat : Payload(x, 0) = <<>>
  <1> SUFFICES ASSUME NEW x \in Nat PROVE Payload(x, 0) = <<>>
    OBVIOUS
  <1>1. Payload(x, 0) \in Seq(Byte) /\ Len(Payload(x, 0)) = 0
    BY PayloadSeq
  <1> QED
    BY <1>1, EmptySeq

LEMMA PayloadConcat ==
    ASSUME NEW x \in Nat, NEW s \in Seq(Byte), s = Payload(x, Len(s)),
           NEW t \in Seq(Byte), \A i \in 1..Len(t) : t[i] = <<x, Len(s) + i>>
    PROVE  s \o t = Payload(x, Len(s \o t)) /\ Len(s \o t) = Len(s) + Len(t)
  <1>1. /\ s \o t \in Seq(Byte) /\ Len(s \o t) = Len(s) + Len(t)
        /\ \A i \in 1..(Len(s) + Len(t)) :
             (s \o t)[i] = IF i <= Len(s) THEN s[i] ELSE t[i - Len(s)]
    BY ConcatProperties
  <1>2. Len(s) \in Nat /\ Len(t) \in Nat /\ Len(s \o t) \in Nat
    BY <1>1, LenProperties
  <1>3. \A i \in 1..Len(s) : s[i] = <<x, i>>
    BY ZenonT(60), <1>2, PayloadSeq
  <1>4. /\ Payload(x, Len(s \o t)) \in Seq(Byte)
        /\ Len(Payload(x, Len(s \o t))) = Len(s \o t)
        /\ \A i \in 1..Len(s \o t) : Payload(x, Len(s \o t))[i] = <<x, i>>
    BY <1>2, PayloadSeq
  <1>5. ASSUME NEW i \in 1..(Len(s) + Len(t)) PROVE (s \o t)[i] = <<x, i>>
    <2>1. CASE i <= Len(s)
      BY <1>1, <1>2, <1>3, <2>1
    <2>2. CASE ~(i <= Len(s))
      <3>1. i - Len(s) \in 1..Len(t) /\ Len(s) + (i - Len(s)) = i
        BY <1>2, <2>2
      <3> QED
        BY <1>1, <2>2, <3>1
    <2> QED
      BY <2>1, <2>2
  <1>6. \A i \in 1..Len(s \o t) : (s \o t)[i] = Payload(x, Len(s \o t))[i]
    BY <1>1, <1>4, <1>5
  <1> QED
    BY <1>1, <1>4, <1>6, SeqEqual

-----------------------------------------------------------------------------
\* The steps of usbPoll that neither take up a SETUP packet nor call
\* usbFunctionWrite, by what they leave alone.
TxSide == \/ PollRxLen \/ RxIgnoredOut \/ RxRelease \/ PollTxLen \/ TxBuild
          \/ TxCopy \/ TxCrc \/ TxArm \/ PollLine \/ PollReset

LEMMA TxSideFrame ==
    ASSUME TxSide
    PROVE  /\ UNCHANGED <<appVars, usbMsgFlags, RxPacket, usbRxToken>>
           /\ \/ /\ UNCHANGED usbRxLen /\ pc # "rxdone"
                 /\ pc' = "rxdone" => RxIgnoredOut
              \/ pc = "rxdone" /\ usbRxLen' = 0 /\ pc' = "tx"
  BY DEF TxSide, PollRxLen, RxIgnoredOut, RxRelease, PollTxLen, TxBuild, TxCopy,
    TxCrc, TxArm, PollLine, PollReset, Main, rxVars, msgVars, IsrOwned, RxPacket

\* usbBuildTxBlock moves the reply on by one block, and nothing else does.
LEMMA ChainPartsMain ==
    ASSUME DevTypeOK, TxBlockOK, TxSide,
           NEW done \in Nat, NEW tog \in {USBPID_DATA0, USBPID_DATA1},
           NEW rest \in 0..254, NEW n, n = ChunkOf(rest),
           ChainParts(done, tog, rest, n)
    PROVE  ChainParts(done, tog, rest, n)'
  <1>0. /\ n \in 0..8 /\ n <= rest /\ n <= MaxPkt /\ MaxPkt \in 1..8
        /\ rest > MaxPkt => n = MaxPkt
        /\ ~(rest > MaxPkt) => n = rest
    BY PktAssumption DEF ChunkOf
  <1>1. UNCHANGED served
    BY TxSideFrame DEF appVars
  <1>2. CASE PollRxLen \/ RxIgnoredOut \/ RxRelease \/ PollLine \/ PollReset
    <2>1. UNCHANGED <<usbTxLen, usbTxBuf, usbMsgPtr, usbMsgLen>>
          /\ pc \notin Building \cup {"build"} /\ pc' \notin Building \cup {"build"}
      BY <1>2 DEF PollRxLen, RxIgnoredOut, RxRelease, PollLine, PollReset, Main,
        Building, txVars, msgVars
    <2> QED
      BY <1>1, <2>1 DEF ChainParts, Armed, Resting, Reserved, Filled, Block, Building
  <1>3. CASE PollTxLen
    <2>1. UNCHANGED <<usbTxLen, usbTxBuf, usbMsgPtr, usbMsgLen>> /\ pc = "tx"
          /\ pc' = IF IsHandshake(usbTxLen) /\ usbMsgLen # USB_NO_MSG
                     THEN "build" ELSE "line"
      BY <1>3 DEF PollTxLen, Main, txVars, msgVars
    <2>2. CASE Armed(done, tog, rest, n)
      <3>1. ~IsHandshake(usbTxLen)
        <4>1. n + 4 \in 4..12
          BY <1>0
        <4> QED
          BY <2>2, <4>1, HandshakeBit DEF Armed
      <3> QED
        BY <1>1, <2>1, <2>2, <3>1 DEF ChainParts, Armed, Block, Building
    <2>3. CASE Resting(done, tog, rest)
      BY <2>1, <2>3 DEF ChainParts, Resting, Building
    <2> QED
      BY <2>1, <2>2, <2>3 DEF ChainParts, Reserved, Filled
  <1>4. CASE TxBuild
    <2>1. /\ pc = "build" /\ pc' = "copy" /\ UNCHANGED <<usbTxLen, usbMsgPtr>>
          /\ blkLen' = ChunkOf(usbMsgLen) /\ usbMsgLen' = usbMsgLen - blkLen'
          /\ usbTxBuf'.pid = Toggle(usbTxBuf.pid)
      BY <1>4 DEF TxBuild, Main, ChunkOf, DevTypeOK, TxTypeOK
    <2>2. Resting(done, tog, rest)
      BY <2>1 DEF ChainParts, Armed, Reserved, Filled
    <2>3. Toggle(Flip(tog)) = tog
      BY DEF Toggle, Flip
    <2> QED
      BY <2>1, <2>2, <2>3 DEF ChainParts, Resting, Reserved
  <1>5. CASE TxCopy
    <2>1. /\ pc = "copy" /\ pc' = "crc" /\ UNCHANGED <<usbTxLen, usbMsgLen, blkLen>>
          /\ usbTxBuf'.pid = usbTxBuf.pid /\ usbMsgPtr'.off = usbMsgPtr.off + blkLen
          /\ usbTxBuf'.data =
               [i \in 1..blkLen |-> <<usbMsgPtr.xfer, usbMsgPtr.off + i>>]
      BY <1>5 DEF TxCopy, Main, DevTypeOK, TxTypeOK, MsgTypeOK
    <2>2. Reserved(done, tog, rest, n)
      BY <2>1 DEF ChainParts, Armed, Resting, Filled, Building
    <2>3. usbTxBuf'.data = Block(done, n)'
      BY <1>1, <2>1, <2>2 DEF Reserved, Block, TxBlockOK
    <2>4. Filled(done, tog, rest, n)'
      BY <2>1, <2>2, <2>3 DEF Reserved, Filled
    <2> QED
      BY <2>4 DEF ChainParts
  <1>6. CASE TxCrc
    <2>1. /\ pc = "crc" /\ pc' = "arm" /\ UNCHANGED <<usbTxLen, usbMsgPtr, blkLen>>
          /\ usbTxBuf'.pid = usbTxBuf.pid /\ usbTxBuf'.data = usbTxBuf.data
          /\ usbMsgLen' = IF blkLen < MaxPkt THEN USB_NO_MSG ELSE usbMsgLen
      BY <1>6 DEF TxCrc, Main, DevTypeOK, TxTypeOK
    <2>2. Filled(done, tog, rest, n)
      BY <2>1 DEF ChainParts, Armed, Resting, Reserved, Building
    <2>3. Filled(done, tog, rest, n)'
      BY <1>1, <2>1, <2>2 DEF Filled, Block, After
    <2> QED
      BY <2>3 DEF ChainParts
  <1>7. CASE TxArm
    <2>1. /\ pc = "arm" /\ pc' = "line" /\ usbTxLen' = blkLen + 4
          /\ UNCHANGED <<usbTxBuf, usbMsgPtr, usbMsgLen>>
      BY <1>7 DEF TxArm, Main, msgVars
    <2>2. Filled(done, tog, rest, n)
      BY <2>1 DEF ChainParts, Armed, Resting, Reserved, Building
    <2>3. Armed(done, tog, rest, n)'
      BY <1>1, <2>1, <2>2 DEF Filled, Armed, Block, Building
    <2> QED
      BY <2>3 DEF ChainParts
  <1> QED
    BY <1>2, <1>3, <1>4, <1>5, <1>6, <1>7 DEF TxSide

\* The reply in progress, under the steps of usbPoll.
LEMMA ChainMain ==
    ASSUME DriverInv, TxSide, promised \in 0..254,
           NEW done \in Nat, NEW tog \in {USBPID_DATA0, USBPID_DATA1}, Chain(done, tog)
    PROVE  Chain(done, tog)'
  <1>1. promised' = promised /\ DevTypeOK /\ TxBlockOK
    BY TxSideFrame DEF appVars, DriverInv, HostInv, TypeOK
  <1>2. promised - done \in 0..254
    BY DEF Chain
  <1>3. ChainParts(done, tog, promised - done, ChunkOf(promised - done))
    BY DEF Chain
  <1>4. PICK rest \in 0..254 : rest = promised - done
    BY <1>2
  <1>5. PICK n : n = ChunkOf(rest)
    OBVIOUS
  <1>6. ChainParts(done, tog, rest, n)'
    BY <1>1, <1>3, <1>4, <1>5, ChainPartsMain
  <1>7. rest = promised' - done /\ n = ChunkOf(rest)
    BY <1>1, <1>4, <1>5
  <1> QED
    BY <1>1, <1>4, <1>5, <1>6 DEF Chain, ChunkOf

\* A step of usbPoll that neither takes up a SETUP packet nor delivers data.
LEMMA InServiceTx ==
    ASSUME DriverInv, LinkInv, InService, PastSetup, UNCHANGED hostVars, TxSide
    PROVE  InService'
  <1>0. /\ UNCHANGED <<appVars, usbMsgFlags, RxPacket, usbRxToken>>
        /\ \/ /\ UNCHANGED usbRxLen /\ pc # "rxdone"
              /\ pc' = "rxdone" => RxIgnoredOut
           \/ pc = "rxdone" /\ usbRxLen' = 0 /\ pc' = "tx"
    BY TxSideFrame
  <1>1. UNCHANGED <<served, promised, appGot, appVerdict>>
        /\ UNCHANGED <<hPhase, hXfer, hReq, hGot, hSent, hTog>>
    BY <1>0 DEF appVars, hostVars
  <1>2. ~PendingSetup' /\ (hReq.dir = "in" /\ usbRxLen' # 0 => pc' = "rxdone")
    BY <1>0 DEF InService, PendingSetup
  <1>3. RxIgnoredOut => ~usbMsgFlags
    BY DEF RxIgnoredOut
  <1>4. hReq \in RequestType /\ hTog \in {USBPID_DATA0, USBPID_DATA1} /\ hGot \in Seq(Byte)
    BY RequestAssumption DEF DriverInv, HostInv, TypeOK, NoRequest, RequestType,
      StandardRequests, LinkInv, StageInv
  <1>5. ASSUME ~usbMsgFlags PROVE promised \in 0..254
    <2>1. PICK reply \in ReplyLens(hReq) : promised = LimitedLen(reply, hReq)
      BY DEF InService
    <2>2. promised \in 0..hReq.wLength /\ hReq.wLength \in 0..254
      BY <1>4, <1>5, <2>1, RequestReply DEF InService, RequestType
    <2> QED
      BY <2>2
  <1>6. ASSUME hPhase = "in" PROVE Chain(Len(hGot), hTog)'
    <2>1. ~usbMsgFlags
      <3>1. hReq.dir = "in"
        BY <1>6 DEF LinkInv, StageInv
      <3>2. PICK reply \in ReplyLens(hReq) : promised = LimitedLen(reply, hReq)
        BY DEF InService
      <3> QED
        BY <1>4, <3>1, <3>2, RequestReply DEF InService
    <2>2. PICK done \in Nat, tog \in {USBPID_DATA0, USBPID_DATA1} :
            done = Len(hGot) /\ tog = hTog
      BY <1>4, LenProperties
    <2>3. Chain(done, tog)
      BY <1>6, <2>2 DEF InService
    <2>4. Chain(done, tog)'
      BY <1>5, <2>1, <2>3, ChainMain
    <2> QED
      BY <1>1, <2>2, <2>4 DEF Chain, ChainParts, Armed, Resting, Reserved, Filled, Block
  <1>7. ASSUME hPhase \in {"out", "outData", "statusIn"}, ~usbMsgFlags
        PROVE  Chain(0, USBPID_DATA1)'
    BY <1>5, <1>7, ChainMain DEF InService
  <1>8. ASSUME hPhase \in {"out", "outData", "statusIn"}, usbMsgFlags PROVE Writing'
    <2>1. Writing /\ DevTypeOK /\ promised = USB_NO_MSG /\ ~RxIgnoredOut
      BY <1>3, <1>8 DEF InService, DriverInv, HostInv, TypeOK
    <2>2. PendingOut' = PendingOut
      BY <1>0, <2>1 DEF PendingOut
    <2>3. Len(appGot') + (IF PendingOut' THEN RxPacket'.len ELSE 0) = hSent'
      BY <1>0, <1>1, <2>1, <2>2 DEF Writing
    <2>4. CASE PollRxLen \/ RxRelease \/ PollTxLen \/ PollLine \/ PollReset
      <3>1. /\ UNCHANGED <<usbTxLen, usbMsgLen, blkLen>> /\ pc' \notin Building
            /\ pc' = "build" => PollTxLen
        BY <2>4 DEF PollRxLen, RxRelease, PollTxLen, PollLine, PollReset, Main,
          txVars, msgVars, Building
      <3>2. PollTxLen /\ pc' = "build" => usbMsgLen # USB_NO_MSG
        BY DEF PollTxLen, Main
      <3>3. appVerdict \in {0, 255} =>
              /\ usbTxLen' = IF appVerdict = 0 THEN USBPID_NAK ELSE USBPID_STALL
              /\ usbMsgLen' = USB_NO_MSG /\ pc' \notin Building \cup {"build"}
        BY <2>1, <3>1, <3>2 DEF Writing, Building
      <3>4. appVerdict = 1 =>
              /\ usbTxLen' \in {USBPID_NAK, 4} /\ usbMsgLen' \in {0, USB_NO_MSG}
              /\ pc' \notin Building
        BY <2>1, <3>1 DEF Writing
      <3> QED
        BY <1>1, <2>3, <3>3, <3>4 DEF Writing
    <2>5. CASE TxBuild
      <3>1. usbMsgLen = 0 /\ appVerdict = 1
        BY <2>1, <2>5 DEF TxBuild, Main, Writing, Building, LinkInv, RxInv, DevTypeOK, AppTypeOK
      <3>2. blkLen' = 0 /\ usbMsgLen' = 0 /\ UNCHANGED usbTxLen
        BY <2>5, <3>1, PktAssumption DEF TxBuild
      <3>3. usbTxLen' \in {USBPID_NAK, 4} /\ appVerdict' = 1
        BY <1>1, <2>1, <3>1, <3>2 DEF Writing
      <3> QED
        BY <2>3, <3>2, <3>3 DEF Writing
    <2>6. CASE TxCopy \/ TxCrc \/ TxArm
      <3>1. appVerdict = 1 /\ blkLen = 0
        BY <2>1, <2>6 DEF TxCopy, TxCrc, TxArm, Main, Writing, Building, DevTypeOK, AppTypeOK
      <3>2. /\ UNCHANGED blkLen
            /\ usbTxLen' = usbTxLen \/ usbTxLen' = 4
            /\ usbMsgLen' = usbMsgLen \/ usbMsgLen' = USB_NO_MSG
        BY <2>6, <3>1 DEF TxCopy, TxCrc, TxArm, msgVars
      <3>3. usbTxLen' \in {USBPID_NAK, 4} /\ usbMsgLen' \in {0, USB_NO_MSG}
        BY <2>1, <3>1, <3>2 DEF Writing
      <3>4. appVerdict' = 1 /\ blkLen' = 0
        BY <1>1, <3>1, <3>2
      <3> QED
        BY <2>3, <3>3, <3>4 DEF Writing
    <2> QED
      BY <2>1, <2>4, <2>5, <2>6 DEF TxSide
  <1> QED
    BY <1>0, <1>1, <1>2, <1>6, <1>7, <1>8 DEF InService, Payload

\* A packet of the data stage goes to usbFunctionWrite.
LEMMA InServiceWrite ==
    ASSUME DriverInv, LinkInv, InService, PastSetup, UNCHANGED hostVars,
           NEW rval \in WriteResults(usbRxLen - 3), RxWrite(rval)
    PROVE  InService'
  <1>0. /\ pc = "rx" /\ pc' = "rxdone" /\ usbRxToken # USBPID_SETUP /\ usbMsgFlags
        /\ usbTxLen' = IF rval = 255 THEN USBPID_STALL ELSE usbTxLen
        /\ usbMsgLen' = IF rval \notin {0, 255} THEN 0 ELSE usbMsgLen
        /\ appGot' = appGot \o PacketBytes(RxPacket, usbRxLen - 3)
        /\ appVerdict' = rval
        /\ UNCHANGED <<usbRxLen, usbRxToken, RxPacket, usbMsgFlags, served, promised>>
        /\ UNCHANGED <<hPhase, hXfer, hReq, hGot, hSent, hTog>>
    BY DEF RxWrite, Main, rxVars, hostVars, RxPacket
  <1>1. /\ DevTypeOK /\ usbRxLen # 0 /\ usbRxToken = USBPID_OUT
        /\ usbRxLen = RxPacket.len + 3 /\ RxPacket \in Packet /\ RxPacket.len \in Nat
    <2>1. DevTypeOK /\ RxTypeOK
      BY DEF DriverInv, HostInv, TypeOK, DevTypeOK
    <2>2. RxPacket \in Packet /\ RxPacket.len \in Nat
      BY <2>1, RxPacketType DEF Packet
    <2>3. usbRxLen # 0
      BY <1>0 DEF LinkInv, RxInv
    <2>4. usbRxToken = USBPID_OUT
      BY <1>0, <2>1, <2>3 DEF RxTypeOK, LinkInv, RxInv
    <2>5. usbRxLen = RxPacket.len + 3
      BY <2>3 DEF LinkInv, RxInv
    <2> QED
      BY <2>1, <2>2, <2>3, <2>4, <2>5
  <1>2. hReq \in RequestType
    BY RequestAssumption DEF DriverInv, HostInv, TypeOK, NoRequest, RequestType,
      StandardRequests
  <1>3. hReq.dir = "out"
    BY <1>0, <1>2, RequestReply DEF InService
  <1>4. ~PendingSetup'
    BY <1>0 DEF PendingSetup
  <1>5. hPhase \in {"out", "outData", "statusIn"}
    BY <1>3 DEF LinkInv, StageInv, PastSetup, DriverInv, HostInv, TypeOK, Phases, Stages
  <1>6. Writing
    BY <1>0, <1>5 DEF InService
  <1>7. Len(appGot') = hSent'
    <2>1. Len(appGot) + RxPacket.len = hSent
      BY <1>0, <1>1, <1>6 DEF Writing, PendingOut
    <2>2. usbRxLen - 3 = RxPacket.len
      BY <1>1
    <2>3. PacketBytes(RxPacket, usbRxLen - 3) \in Seq(Byte)
          /\ Len(PacketBytes(RxPacket, usbRxLen - 3)) = RxPacket.len
      BY <1>1, <2>2, PacketBytesSeq
    <2>4. Len(appGot') = Len(appGot) + RxPacket.len
      BY <1>0, <2>3, ConcatProperties DEF LinkInv, RxInv
    <2> QED
      BY <1>0, <2>1, <2>4
  <1>8. Writing'
    <2>1. rval \in {0, 1, 255} /\ (appVerdict = 255 => rval = 255)
          /\ (appVerdict = 1 => rval = 1) /\ appVerdict \in {0, 1, 255}
      BY <1>1 DEF WriteResults, DevTypeOK, AppTypeOK
    <2>2. ~PendingOut' /\ pc' \notin Building \cup {"build"}
      BY <1>0 DEF PendingOut, Building
    <2>3. CASE rval = 255
      <3>1. usbMsgLen = USB_NO_MSG \/ appVerdict = 1
        BY <1>6, <2>1 DEF Writing
      <3>2. usbTxLen' = USBPID_STALL /\ usbMsgLen' = usbMsgLen
        BY <1>0, <2>3
      <3>3. appVerdict # 1
        BY <2>1, <2>3
      <3> QED
        BY <1>0, <1>7, <2>2, <2>3, <3>1, <3>2, <3>3 DEF Writing
    <2>4. CASE rval = 0
      <3>1. appVerdict = 0
        BY <2>1, <2>4
      <3>2. usbTxLen' = USBPID_NAK /\ usbMsgLen' = USB_NO_MSG
        BY <1>0, <1>6, <2>4, <3>1 DEF Writing
      <3> QED
        BY <1>0, <1>7, <2>2, <2>4, <3>2 DEF Writing
    <2>5. CASE rval = 1
      <3>1. appVerdict # 255
        BY <2>1, <2>5
      <3>2. usbTxLen' \in {USBPID_NAK, 4} /\ usbMsgLen' = 0
        BY <1>0, <1>6, <2>1, <2>5, <3>1 DEF Writing
      <3> QED
        BY <1>0, <1>7, <2>2, <2>5, <3>2 DEF Writing, Building
    <2> QED
      BY <2>1, <2>3, <2>4, <2>5
  <1> QED
    BY <1>0, <1>3, <1>4, <1>5, <1>8 DEF InService

\* The host's SETUP packet waits in the buffer, or usbProcessRx takes it up.
LEMMA AcceptedMain ==
    ASSUME DriverInv, LinkInv, Accepted, PastSetup, served.xfer # hXfer,
           UNCHANGED hostVars, usbPoll
    PROVE  IF served'.xfer = hXfer' THEN InService' ELSE Accepted'
  <1>0. /\ DevTypeOK /\ usbRxToken = USBPID_SETUP /\ usbRxLen = 11 /\ pc # "rxdone"
        /\ RxPacket = SetupPacket /\ RxPacket.xfer = hXfer /\ RxPacket.req = hReq
    BY DEF Accepted, PendingSetup, DriverInv, HostInv, TypeOK, LinkInv, RxInv, SetupPacket
  <1>1. UNCHANGED <<RxPacket, usbRxToken, hPhase, hXfer, hReq, hGot, hSent, hTog>>
    BY <1>0, PollSteps, MainKeepsPacket DEF hostVars
  <1>2. CASE TxSide \/ RxSetup \/ RxAbort
    <2>1. UNCHANGED <<usbRxLen, served>> /\ pc' # "rxdone"
      <3>1. CASE TxSide
        BY <1>0, <3>1, TxSideFrame DEF RxIgnoredOut, appVars
      <3>2. CASE RxSetup \/ RxAbort
        BY <3>2 DEF RxSetup, RxAbort, Main, rxVars, appVars
      <3> QED
        BY <1>2, <3>1, <3>2
    <2> QED
      BY <1>0, <1>1, <2>1 DEF Accepted, PendingSetup, SetupPacket
  <1>3. CASE RxBadSetup
    BY <1>0, <1>3 DEF RxBadSetup
  <1>4. ASSUME NEW reply \in ReplyLens(RxPacket.req), RxRequest(reply)
        PROVE  InService' /\ served'.xfer = hXfer'
    <2>1. /\ pc = "setup" /\ pc' = "rxdone" /\ UNCHANGED <<usbTxLen, usbTxBuf, usbRxLen>>
          /\ usbMsgPtr' = [xfer |-> hXfer, off |-> 0]
          /\ usbMsgLen' = LimitedLen(reply, hReq) /\ promised' = LimitedLen(reply, hReq)
          /\ usbMsgFlags' = (reply = USB_NO_MSG)
          /\ served' = RxPacket /\ appGot' = <<>> /\ appVerdict' = 0
      BY <1>0, <1>4 DEF RxRequest, Main, txVars, rxVars
    <2>2. usbTxLen = USBPID_NAK /\ usbTxBuf.pid = USBPID_DATA0
      BY <2>1 DEF LinkInv, RxInv
    <2>3. hReq \in RequestType
      BY RequestAssumption DEF DriverInv, HostInv, TypeOK, NoRequest, RequestType,
        StandardRequests
    <2>4. /\ promised' = USB_NO_MSG <=> reply = USB_NO_MSG
          /\ reply = USB_NO_MSG => hReq.dir = "out"
          /\ reply # USB_NO_MSG => promised' \in 0..254
      <3>1. hReq.wLength \in 0..254 /\ reply \in ReplyLens(hReq)
        BY <1>0, <1>4, <2>3 DEF RequestType
      <3>2. /\ LimitedLen(reply, hReq) = USB_NO_MSG <=> reply = USB_NO_MSG
            /\ reply = USB_NO_MSG => hReq.dir = "out"
            /\ reply # USB_NO_MSG => LimitedLen(reply, hReq) \in 0..hReq.wLength
        BY <2>3, <3>1, RequestReply
      <3>3. reply # USB_NO_MSG => LimitedLen(reply, hReq) \in 0..254
        BY <3>1, <3>2
      <3> QED
        BY <2>1, <3>2, <3>3
    <2>5. reply # USB_NO_MSG => Chain(0, USBPID_DATA1)'
      <3>1. ASSUME reply # USB_NO_MSG
            PROVE  promised' \in Nat /\ promised' - 0 = promised' /\ usbMsgLen' = promised'
        <4>1. \A k \in 0..254 : k \in Nat /\ k - 0 = k
          OBVIOUS
        <4>2. promised' \in 0..254
          BY <2>4, <3>1
        <4> QED
          BY <2>1, <4>1, <4>2
      <3>2. usbMsgPtr'.off = 0 /\ Flip(USBPID_DATA1) = USBPID_DATA0 /\ pc' \notin Building
        BY <2>1 DEF Flip, Building
      <3>3. ASSUME reply # USB_NO_MSG PROVE Resting(0, USBPID_DATA1, promised - 0)'
        BY <2>1, <2>2, <3>1, <3>2, <3>3 DEF Resting
      <3>4. ASSUME reply # USB_NO_MSG PROVE 0 <= promised'
        BY <3>1, <3>4
      <3> QED
        BY <3>3, <3>4 DEF Chain, ChainParts, Resting
    <2>6. reply = USB_NO_MSG => Writing'
      <3>1. ~PendingOut' /\ hSent' = 0 /\ Len(appGot') = 0
        BY <1>1, <2>1, EmptySeq DEF PendingOut, Accepted
      <3> QED
        BY <2>1, <2>2, <2>4, <3>1 DEF Writing, Building
    <2>7. hTog' = USBPID_DATA1 /\ hGot' = <<>> /\ Len(hGot') = 0
          /\ hPhase' \notin {"statusOut", "statusOutData"} /\ ~PendingSetup'
      BY <1>1, <2>1, EmptySeq DEF Accepted, PendingSetup
    <2>8. hPhase' = "in" => hReq'.dir = "in"
      BY <1>1 DEF LinkInv, StageInv
    <2>9. hGot' = Payload(hXfer', Len(hGot'))
      <3>1. hXfer \in Nat
        BY XfersAssumption DEF DriverInv, HostInv, TypeOK
      <3> QED
        BY <1>1, <2>7, <3>1, PayloadEmpty
    <2>10. \E r \in ReplyLens(hReq') : promised' = LimitedLen(r, hReq')
      BY <1>0, <1>1, <1>4, <2>1
    <2>11. hPhase' = "in" => Chain(Len(hGot), hTog)'
      <3>1. hPhase' = "in" => Chain(0, USBPID_DATA1)'
        BY <1>1, <2>4, <2>5, <2>8
      <3> QED
        BY <2>7, <3>1 DEF Chain, ChainParts, Armed, Resting, Reserved, Filled, Block
    <2>12. /\ served'.req = hReq' /\ served'.xfer = hXfer'
           /\ usbMsgFlags' <=> promised' = USB_NO_MSG
           /\ usbRxLen' # 0 => pc' = "rxdone"
      BY <1>0, <1>1, <2>1, <2>4
    <2> QED
      BY <2>1, <2>5, <2>6, <2>7, <2>9, <2>10, <2>11, <2>12 DEF InService, Payload
  <1>5. ASSUME NEW rval, RxWrite(rval) PROVE FALSE
    BY <1>0, <1>5 DEF RxWrite
  <1> QED
    BY <1>2, <1>3, <1>4, <1>5 DEF usbPoll, PollDriver, TxSide

\* The receive buffer under any step of usbPoll.
LEMMA MainRx ==
    ASSUME DevTypeOK, usbPoll
    PROVE  /\ UNCHANGED <<RxPacket, usbRxToken, usbCurrentTok>>
           /\ usbRxLen' \in {0, usbRxLen}
           /\ UNCHANGED served \/ (pc = "setup" /\ served' = RxPacket)
  <1>1. PICK reply \in 0..255, rval \in {0, 1, 255} : MainStep(reply, rval)
    BY PollSteps
  <1>2. UNCHANGED <<RxPacket, usbRxToken>>
    BY <1>1, MainKeepsPacket
  <1>3. UNCHANGED usbCurrentTok /\ usbRxLen' \in {0, usbRxLen}
    BY <1>1, MainFrame DEF rxVars, IsrOwned, RxRelease
  <1>4. UNCHANGED appVars \/ RxRequest(reply) \/ RxWrite(rval)
    BY <1>1, MainFrame
  <1>5. UNCHANGED served \/ (pc = "setup" /\ served' = RxPacket)
    BY <1>4 DEF appVars, RxRequest, RxWrite, Main
  <1> QED
    BY <1>2, <1>3, <1>5

LEMMA TransferMain ==
    ASSUME DriverInv, LinkInv, TransferInv, usbPoll, UNCHANGED <<hostVars, losses>>
    PROVE  TransferInv'
  <1> SUFFICES ASSUME AfterLosses' PROVE TransferInv'
    BY DEF TransferInv
  <1>0. /\ UNCHANGED <<hPhase, hXfer, hReq, hGot, hSent, hTog, hOutcome, losses>>
        /\ UNCHANGED hostVars
    BY DEF hostVars
  <1>1. AfterLosses
    BY <1>0 DEF AfterLosses
  <1>2. DevTypeOK
    BY DEF DriverInv, HostInv, TypeOK
  <1>3. /\ UNCHANGED <<RxPacket, usbRxToken, usbCurrentTok>>
        /\ usbRxLen' \in {0, usbRxLen}
        /\ UNCHANGED served \/ (pc = "setup" /\ served' = RxPacket)
    BY <1>2, MainRx
  <1>4. pc = "setup" => usbRxLen # 0 /\ usbRxToken = USBPID_SETUP
    BY DEF LinkInv, RxInv
  <1>5. /\ hPhase \in {"setup", "setupData"} =>
             /\ served.xfer < hXfer
             /\ usbRxLen # 0 => RxPacket.xfer < hXfer
        /\ PastSetup => IF served.xfer = hXfer THEN InService ELSE Accepted
        /\ hOutcome \in {"ok", "stall"} => usbRxLen = 0
        /\ hPhase = "setupData" => usbCurrentTok \in {0, USBPID_SETUP}
        /\ hPhase = "outData" => usbCurrentTok \in {0, USBPID_OUT}
    BY <1>1 DEF TransferInv
  <1>6. ASSUME PastSetup, served.xfer = hXfer PROVE InService' /\ served'.xfer = hXfer'
    <2>1. InService /\ ~PendingSetup
      BY <1>5, <1>6 DEF InService
    <2>2. pc \notin {"abort", "setup"} /\ (pc = "rx" => usbRxToken # USBPID_SETUP)
      BY <2>1 DEF PendingSetup, LinkInv, RxInv
    <2>3. served'.xfer = hXfer'
      BY <1>0, <1>3, <1>6, <2>2
    <2>4. CASE TxSide
      BY <1>0, <1>6, <2>1, <2>3, <2>4, InServiceTx
    <2>5. ASSUME NEW rval \in WriteResults(usbRxLen - 3), RxWrite(rval) PROVE InService'
      BY <1>0, <1>6, <2>1, <2>5, InServiceWrite
    <2>6. ~RxBadSetup /\ ~RxSetup /\ ~RxAbort /\ \A reply : ~RxRequest(reply)
      BY <2>2 DEF RxBadSetup, RxSetup, RxAbort, RxRequest, Main
    <2> QED
      BY <2>3, <2>4, <2>5, <2>6 DEF usbPoll, PollDriver, TxSide
  <1>7. ASSUME PastSetup, served.xfer # hXfer
        PROVE  IF served'.xfer = hXfer' THEN InService' ELSE Accepted'
    BY <1>0, <1>5, <1>7, AcceptedMain
  <1>8. PastSetup' => IF served'.xfer = hXfer' THEN InService' ELSE Accepted'
    BY <1>0, <1>6, <1>7 DEF PastSetup
  <1>9. hPhase' \in {"setup", "setupData"} =>
          /\ served'.xfer < hXfer'
          /\ usbRxLen' # 0 => RxPacket'.xfer < hXfer'
    BY <1>0, <1>3, <1>4, <1>5
  <1> QED
    BY <1>0, <1>3, <1>5, <1>8, <1>9 DEF TransferInv

-----------------------------------------------------------------------------
\* Nothing the driver does is lost on a transfer while its packets are ignored.
LEMMA InServiceIgnored ==
    ASSUME InService, PastSetup, MainKept, Ignored, PastSetup',
           UNCHANGED <<hXfer, hReq, hGot, hSent, hTog>>,
           \/ hPhase' = hPhase
           \/ hPhase \in {"out", "outData"} /\ hPhase' \in {"out", "outData"}
           \/ /\ hPhase \in {"statusOut", "statusOutData"}
              /\ hPhase' \in {"statusOut", "statusOutData"}
    PROVE  InService'
  <1>1. /\ UNCHANGED <<usbTxLen, usbTxBuf, usbRxLen, usbRxToken, RxPacket, usbMsgPtr,
                       usbMsgLen, usbMsgFlags, pc, blkLen, served, promised, appGot,
                       appVerdict>>
    BY DEF MainKept, Ignored, txVars, msgVars, appVars
  <1>2. PendingSetup' = PendingSetup /\ PendingOut' = PendingOut
    BY <1>1 DEF PendingSetup, PendingOut
  <1>3. Chain(Len(hGot), hTog)' = Chain(Len(hGot), hTog)
        /\ Chain(0, USBPID_DATA1)' = Chain(0, USBPID_DATA1)
    BY <1>1 DEF Chain, ChainParts, Armed, Resting, Reserved, Filled, Block
  <1>4. Writing' = Writing
    BY <1>1, <1>2 DEF Writing
  <1> QED
    BY <1>1, <1>2, <1>3, <1>4 DEF InService, Payload

LEMMA AcceptedIgnored ==
    ASSUME Accepted, MainKept, Ignored, UNCHANGED <<hXfer, hReq, hGot, hSent, hTog>>,
           hPhase' \notin {"statusOut", "statusOutData"}
    PROVE  Accepted'
  BY DEF Accepted, MainKept, Ignored, PendingSetup, SetupPacket

\* In a control-in transfer the device replies with no more than was asked for.
LEMMA InReply ==
    ASSUME DriverInv, InService, hReq.dir = "in"
    PROVE  ~usbMsgFlags /\ promised \in 0..254 /\ promised <= hReq.wLength
  <1>1. hReq \in RequestType
    BY RequestAssumption DEF DriverInv, HostInv, TypeOK, NoRequest, RequestType,
      StandardRequests
  <1>2. hReq.wLength \in 0..254
    BY <1>1 DEF RequestType
  <1>3. PICK reply \in ReplyLens(hReq) : promised = LimitedLen(reply, hReq)
    BY DEF InService
  <1>4. reply # USB_NO_MSG /\ promised \in 0..hReq.wLength
    BY <1>1, <1>3, RequestReply
  <1>5. promised \in 0..254 /\ promised <= hReq.wLength
    BY <1>2, <1>4
  <1>6. promised # USB_NO_MSG
    BY <1>5
  <1> QED
    BY <1>5, <1>6 DEF InService

\* The next packet of what is left, and the packets after it.
LEMMA ChunkLaw ==
    ASSUME NEW rest \in 0..254
    PROVE  /\ ChunkOf(rest) \in 0..8 /\ ChunkOf(rest) <= rest
           /\ ChunkOf(rest) < MaxPkt => ChunkOf(rest) = rest
  BY PktAssumption DEF ChunkOf

\* When an IN token of the data stage fetches a packet, it is the next one.
LEMMA ArmedIn ==
    ASSUME DriverInv, LinkInv, InService, hPhase = "in", ~IsHandshake(usbTxLen)
    PROVE  \E done \in Nat, rest \in 0..254, n \in Nat :
             /\ done = Len(hGot) /\ done <= promised /\ rest = promised - done
             /\ n <= rest /\ n = ChunkOf(rest) /\ (n < MaxPkt => n = rest)
             /\ Armed(done, hTog, rest, n)
  <1>1. promised \in 0..254
    BY InReply DEF LinkInv, StageInv
  <1>2. Len(hGot) \in Nat
    BY LenProperties DEF LinkInv, StageInv
  <1>3. PICK done \in Nat : done = Len(hGot)
    BY <1>2
  <1>4. Chain(done, hTog)
    BY <1>3 DEF InService
  <1>5. done <= promised
    BY <1>4 DEF Chain
  <1>6. promised - done \in 0..254
    BY <1>1, <1>5
  <1>7. PICK rest \in 0..254 : rest = promised - done
    BY <1>6
  <1>8. /\ ChunkOf(rest) \in Nat /\ ChunkOf(rest) <= rest
        /\ ChunkOf(rest) < MaxPkt => ChunkOf(rest) = rest
    BY ChunkLaw
  <1>9. Armed(done, hTog, rest, ChunkOf(rest))
    BY <1>4, <1>7, HandshakeBit DEF Chain, ChainParts, Resting, Reserved, Filled
  <1> QED
    BY <1>3, <1>5, <1>7, <1>8, <1>9

\* With that packet the host has the next bytes of the reply, or all of it.
LEMMA InBlock ==
    ASSUME DriverInv, LinkInv, InService, served.xfer = hXfer, hPhase = "in",
           ~IsHandshake(usbTxLen)
    PROVE  \E sum \in Nat, n \in Nat :
             /\ usbTxBuf.pid = hTog /\ pc \notin Building /\ usbMsgPtr.off = sum
             /\ Len(usbTxBuf.data) = n /\ Len(hGot \o usbTxBuf.data) = sum
             /\ hGot \o usbTxBuf.data = Payload(hXfer, sum)
             /\ sum <= promised /\ n <= MaxPkt /\ sum = Len(hGot) + n
             /\ n < MaxPkt \/ sum >= hReq.wLength => sum = promised
             /\ ~(n < MaxPkt) => usbMsgLen = promised - sum
  <1>1. PICK done \in Nat, rest \in 0..254, n \in Nat :
             /\ done = Len(hGot) /\ done <= promised /\ rest = promised - done
             /\ n <= rest /\ n = ChunkOf(rest) /\ (n < MaxPkt => n = rest)
             /\ Armed(done, hTog, rest, n)
    BY ArmedIn
  <1>2. hReq.dir = "in"
    BY DEF LinkInv, StageInv
  <1>3. promised \in 0..254 /\ promised <= hReq.wLength
    BY <1>2, InReply
  <1>4. hReq.wLength \in 0..254 /\ hXfer \in Nat /\ MaxPkt \in 1..8
    BY RequestFields, PktAssumption, XfersAssumption DEF DriverInv, HostInv, TypeOK
  <1>5. PICK sum \in Nat : sum = done + n
    OBVIOUS
  <1>6. /\ sum <= promised /\ promised - sum = rest - n
        /\ n < MaxPkt => sum = promised
        /\ sum >= hReq.wLength => sum = promised
    <2>1. /\ done <= promised /\ rest = promised - done /\ n <= rest
          /\ n < MaxPkt => n = rest
      BY <1>1
    <2>2. PICK offer \in 0..254, asked \in 0..254 :
            offer = promised /\ asked = hReq.wLength /\ offer <= asked
      BY <1>3, <1>4
    <2>3. rest = offer - done /\ n <= rest /\ sum = done + n
      BY <1>5, <2>1, <2>2
    <2>4. sum <= offer /\ offer - sum = rest - n
      BY <2>3
    <2>5. n = rest => sum = offer
      BY <2>3
    <2>6. sum >= asked => sum = offer
      BY <2>2, <2>4
    <2> QED
      BY <2>1, <2>2, <2>4, <2>5, <2>6
  <1>7. /\ usbTxBuf.pid = hTog /\ pc \notin Building /\ usbMsgPtr.off = done + n
        /\ usbTxBuf.data = Block(done, n) /\ usbMsgLen = After(n, rest)
    BY <1>1 DEF Armed
  <1>8. /\ usbTxBuf.data \in Seq(Byte) /\ Len(usbTxBuf.data) = n
        /\ \A i \in 1..n : usbTxBuf.data[i] = <<hXfer, done + i>>
    <2>1. Block(done, n) = [i \in 1..n |-> <<hXfer, done + i>>]
      BY DEF Block
    <2>2. /\ [i \in 1..n |-> <<hXfer, done + i>>] \in Seq(Byte)
          /\ Len([i \in 1..n |-> <<hXfer, done + i>>]) = n
      BY <1>4, BlockBytes
    <2> QED
      BY <1>7, <2>1, <2>2
  <1>9. hGot \in Seq(Byte) /\ hGot = Payload(hXfer, Len(hGot))
    BY DEF InService, LinkInv, StageInv
  <1>10. /\ hGot \o usbTxBuf.data = Payload(hXfer, Len(hGot \o usbTxBuf.data))
         /\ Len(hGot \o usbTxBuf.data) = Len(hGot) + Len(usbTxBuf.data)
    <2>1. \A i \in 1..Len(usbTxBuf.data) : usbTxBuf.data[i] = <<hXfer, Len(hGot) + i>>
      BY <1>1, <1>8
    <2> QED
      BY <1>4, <1>8, <1>9, <2>1, PayloadConcat
  <1>11. /\ Len(hGot \o usbTxBuf.data) = sum /\ sum = Len(hGot) + n
         /\ hGot \o usbTxBuf.data = Payload(hXfer, sum)
    BY <1>1, <1>5, <1>8, <1>10
  <1>12. n <= MaxPkt
    BY <1>1, <1>4 DEF ChunkOf
  <1>13. ~(n < MaxPkt) => usbMsgLen = promised - sum
    BY <1>6, <1>7 DEF After
  <1> QED
    BY <1>5, <1>6, <1>7, <1>8, <1>11, <1>12, <1>13

\* The host takes that packet.
LEMMA InServiceIn ==
    ASSUME DriverInv, LinkInv, InService, served.xfer = hXfer, hPhase = "in",
           MainKept, Sent, UNCHANGED <<hXfer, hReq, hSent>>,
           hGot' = hGot \o usbTxBuf.data,
           hPhase' = AfterIn(hGot', Len(usbTxBuf.data)), hTog' = Flip(hTog)
    PROVE  InService'
  <1>1. PICK sum \in Nat, n \in Nat :
             /\ usbTxBuf.pid = hTog /\ pc \notin Building /\ usbMsgPtr.off = sum
             /\ Len(usbTxBuf.data) = n /\ Len(hGot \o usbTxBuf.data) = sum
             /\ hGot \o usbTxBuf.data = Payload(hXfer, sum)
             /\ sum <= promised /\ n <= MaxPkt /\ sum = Len(hGot) + n
             /\ n < MaxPkt \/ sum >= hReq.wLength => sum = promised
             /\ ~(n < MaxPkt) => usbMsgLen = promised - sum
    BY InBlock DEF Sent
  <1>2. hGot' = Payload(hXfer, sum) /\ Len(hGot') = sum
    BY <1>1
  <1>3. hPhase' = IF n < MaxPkt \/ sum >= hReq.wLength THEN "statusOut" ELSE "in"
    BY <1>1, <1>2 DEF AfterIn
  <1>4. /\ UNCHANGED <<usbMsgPtr, usbMsgLen, usbMsgFlags, pc, served, promised,
                       usbTxBuf, usbRxLen, usbRxToken, RxPacket>>
        /\ usbTxLen' = USBPID_NAK /\ usbRxLen = 0
    BY DEF MainKept, Sent, msgVars, appVars
  <1>5. ASSUME hPhase' = "in" PROVE Chain(Len(hGot), hTog)'
    <2>1. usbMsgLen = promised - sum
      BY <1>1, <1>3, <1>5
    <2>2. Flip(Flip(hTog)) = hTog
      BY DEF Flip, DriverInv, HostInv, TypeOK
    <2> QED
      BY <1>1, <1>2, <1>4, <2>1, <2>2 DEF Chain, ChainParts, Resting
  <1>6. ~PendingSetup' /\ usbRxLen' = 0
    BY <1>4 DEF PendingSetup
  <1>7. hPhase' = "statusOut" => Len(hGot') = promised'
    BY <1>1, <1>2, <1>3, <1>4
  <1>8. hGot' = Payload(hXfer', Len(hGot'))
    BY <1>2
  <1>9. hPhase' \in {"in", "statusOut"}
    BY <1>3
  <1> QED
    BY <1>4, <1>5, <1>6, <1>7, <1>8, <1>9 DEF InService, Payload

\* A transfer in which nothing is lost after a step lost nothing in the step.
LEMMA NothingLost ==
    ASSUME HostInv, UNCHANGED hXfer, AfterLosses'
    PROVE  ~Lose /\ (UNCHANGED losses => AfterLosses)
  BY LossOnRecord DEF AfterLosses

\* In the status stage of a control-out transfer, the driver sends its answer.
LEMMA InServiceStatus ==
    ASSUME DriverInv, LinkInv, InService, hPhase = "statusIn",
           MainKept, Sent, usbTxBuf.pid # hTog,
           UNCHANGED <<hPhase, hXfer, hReq, hGot, hSent, hTog>>
    PROVE  InService'
  <1>1. /\ UNCHANGED <<usbMsgPtr, usbMsgLen, usbMsgFlags, pc, blkLen, served, promised,
                       appGot, appVerdict, usbRxLen, usbRxToken, RxPacket>>
        /\ usbTxLen' = USBPID_NAK /\ usbRxLen = 0 /\ ~IsHandshake(usbTxLen)
    BY DEF MainKept, Sent, msgVars, appVars
  <1>2. hTog = USBPID_DATA1
    BY DEF LinkInv, StageInv
  <1>3. ~IsHandshake(USBPID_NAK) => FALSE
    BY HandshakeBit
  <1>4. usbTxLen # USBPID_NAK /\ usbTxLen # USBPID_STALL
    BY <1>1, HandshakeBit
  <1>5. ~Chain(0, USBPID_DATA1)
    BY <1>2, <1>4 DEF Chain, ChainParts, Armed, Resting, Reserved, Filled
  <1>6. Writing /\ usbMsgFlags
    BY <1>5 DEF InService
  <1>7. appVerdict \notin {0, 255}
    BY <1>4, <1>6 DEF Writing
  <1>8. ~PendingOut /\ ~PendingOut' /\ ~PendingSetup'
    BY <1>1 DEF PendingOut, PendingSetup
  <1>9. Writing'
    BY <1>1, <1>6, <1>7, <1>8 DEF Writing
  <1> QED
    BY <1>1, <1>6, <1>8, <1>9 DEF InService

\* The next packet of a control-out data stage has reached the receive buffer.
LEMMA InServiceOut ==
    ASSUME DriverInv, LinkInv, InService, hPhase = "outData", MainKept,
           Stored(OutPacket), usbCurrentTok \in {0, USBPID_OUT},
           hSent' = hSent + ChunkLen, hPhase' \in {"out", "statusIn"},
           UNCHANGED <<hXfer, hReq, hGot>>
    PROVE  InService'
  <1>1. /\ UNCHANGED <<usbTxLen, usbTxBuf, usbMsgPtr, usbMsgLen, usbMsgFlags, pc, blkLen,
                       served, promised, appGot, appVerdict>>
        /\ usbRxLen = 0 /\ usbRxToken' = USBPID_OUT
        /\ RxPacket' = OutPacket /\ usbRxLen' = OutPacket.len + 3
    BY DEF MainKept, Stored, txVars, msgVars, appVars
  <1>2. hReq.dir = "out" /\ ChunkLen \in 1..8
    BY ChunkStep DEF LinkInv, StageInv, DriverInv
  <1>3. OutPacket.len = ChunkLen
    BY DEF OutPacket
  <1>4. usbRxLen' # 0 /\ pc # "rxdone"
    BY <1>1, <1>2, <1>3 DEF LinkInv, RxInv
  <1>5. ~PendingSetup' /\ ~PendingOut /\ PendingOut'
    BY <1>1, <1>4 DEF PendingSetup, PendingOut
  <1>6. Chain(0, USBPID_DATA1)' = Chain(0, USBPID_DATA1)
    BY <1>1 DEF Chain, ChainParts, Armed, Resting, Reserved, Filled, Block
  <1>7. Writing => Writing'
    <2>1. ASSUME Writing PROVE Len(appGot) + ChunkLen = hSent'
      <3>1. Len(appGot) + 0 = hSent
        BY <1>5, <2>1 DEF Writing
      <3>2. Len(appGot) \in Nat
        BY LenProperties DEF LinkInv, RxInv
      <3>3. Len(appGot) = hSent
        BY <3>1, <3>2
      <3> QED
        BY <3>3
    <2>2. ASSUME Writing
          PROVE  Len(appGot') + (IF PendingOut' THEN RxPacket'.len ELSE 0) = hSent'
      BY <1>1, <1>3, <1>5, <2>1, <2>2
    <2> QED
      BY <1>1, <2>2 DEF Writing
  <1> QED
    BY <1>1, <1>2, <1>5, <1>6, <1>7 DEF InService

\* The invariant of a transfer, packet by packet.
LEMMA TransferToken ==
    ASSUME DriverInv, LinkInv, TransferInv, HostToken
    PROVE  TransferInv'
  <1> SUFFICES ASSUME AfterLosses' PROVE TransferInv'
    BY DEF TransferInv
  <1>0. /\ UNCHANGED <<hXfer, hReq, hGot, hSent, hTog, hOutcome>> /\ MainKept
        /\ \/ hPhase = "setup" /\ hPhase' = "setupData"
           \/ hPhase = "out" /\ hPhase' = "outData"
           \/ hPhase = "statusOut" /\ hPhase' = "statusOutData"
    BY DEF HostToken, BusOnly, MainKept
  <1>1. ~Lose /\ (UNCHANGED losses => AfterLosses)
    BY <1>0, NothingLost DEF DriverInv
  <1>2. PICK tok, addr : /\ IsrToken(tok, addr) /\ UNCHANGED losses
                         /\ tok = IF hPhase = "setup" THEN USBPID_SETUP ELSE USBPID_OUT
    BY <1>1 DEF HostToken, Deliver
  <1>3. Ignored /\ usbCurrentTok' \in {0, tok}
    BY <1>2, TokenEffect DEF DriverInv, HostInv, TypeOK, DevTypeOK
  <1>4. UNCHANGED <<usbRxLen, RxPacket, served>> /\ AfterLosses
    BY <1>0, <1>1, <1>2, <1>3 DEF Ignored, MainKept, appVars
  <1>5. ASSUME PastSetup'
        PROVE  IF served'.xfer = hXfer' THEN InService' ELSE Accepted'
    <2>1. PastSetup
      BY <1>0, <1>5 DEF PastSetup
    <2>2. IF served.xfer = hXfer THEN InService ELSE Accepted
      BY <1>4, <2>1 DEF TransferInv
    <2>3. CASE served.xfer = hXfer
      <3>1. InService
        BY <2>2, <2>3
      <3>2. \/ hPhase \in {"out", "outData"} /\ hPhase' \in {"out", "outData"}
            \/ /\ hPhase \in {"statusOut", "statusOutData"}
               /\ hPhase' \in {"statusOut", "statusOutData"}
        BY <1>0, <2>1 DEF PastSetup
      <3>3. InService'
        BY <1>0, <1>3, <1>5, <2>1, <3>1, <3>2, InServiceIgnored
      <3> QED
        BY <1>0, <1>4, <2>3, <3>3
    <2>4. CASE served.xfer # hXfer
      <3>1. Accepted /\ hPhase # "statusOut"
        BY <2>2, <2>4 DEF Accepted
      <3> QED
        BY <1>0, <1>3, <1>4, <2>4, <3>1, AcceptedIgnored
    <2> QED
      BY <2>3, <2>4
  <1> QED
    BY <1>0, <1>2, <1>3, <1>4, <1>5 DEF TransferInv, PastSetup

LEMMA TransferData ==
    ASSUME DriverInv, LinkInv, TransferInv, HostData
    PROVE  TransferInv'
  <1> SUFFICES ASSUME AfterLosses' PROVE TransferInv'
    BY DEF TransferInv
  <1>0. UNCHANGED hXfer
    BY DEF HostData
  <1>1. ~Lose /\ (UNCHANGED losses => AfterLosses)
    BY <1>0, NothingLost DEF DriverInv
  <1>2. /\ MainKept /\ UNCHANGED <<hXfer, hReq, hGot, usbCurrentTok>> /\ AfterLosses
        /\ UNCHANGED <<served, pc>>
    BY <1>1, DataCases DEF MainKept, appVars
  <1>3. /\ hPhase = "setupData" => usbCurrentTok \in {0, USBPID_SETUP}
        /\ hPhase = "outData" => usbCurrentTok \in {0, USBPID_OUT}
        /\ hPhase \in {"setup", "setupData"} =>
             /\ served.xfer < hXfer
             /\ usbRxLen # 0 => RxPacket.xfer < hXfer
        /\ PastSetup => IF served.xfer = hXfer THEN InService ELSE Accepted
        /\ hOutcome \in {"ok", "stall"} => usbRxLen = 0
    BY <1>2 DEF TransferInv
  <1>4. CASE /\ Ignored /\ UNCHANGED <<hSent, hTog, hOutcome>>
             /\ \/ hPhase = "setupData" /\ hPhase' = "setup"
                \/ hPhase = "outData" /\ hPhase' = "out"
                \/ hPhase = "statusOutData" /\ hPhase' = "statusOut"
    <2>1. UNCHANGED <<usbRxLen, RxPacket>>
      BY <1>4 DEF Ignored
    <2>2. ASSUME PastSetup'
          PROVE  IF served'.xfer = hXfer' THEN InService' ELSE Accepted'
      <3>1. PastSetup
        BY <1>4, <2>2 DEF PastSetup
      <3>2. CASE served.xfer = hXfer
        <4>1. InService /\ Ignored /\ MainKept
          BY <1>2, <1>3, <1>4, <3>1, <3>2
        <4>2. \/ hPhase \in {"out", "outData"} /\ hPhase' \in {"out", "outData"}
              \/ /\ hPhase \in {"statusOut", "statusOutData"}
                 /\ hPhase' \in {"statusOut", "statusOutData"}
          BY <1>4, <2>2 DEF PastSetup
        <4>3. InService'
          BY <1>2, <1>4, <2>2, <3>1, <4>1, <4>2, InServiceIgnored
        <4> QED
          BY <1>2, <3>2, <4>3
      <3>3. CASE served.xfer # hXfer
        <4>1. Accepted /\ hPhase # "statusOutData"
          BY <1>3, <3>1, <3>3 DEF Accepted
        <4> QED
          BY <1>2, <1>4, <3>3, <4>1, AcceptedIgnored
      <3> QED
        BY <3>2, <3>3
    <2> QED
      BY <1>2, <1>3, <1>4, <2>1, <2>2 DEF TransferInv
  <1>5. CASE /\ hPhase = "setupData" /\ Stored(SetupPacket)
             /\ hPhase' = AfterSetup /\ hTog' = USBPID_DATA1
             /\ UNCHANGED <<hSent, hOutcome>>
    <2>1. /\ usbRxLen = 0 /\ usbRxToken' = USBPID_SETUP /\ RxPacket' = SetupPacket
          /\ usbRxLen' = 11
      BY <1>3, <1>5 DEF Stored, SetupPacket
    <2>2. pc' # "rxdone" /\ hGot = <<>> /\ hSent = 0 /\ hOutcome = "pending"
      BY <1>2, <1>5, <2>1 DEF LinkInv, RxInv, StageInv, Working
    <2>3. hPhase' \in {"in", "out", "statusIn"}
      <3>1. hReq.dir \in {"in", "out"}
        BY RequestAssumption DEF DriverInv, HostInv, TypeOK, NoRequest, RequestType
      <3> QED
        BY <1>5, <3>1 DEF AfterSetup
    <2>4. Accepted'
      BY <1>2, <1>5, <2>1, <2>2, <2>3 DEF Accepted, PendingSetup, SetupPacket
    <2>5. served'.xfer # hXfer'
      <3>1. hXfer \in Nat /\ ~(hXfer < hXfer)
        BY XfersAssumption DEF DriverInv, HostInv, TypeOK
      <3> QED
        BY <1>2, <1>3, <1>5, <3>1
    <2> QED
      BY <1>5, <2>2, <2>3, <2>4, <2>5 DEF TransferInv
  <1>6. CASE /\ hPhase = "outData" /\ Stored(OutPacket)
             /\ hSent' = hSent + ChunkLen /\ hPhase' = AfterOut(hSent')
             /\ hTog' = IF hPhase' = "out" THEN Flip(hTog) ELSE USBPID_DATA1
             /\ UNCHANGED hOutcome
    <2>1. usbRxLen = 0 /\ hOutcome = "pending" /\ hPhase' \in {"out", "statusIn"}
      BY <1>6 DEF Stored, AfterOut, LinkInv, StageInv, Working
    <2>2. ~Accepted
      BY <2>1 DEF Accepted, PendingSetup
    <2>3. served.xfer = hXfer /\ InService
      BY <1>3, <1>6, <2>2 DEF PastSetup
    <2>4. InService'
      BY <1>2, <1>3, <1>6, <2>1, <2>3, InServiceOut
    <2> QED
      BY <1>2, <1>6, <2>1, <2>3, <2>4 DEF TransferInv
  <1>7. CASE /\ hPhase = "statusOutData" /\ Ignored /\ usbRxLen = 0
             /\ hPhase' = "idle" /\ hOutcome' = "ok" /\ UNCHANGED <<hSent, hTog>>
    BY <1>7 DEF TransferInv, PastSetup, Ignored
  <1> QED
    BY <1>1, <1>4, <1>5, <1>6, <1>7, DataCases

LEMMA TransferIn ==
    ASSUME DriverInv, LinkInv, TransferInv, HostIn
    PROVE  TransferInv'
  <1> SUFFICES ASSUME AfterLosses' PROVE TransferInv'
    BY DEF TransferInv
  <1>0. UNCHANGED hXfer /\ hPhase \in {"in", "statusIn"}
    BY DEF HostIn
  <1>1. ~Lose /\ (UNCHANGED losses => AfterLosses)
    BY <1>0, NothingLost DEF DriverInv
  <1>2. /\ MainKept /\ UNCHANGED <<hXfer, hReq, hSent>> /\ AfterLosses
        /\ UNCHANGED <<served, pc>>
    BY <1>1, InCases DEF MainKept, appVars
  <1>3. /\ IF served.xfer = hXfer THEN InService ELSE Accepted
        /\ PastSetup /\ hOutcome = "pending"
    BY <1>0, <1>2 DEF TransferInv, PastSetup, LinkInv, StageInv, Working
  <1>4. CASE Ignored /\ UNCHANGED <<hPhase, hGot, hTog, hAddr, hOutcome>>
    <2>1. PastSetup' /\ hOutcome' = "pending"
          /\ hPhase' \notin {"statusOut", "statusOutData", "setup", "setupData", "outData"}
      BY <1>0, <1>3, <1>4 DEF PastSetup
    <2>2. CASE served.xfer = hXfer
      <3>1. InService'
        BY <1>2, <1>3, <1>4, <2>1, <2>2, InServiceIgnored
      <3> QED
        BY <1>2, <2>1, <2>2, <3>1 DEF TransferInv
    <2>3. CASE served.xfer # hXfer
      <3>1. Accepted'
        BY <1>2, <1>3, <1>4, <2>1, <2>3, AcceptedIgnored
      <3> QED
        BY <1>2, <2>1, <2>3, <3>1 DEF TransferInv
    <2> QED
      BY <2>2, <2>3
  <1>5. CASE /\ Ignored /\ usbRxLen = 0 /\ usbTxLen = USBPID_STALL
             /\ hPhase' = "idle" /\ hOutcome' = "stall"
             /\ UNCHANGED <<hGot, hTog, hAddr>>
    BY <1>5 DEF TransferInv, PastSetup, Ignored
  <1>6. ASSUME Sent PROVE served.xfer = hXfer /\ InService
    BY <1>3, <1>6 DEF Sent, Accepted, PendingSetup
  <1>7. CASE /\ Sent /\ hAddr = usbDeviceAddr /\ usbTxBuf.pid # hTog
             /\ UNCHANGED <<hPhase, hGot, hTog, hAddr, hOutcome>>
    <2>1. hPhase = "statusIn"
      <3>1. ASSUME hPhase = "in" PROVE usbTxBuf.pid = hTog
        BY <1>6, <1>7, <3>1, InBlock DEF Sent
      <3> QED
        BY <1>0, <1>7, <3>1
    <2>2. InService'
      BY <1>2, <1>6, <1>7, <2>1, InServiceStatus
    <2> QED
      BY <1>2, <1>3, <1>6, <1>7, <2>1, <2>2 DEF TransferInv
  <1>8. CASE /\ Sent /\ hAddr = usbDeviceAddr /\ usbTxBuf.pid = hTog /\ hPhase = "in"
             /\ hGot' = hGot \o usbTxBuf.data
             /\ hPhase' = AfterIn(hGot', Len(usbTxBuf.data))
             /\ hTog' = Flip(hTog) /\ UNCHANGED <<hAddr, hOutcome>>
    <2>1. InService'
      BY <1>2, <1>6, <1>8, InServiceIn
    <2>2. hPhase' \in {"in", "statusOut"}
      BY <1>8 DEF AfterIn
    <2> QED
      BY <1>2, <1>3, <1>6, <1>8, <2>1, <2>2 DEF TransferInv
  <1>9. CASE /\ Sent /\ hAddr = usbDeviceAddr /\ usbTxBuf.pid = hTog
             /\ hPhase = "statusIn" /\ hPhase' = "idle"
             /\ hOutcome' = IF usbTxBuf.data = <<>> THEN "ok" ELSE "error"
             /\ hAddr' = IF hReq.bRequest = "SET_ADDRESS" THEN hReq.value ELSE hAddr
             /\ UNCHANGED <<hGot, hTog>>
    BY <1>9 DEF TransferInv, PastSetup, Sent
  <1> QED
    BY <1>1, <1>4, <1>5, <1>7, <1>8, <1>9, InCases

\* Traffic of other devices, of which nothing is lost, changes nothing.
LEMMA ForeignIgnored ==
    ASSUME DriverInv, HostForeign, ~Lose
    PROVE  /\ MainKept /\ Ignored /\ UNCHANGED <<hostVars, losses, line, resets>>
           /\ hPhase \notin {"setupData", "outData"}
  <1>0. RxTypeOK /\ MainKept /\ UNCHANGED <<hostVars, line, resets>>
    BY DEF DriverInv, HostInv, TypeOK, DevTypeOK, HostForeign, BusOnly, MainKept
  <1>1. hPhase \notin {"setupData", "outData"}
    BY DEF HostForeign, Stages
  <1>2. CASE \E addr \in Others \ {hAddr} : Deliver(IsrToken(USBPID_OUT, addr))
    <2>1. PICK addr : IsrToken(USBPID_OUT, addr) /\ UNCHANGED losses
      BY <1>2 DEF Deliver
    <2> QED
      BY <1>0, <1>1, <2>1, TokenEffect
  <1>3. CASE usbCurrentTok = 0 /\ IsrData(Junk(8), Silent) /\ UNCHANGED losses
    <2>1. Junk(8).len \in 0..8
      BY DEF Junk
    <2>2. Ignored
      <3>1. \/ Ignored \/ Stored(Junk(8))
        BY <1>0, <1>3, <2>1, DataEffect
      <3> QED
        BY <1>3, <3>1 DEF Stored
    <2> QED
      BY <1>0, <1>1, <1>3, <2>2
  <1> QED
    BY <1>2, <1>3 DEF HostForeign

LEMMA TransferHost ==
    ASSUME DriverInv, LinkInv, TransferInv, Host
    PROVE  TransferInv'
  <1>1. CASE \E rq \in Requests : HostStart(rq)
    <2>1. /\ hPhase' = "setup" /\ hOutcome' = "pending" /\ hXfer' = hXfer + 1
          /\ UNCHANGED served /\ DeviceDeaf
      BY <1>1 DEF HostStart, BusOnly, appVars
    <2>2. UNCHANGED <<usbRxLen, RxPacket>>
      BY <2>1, DeafEffect DEF Ignored
    <2>3. hXfer \in Nat /\ \A k \in Nat : k <= hXfer => k < hXfer + 1
      BY XfersAssumption DEF DriverInv, HostInv, TypeOK
    <2>4. served.xfer \in Nat /\ RxPacket.xfer \in Nat
      BY RxPacketType, XfersAssumption DEF DriverInv, HostInv, TypeOK, DevTypeOK,
        AppTypeOK, Packet
    <2>5. served'.xfer < hXfer'
      BY <2>1, <2>3, <2>4 DEF LinkInv, RxInv
    <2>6. usbRxLen' # 0 => RxPacket'.xfer < hXfer'
      BY <2>1, <2>2, <2>3, <2>4 DEF LinkInv, RxInv
    <2> QED
      BY <2>1, <2>5, <2>6 DEF TransferInv, PastSetup
  <1>2. CASE HostAbort
    BY <1>2 DEF HostAbort, TransferInv, PastSetup
  <1>3. CASE HostForeign
    <2> SUFFICES ASSUME AfterLosses' PROVE TransferInv'
      BY DEF TransferInv
    <2>0. /\ UNCHANGED <<hPhase, hXfer, hReq, hGot, hSent, hTog, hOutcome>>
      BY <1>3 DEF HostForeign, hostVars
    <2>1. ~Lose /\ (UNCHANGED losses => AfterLosses)
      BY <2>0, NothingLost DEF DriverInv
    <2>2. /\ MainKept /\ Ignored /\ AfterLosses
          /\ hPhase \notin {"setupData", "outData"}
      BY <1>3, <2>1, ForeignIgnored
    <2>3. UNCHANGED <<usbRxLen, RxPacket, served>>
      BY <2>2 DEF Ignored, MainKept, appVars
    <2>4. ASSUME PastSetup'
          PROVE  IF served'.xfer = hXfer' THEN InService' ELSE Accepted'
      <3>1. PastSetup /\ (IF served.xfer = hXfer THEN InService ELSE Accepted)
        BY <2>0, <2>2, <2>4 DEF PastSetup, TransferInv
      <3>2. CASE served.xfer = hXfer
        <4>1. InService
          BY <3>1, <3>2
        <4>2. InService'
          BY <2>0, <2>2, <2>4, <3>1, <4>1, InServiceIgnored
        <4> QED
          BY <2>0, <2>3, <3>2, <4>2
      <3>3. CASE served.xfer # hXfer
        <4>1. Accepted /\ hPhase' \notin {"statusOut", "statusOutData"}
          BY <2>0, <3>1, <3>3 DEF Accepted
        <4>2. Accepted'
          BY <2>0, <2>2, <4>1, AcceptedIgnored
        <4> QED
          BY <2>0, <2>3, <3>3, <4>2
      <3> QED
        BY <3>2, <3>3
    <2> QED
      BY <2>0, <2>2, <2>3, <2>4 DEF TransferInv
  <1>4. CASE HostReset
    BY <1>4 DEF HostReset, TransferInv, PastSetup, DeviceDeaf, rxVars, AfterLosses
  <1>5. CASE HostEndReset
    BY <1>5 DEF HostEndReset, TransferInv, PastSetup, DeviceDeaf, rxVars, AfterLosses
  <1> QED
    BY <1>1, <1>2, <1>3, <1>4, <1>5, TransferToken, TransferData, TransferIn
       DEF Host, HostProgress

-----------------------------------------------------------------------------
\* What usbFunctionWrite is given, under the steps of usbPoll.
LEMMA WriteMain ==
    ASSUME DriverInv, LinkInv, WriteInv, usbPoll, UNCHANGED <<hostVars, losses>>
    PROVE  WriteInv'
  <1>0. /\ DevTypeOK /\ UNCHANGED <<hXfer, losses>>
        /\ served.xfer \in Nat /\ RxPacket \in Packet /\ RxPacket.xfer \in Nat
    BY RxPacketType, XfersAssumption DEF DriverInv, HostInv, TypeOK, DevTypeOK,
      AppTypeOK, Packet, hostVars
  <1>1. UNCHANGED <<RxPacket, usbRxToken>>
    BY <1>0, MainRx
  <1>2. CASE TxSide \/ RxBadSetup \/ RxSetup
    <2>1. /\ UNCHANGED <<served, appGot, usbMsgFlags>>
          /\ PendingOut' => PendingOut
      <3>1. CASE TxSide
        BY <1>1, <3>1, TxSideFrame DEF PendingOut, appVars
      <3>2. CASE RxBadSetup \/ RxSetup
        BY <1>1, <3>2 DEF RxBadSetup, RxSetup, Main, PendingOut, rxVars, msgVars, appVars
      <3> QED
        BY <1>2, <3>1, <3>2
    <2> QED
      BY <1>0, <1>1, <2>1 DEF WriteInv, Trusted, AfterLosses, Payload
  <1>3. CASE RxAbort
    BY <1>3 DEF RxAbort, WriteInv
  <1>4. ASSUME NEW reply, RxRequest(reply) PROVE WriteInv'
    <2>1. appGot' = <<>> /\ ~PendingOut' /\ served' = RxPacket
      BY <1>4 DEF RxRequest, Main, PendingOut
    <2>2. appGot' = Payload(served'.xfer, Len(appGot'))
      BY <1>0, <2>1, PayloadEmpty, EmptySeq
    <2> QED
      BY <2>1, <2>2 DEF WriteInv, Payload
  <1>5. ASSUME NEW rval, RxWrite(rval) PROVE WriteInv'
    <2>1. /\ pc = "rx" /\ pc' = "rxdone" /\ usbRxToken # USBPID_SETUP /\ usbMsgFlags
          /\ appGot' = appGot \o PacketBytes(RxPacket, usbRxLen - 3)
          /\ UNCHANGED served
      BY <1>5 DEF RxWrite, Main
    <2>2. /\ usbRxLen # 0 /\ usbRxToken = USBPID_OUT /\ usbRxLen - 3 \in Nat
          /\ appGot \in Seq(Byte)
      BY <1>0, <2>1 DEF LinkInv, RxInv, DevTypeOK, RxTypeOK
    <2>3. PendingOut
      BY <2>1, <2>2 DEF PendingOut
    <2>4. ASSUME Trusted PROVE appGot' = Payload(served.xfer, Len(appGot'))
      <3>1. /\ appGot = Payload(served.xfer, Len(appGot))
            /\ RxPacket.xfer = served.xfer /\ RxPacket.off = Len(appGot)
            /\ RxPacket.req = NoRequest
        BY <2>1, <2>3, <2>4 DEF WriteInv
      <3>2. PICK n \in Nat : n = usbRxLen - 3
        BY <2>2
      <3>3. PICK bytes \in Seq(Byte) : bytes = PacketBytes(RxPacket, n) /\ Len(bytes) = n
        BY <1>0, PacketBytesSeq
      <3>4. \A i \in 1..Len(bytes) : bytes[i] = <<served.xfer, Len(appGot) + i>>
        BY <3>1, <3>3 DEF PacketBytes
      <3>5. appGot \o bytes = Payload(served.xfer, Len(appGot \o bytes))
        BY <1>0, <2>2, <3>1, <3>4, PayloadConcat
      <3> QED
        BY <2>1, <3>2, <3>3, <3>5
    <2>5. ~PendingOut' /\ (Trusted' => Trusted)
      BY <1>0, <2>1 DEF PendingOut, Trusted, AfterLosses
    <2> QED
      BY <2>1, <2>4, <2>5 DEF WriteInv, Payload
  <1> QED
    BY <1>2, <1>3, <1>4, <1>5 DEF usbPoll, PollDriver, TxSide

\* What is trusted after a step of the host was trusted before, and nothing
\* was lost in the step.
LEMMA TrustKept ==
    ASSUME DriverInv, LinkInv, Host, Trusted'
    PROVE  Trusted /\ ~Lose /\ UNCHANGED losses /\ AfterLosses
  <1>1. HostInv /\ UNCHANGED served
    BY HostEffect DEF DriverInv, MainKept, appVars
  <1>2. served.xfer \in Int /\ hXfer \in Int /\ served.xfer <= hXfer
    BY XfersAssumption DEF LinkInv, RxInv, DriverInv, HostInv, TypeOK, DevTypeOK,
      AppTypeOK, Packet
  <1>3. \A i \in DOMAIN losses' : losses'[i] < served.xfer
    BY <1>1 DEF Trusted
  <1>4. ~Lose /\ UNCHANGED losses
    BY <1>1, <1>2, <1>3, LossesKept
  <1>5. \A i \in DOMAIN losses : losses[i] < served.xfer
    BY <1>3, <1>4
  <1> QED
    BY <1>1, <1>2, <1>4, <1>5, LossesBefore DEF Trusted, AfterLosses

\* Only the host's own data packets are stored.
LEMMA StoredOnly ==
    ASSUME DriverInv, Host, ~Lose, ~HostData
    PROVE  Ignored \/ Sent
  <1>1. RxTypeOK
    BY DEF DriverInv, HostInv, TypeOK, DevTypeOK
  <1>2. CASE HostToken
    BY <1>1, <1>2, TokenEffect DEF HostToken, Deliver
  <1>3. CASE \/ \E rq \in Requests : HostStart(rq)
             \/ HostAbort \/ HostReset \/ HostEndReset
    BY <1>3, DeafEffect DEF HostStart, HostAbort, HostReset, HostEndReset
  <1>4. CASE HostIn
    BY <1>4, InCases
  <1>5. CASE HostForeign
    BY <1>5, ForeignIgnored
  <1> QED
    BY <1>2, <1>3, <1>4, <1>5 DEF Host, HostProgress

LEMMA WriteHost ==
    ASSUME DriverInv, LinkInv, TransferInv, WriteInv, Host
    PROVE  WriteInv'
  <1> SUFFICES ASSUME Trusted', usbMsgFlags' PROVE WriteInv'
    BY DEF WriteInv
  <1>0. UNCHANGED <<usbMsgFlags, served, appGot, pc>>
    BY HostEffect DEF MainKept, msgVars, appVars
  <1>1. Trusted /\ ~Lose /\ AfterLosses
    BY TrustKept
  <1>2. /\ appGot = Payload(served.xfer, Len(appGot))
        /\ PendingOut => /\ RxPacket.xfer = served.xfer /\ RxPacket.off = Len(appGot)
                         /\ RxPacket.req = NoRequest /\ RxPacket.len <= MaxPkt
    BY <1>0, <1>1 DEF WriteInv
  <1>3. CASE Ignored \/ Sent
    <2>1. UNCHANGED <<RxPacket, usbRxLen, usbRxToken>>
      BY <1>3 DEF Ignored, Sent
    <2> QED
      BY <1>0, <1>2, <2>1 DEF WriteInv, PendingOut, Payload
  <1>4. CASE HostData
    <2>0. hXfer' = hXfer /\ ~Lose /\ AfterLosses
      BY <1>1, <1>4 DEF HostData
    <2>1. CASE hPhase = "setupData" /\ Stored(SetupPacket)
      <3>1. usbCurrentTok \in {0, USBPID_SETUP}
        BY <2>0, <2>1 DEF TransferInv
      <3>2. ~PendingOut'
        BY <2>1, <3>1 DEF Stored, PendingOut
      <3> QED
        BY <1>0, <1>2, <3>2 DEF WriteInv, Payload
    <2>2. CASE hPhase = "outData" /\ Stored(OutPacket)
      <3>1. usbRxLen = 0 /\ RxPacket' = OutPacket /\ ~PendingOut
        BY <2>2 DEF Stored, PendingOut
      <3>2. served.xfer = hXfer /\ InService
        BY <2>0, <2>2, <3>1 DEF TransferInv, PastSetup, Accepted, PendingSetup
      <3>3. Writing
        BY <1>0, <2>2, <3>2 DEF InService
      <3>4. Len(appGot) = hSent
        <4>1. Len(appGot) \in Nat /\ Len(appGot) + 0 = hSent
          BY <3>1, <3>3, LenProperties DEF Writing, LinkInv, RxInv
        <4> QED
          BY <4>1
      <3>5. ChunkLen <= MaxPkt
        BY <2>2, ChunkStep DEF LinkInv, StageInv, DriverInv
      <3>6. /\ RxPacket'.xfer = served.xfer /\ RxPacket'.off = Len(appGot)
            /\ RxPacket'.req = NoRequest /\ RxPacket'.len <= MaxPkt
        BY <3>1, <3>2, <3>4, <3>5 DEF OutPacket
      <3> QED
        BY <1>0, <1>2, <3>6 DEF WriteInv, Payload
    <2> QED
      BY <1>3, <1>4, <2>0, <2>1, <2>2, DataCases
  <1>5. hXfer' = hXfer \/ \E rq \in Requests : HostStart(rq)
    BY DEF Host, HostProgress, HostToken, HostData, HostIn, HostAbort,
      HostForeign, HostReset, HostEndReset, hostVars
  <1>6. (\E rq \in Requests : HostStart(rq)) => Ignored
    BY DeafEffect DEF HostStart
  <1> QED
    BY <1>1, <1>3, <1>4, <1>5, <1>6, StoredOnly

\* A control-out transfer that has succeeded is over for the application too.
LEMMA OutMain ==
    ASSUME DriverInv, LinkInv, TransferInv, ControlOut, usbPoll,
           UNCHANGED <<hostVars, losses>>
    PROVE  ControlOut'
  <1> SUFFICES ASSUME AfterLosses', hOutcome' = "ok" PROVE ControlOut'
    BY DEF ControlOut
  <1>0. UNCHANGED <<hXfer, hReq, hOutcome>>
    BY DEF hostVars
  <1>1. AfterLosses /\ usbRxLen = 0
    BY <1>0 DEF AfterLosses, TransferInv
  <1>2. pc \notin {"rx", "setup"}
    BY <1>1 DEF LinkInv, RxInv
  <1>3. UNCHANGED appVars
    <2>1. DevTypeOK
      BY DEF DriverInv, HostInv, TypeOK
    <2>2. PICK reply \in 0..255, rval \in {0, 1, 255} : MainStep(reply, rval)
      BY <2>1, PollSteps
    <2>3. UNCHANGED appVars \/ RxRequest(reply) \/ RxWrite(rval)
      BY <2>2, MainFrame
    <2> QED
      BY <1>2, <2>3 DEF RxRequest, RxWrite, Main
  <1> QED
    BY <1>0, <1>1, <1>3 DEF ControlOut, appVars, Payload

LEMMA OutHost ==
    ASSUME DriverInv, LinkInv, TransferInv, WriteInv, ControlOut, Host
    PROVE  ControlOut'
  <1> SUFFICES ASSUME AfterLosses', hOutcome' = "ok", hReq'.dir = "out"
               PROVE  ControlOut'
    BY DEF ControlOut
  <1>0. UNCHANGED <<served, promised, appGot, appVerdict>>
    BY HostEffect DEF MainKept, appVars
  <1>1. UNCHANGED <<hXfer, hReq>>
    BY DEF Host, HostProgress, HostStart, HostToken, HostData, HostIn, HostAbort,
        HostForeign, HostReset, HostEndReset, hostVars
  <1>2. ~Lose /\ (UNCHANGED losses => AfterLosses)
    BY <1>1, NothingLost DEF DriverInv
  <1>3. UNCHANGED losses /\ AfterLosses
    BY <1>2 DEF Host, HostProgress, HostStart, HostToken, HostData, HostIn,
      HostAbort, HostForeign, HostReset, HostEndReset, Deliver
  <1>4. CASE hOutcome = "ok"
    BY <1>0, <1>1, <1>3, <1>4 DEF ControlOut, Payload
  <1>5. CASE hOutcome # "ok"
    <2>1. HostData \/ HostIn
      BY <1>5 DEF Host, HostProgress, HostStart, HostToken, HostAbort, HostForeign,
        HostReset, HostEndReset, hostVars
    <2>2. CASE HostData
      <3>1. hPhase = "statusOutData"
        BY <1>2, <1>5, <2>2, DataCases
      <3> QED
        BY <1>1, <3>1 DEF LinkInv, StageInv
    <2>3. CASE HostIn
      <3>1. Sent /\ hPhase = "statusIn"
        BY <1>2, <1>5, <2>3, InCases
      <3>2. /\ usbRxLen = 0 /\ usbTxLen # USBPID_NAK /\ usbTxLen # USBPID_STALL
            /\ ~PendingOut
        BY <3>1, HandshakeBit DEF Sent, PendingOut
      <3>3. served.xfer = hXfer /\ InService
        BY <1>3, <3>1, <3>2 DEF TransferInv, PastSetup, Accepted, PendingSetup
      <3>4. ASSUME promised = USB_NO_MSG
            PROVE  appGot = Payload(hXfer, hReq.wLength) /\ appVerdict # 255
        <4>1. usbMsgFlags /\ Writing
          BY <3>1, <3>3, <3>4 DEF InService
        <4>2. appGot = Payload(hXfer, Len(appGot))
          <5>1. Trusted
            BY <1>3, <3>3 DEF Trusted, AfterLosses
          <5> QED
            BY <1>3, <3>3, <4>1, <5>1 DEF WriteInv
        <4>3. Len(appGot) = hReq.wLength
          <5>1. Len(appGot) \in Nat /\ Len(appGot) + 0 = hSent /\ hSent = hReq.wLength
            BY <3>1, <3>2, <4>1, LenProperties DEF Writing, LinkInv, RxInv, StageInv
          <5> QED
            BY <5>1
        <4>4. appVerdict # 255
          BY <3>2, <4>1 DEF Writing
        <4> QED
          BY <4>2, <4>3, <4>4
      <3> QED
        BY <1>0, <1>1, <3>3, <3>4 DEF ControlOut, Payload
    <2> QED
      BY <2>1, <2>2, <2>3
  <1> QED
    BY <1>4, <1>5

-----------------------------------------------------------------------------
LEMMA PipeInit == Init => PipeInv
  <1> SUFFICES ASSUME Init PROVE PipeInv
    OBVIOUS
  <1>1. TransferInv
    BY DEF Init, DevInit, HostInit, TransferInv, PastSetup
  <1>2. WriteInv
    BY DEF Init, DevInit, HostInit, WriteInv
  <1>3. ControlOut
    BY DEF Init, DevInit, HostInit, ControlOut
  <1> QED
    BY <1>1, <1>2, <1>3, DriverInit, LinkInit DEF PipeInv

LEMMA PipeStep == PipeInv /\ [Next]_vars => PipeInv'
  <1> SUFFICES ASSUME PipeInv, [Next]_vars PROVE PipeInv'
    OBVIOUS
  <1>0. /\ DriverInv /\ LinkInv /\ TransferInv /\ WriteInv /\ ControlOut
        /\ DriverInv' /\ LinkInv'
    BY DriverInvStep, LinkStep DEF PipeInv
  <1>1. CASE usbPoll /\ UNCHANGED <<hostVars, resets, losses>>
    BY <1>0, <1>1, TransferMain, WriteMain, OutMain DEF PipeInv
  <1>2. CASE Host
    BY <1>0, <1>2, TransferHost, WriteHost, OutHost DEF PipeInv
  <1>3. CASE UNCHANGED vars
    <2>1. /\ UNCHANGED <<hostVars, losses, msgVars, appVars, txVars, rxVars, pc, blkLen>>
          /\ MainKept /\ Ignored
      BY <1>3 DEF vars, devVars, MainKept, Ignored, rxVars, txVars, msgVars, addrVars,
        appVars, RxPacket
    <2>2. TransferInv' = TransferInv
      BY <2>1 DEF TransferInv, AfterLosses, PastSetup, InService, Accepted, PendingSetup,
        PendingOut, SetupPacket, Writing, Chain, ChainParts, Armed, Resting, Reserved,
        Filled, Block, Payload, RxPacket, rxVars, txVars, msgVars, appVars, hostVars
    <2>3. WriteInv' = WriteInv /\ ControlOut' = ControlOut
      BY <2>1 DEF WriteInv, ControlOut, Trusted, AfterLosses, PendingOut, Payload,
        RxPacket, rxVars, msgVars, appVars, hostVars
    <2> QED
      BY <1>0, <2>2, <2>3 DEF PipeInv
  <1> QED
    BY <1>1, <1>2, <1>3 DEF Next

\* Everything above, always.
THEOREM TransferInvariant == Spec => []PipeInv
  BY PipeInit, PipeStep, PTL DEF Spec

\* After a transfer that the host saw to its end the receive buffer is free
\* and the next SETUP is welcome (the comment of 2006-03-11 in asmcommon.inc),
\* with any requests and any application.
THEOREM NextSetupWelcome == Spec => []SetupWelcome
  <1>1. PipeInv => SetupWelcome
    BY DEF PipeInv, TransferInv, SetupWelcome
  <1> QED
    BY <1>1, TransferInvariant, PTL

\* The host receives the bytes of the reply to its own request, in order, none
\* missing or doubled, and all of them (usbBuildTxBlock and the IN handler),
\* for every packet size, number of transfers, resets and earlier losses.
THEOREM ControlInComplete == Spec => []ControlIn
  <1>1. PipeInv => ControlIn
    <2> SUFFICES ASSUME PipeInv, AfterLosses,
                        hPhase \in {"in", "statusOut", "statusOutData"}
                 PROVE  ControlIn
      BY DEF ControlIn
    <2>1. PastSetup /\ (IF served.xfer = hXfer THEN InService ELSE Accepted)
          /\ LinkInv /\ HostInv
      BY DEF PipeInv, TransferInv, PastSetup, DriverInv
    <2>2. CASE served.xfer = hXfer
      BY <2>1, <2>2 DEF InService, ControlIn
    <2>3. CASE served.xfer # hXfer
      <3>1. hGot = <<>> /\ hPhase \notin {"statusOut", "statusOutData"}
        BY <2>1, <2>3 DEF Accepted
      <3>2. hXfer \in Nat
        BY <2>1, XfersAssumption DEF HostInv, TypeOK
      <3>3. hGot = Payload(hXfer, Len(hGot))
        BY <3>1, <3>2, PayloadEmpty, EmptySeq
      <3> QED
        BY <3>1, <3>3 DEF ControlIn
    <2> QED
      BY <2>2, <2>3
  <1> QED
    BY <1>1, TransferInvariant, PTL

\* A control-out transfer that succeeds has handed every byte of its data stage
\* to usbFunctionWrite once and in order, whatever was lost before it.
THEOREM ControlOutComplete == Spec => []ControlOut
  <1>1. PipeInv => ControlOut
    BY DEF PipeInv
  <1> QED
    BY <1>1, TransferInvariant, PTL

-----------------------------------------------------------------------------
(***************************************************************************)
(* Addresses.  The driver keeps the one it has until it answers the status *)
(* stage of SET_ADDRESS, and a bus reset lasts until usbPoll has seen it.  *)
(***************************************************************************)
SettingAddr == PastSetup /\ served.xfer = hXfer /\ hReq.bRequest = "SET_ADDRESS"

AddrIdle ==
    /\ usbDeviceAddr = hAddr
    /\ usbNewDeviceAddr = IF SettingAddr THEN hReq.value ELSE hAddr
    /\ PendingSetup /\ RxPacket.req.bRequest = "SET_ADDRESS" =>
         PastSetup /\ served.xfer # hXfer
    /\ pc = "reset" => hAddr = 0 /\ ~SettingAddr
AddrReset ==
    /\ line = "polled" =>
         /\ pc # "poll"
         /\ pc \notin {"rx", "abort", "setup", "rxdone"} => usbRxLen = 0
         /\ pc = "reset" => usbNewDeviceAddr = 0
    /\ line = "seen" => usbRxLen = 0 /\ usbDeviceAddr = 0 /\ usbNewDeviceAddr = 0
AddrInv == losses = <<>> => (line = "idle" => AddrIdle) /\ AddrReset

\* A SET_ADDRESS request has no data stage towards the host (USB 1.1, 9.4.6).
AddressHasNoReply ==
    \A rq \in Requests :
      rq.bRequest = "SET_ADDRESS" => rq.dir = "out" \/ rq.wLength = 0

\* The driver itself answers SET_ADDRESS, with an empty packet.
LEMMA SettingInService ==
    ASSUME DriverInv, LinkInv, TransferInv, AddressHasNoReply, AfterLosses, SettingAddr
    PROVE  /\ InService /\ hPhase \in {"out", "outData", "statusIn"}
           /\ ~usbMsgFlags /\ promised = 0 /\ Chain(0, USBPID_DATA1)
  <1>1. InService
    BY DEF TransferInv, SettingAddr
  <1>2. hReq \in RequestType /\ (hReq \in Requests \/ hReq = NoRequest)
    BY RequestAssumption DEF DriverInv, HostInv, TypeOK, NoRequest, RequestType,
      StandardRequests
  <1>3. hReq.bRequest = "SET_ADDRESS" /\ hReq # NoRequest
    BY DEF SettingAddr, NoRequest
  <1>4. ~(hReq.dir = "in" /\ hReq.wLength > 0)
    <2>1. hReq.dir = "out" \/ hReq.wLength = 0
      BY <1>2, <1>3 DEF AddressHasNoReply
    <2> QED
      BY <2>1
  <1>5. hPhase \in {"out", "outData", "statusIn"}
    BY <1>4 DEF LinkInv, StageInv, SettingAddr, PastSetup, DriverInv, HostInv, TypeOK,
      Phases, Stages
  <1>6. ~usbMsgFlags /\ promised = 0
    <2>1. PICK reply \in ReplyLens(hReq) : promised = LimitedLen(reply, hReq)
      BY <1>1 DEF InService
    <2>2. reply = 0 /\ hReq.wLength \in 0..254
      BY <1>2, <1>3, <2>1 DEF ReplyLens, StdReplyLen, RequestType
    <2>3. promised = 0
      BY <2>1, <2>2 DEF LimitedLen
    <2> QED
      BY <1>1, <2>3 DEF InService
  <1> QED
    BY <1>1, <1>5, <1>6 DEF InService

LEMMA AddrMain ==
    ASSUME DriverInv, LinkInv, TransferInv, AddrInv, AddressHasNoReply, usbPoll,
           UNCHANGED <<hostVars, losses>>
    PROVE  AddrInv'
  <1> SUFFICES ASSUME losses = <<>> PROVE ((line = "idle" => AddrIdle) /\ AddrReset)'
    BY DEF AddrInv
  <1>0. /\ UNCHANGED <<hPhase, hXfer, hReq, hAddr>> /\ DevTypeOK
        /\ line = "idle" => AddrIdle
        /\ AddrReset /\ AfterLosses
    BY DEF hostVars, DriverInv, HostInv, TypeOK, AddrInv, AfterLosses
  <1>1. UNCHANGED <<RxPacket, usbRxToken, usbCurrentTok>> /\ (PastSetup' <=> PastSetup)
    BY <1>0, MainRx DEF PastSetup
  <1>2. CASE PollRxLen
    <2>1. /\ UNCHANGED <<usbRxLen, usbDeviceAddr, usbNewDeviceAddr, served>>
          /\ pc = "poll" /\ pc' \in {"rx", "tx"} /\ (pc' = "tx" => ~(usbRxLen >= 3))
          /\ line' = IF line = "reset" THEN "polled" ELSE line
      BY <1>2 DEF PollRxLen, Main, rxVars, addrVars, appVars
    <2>2. pc' = "tx" => usbRxLen = 0
      BY <1>0, <2>1 DEF DevTypeOK, RxTypeOK
    <2>3. PendingSetup' => PendingSetup
      BY <1>1, <2>1 DEF PendingSetup
    <2> QED
      BY <1>0, <1>1, <2>1, <2>2, <2>3 DEF AddrIdle, AddrReset, SettingAddr
  <1>3. CASE RxBadSetup \/ RxSetup \/ RxAbort \/ RxIgnoredOut \/ \E rval : RxWrite(rval)
    <2>1. /\ UNCHANGED <<usbRxLen, usbDeviceAddr, usbNewDeviceAddr, served, line>>
          /\ pc \in {"rx", "abort"} /\ pc' \in {"abort", "setup", "rxdone"}
      BY <1>3 DEF RxBadSetup, RxSetup, RxAbort, RxIgnoredOut, RxWrite, Main, rxVars,
        addrVars, appVars
    <2>2. PendingSetup' => PendingSetup
      BY <1>1, <2>1 DEF PendingSetup
    <2> QED
      BY <1>0, <1>1, <2>1, <2>2 DEF AddrIdle, AddrReset, SettingAddr
  <1>4. CASE RxRelease
    <2>1. /\ UNCHANGED <<usbDeviceAddr, usbNewDeviceAddr, served, line>>
          /\ usbRxLen' = 0 /\ pc' = "tx"
      BY <1>4 DEF RxRelease, Main, addrVars, appVars
    <2> QED
      BY <1>0, <1>1, <2>1 DEF AddrIdle, AddrReset, SettingAddr, PendingSetup
  <1>5. CASE PollTxLen \/ TxBuild \/ TxCopy \/ TxCrc \/ TxArm
    <2>1. /\ UNCHANGED <<usbRxLen, usbDeviceAddr, usbNewDeviceAddr, served, line>>
          /\ pc \in {"tx", "build", "copy", "crc", "arm"}
          /\ pc' \in {"build", "copy", "crc", "arm", "line"}
      BY <1>5 DEF PollTxLen, TxBuild, TxCopy, TxCrc, TxArm, Main, rxVars, addrVars, appVars
    <2> QED
      BY <1>0, <1>1, <2>1 DEF AddrIdle, AddrReset, SettingAddr, PendingSetup
  <1>6. CASE PollLine
    <2>1. /\ UNCHANGED <<usbRxLen, usbDeviceAddr, served, line>> /\ pc = "line"
          /\ pc' = IF line = "idle" THEN "poll" ELSE "reset"
          /\ usbNewDeviceAddr' = IF line = "idle" THEN usbNewDeviceAddr ELSE 0
      BY <1>6 DEF PollLine, Main, rxVars, appVars
    <2> QED
      BY <1>0, <1>1, <2>1 DEF AddrIdle, AddrReset, SettingAddr, PendingSetup
  <1>7. CASE PollReset
    <2>1. /\ UNCHANGED <<usbRxLen, usbNewDeviceAddr, served>> /\ pc = "reset"
          /\ pc' = "poll" /\ usbDeviceAddr' = 0
          /\ line' = IF line = "polled" THEN "seen" ELSE line
      BY <1>7 DEF PollReset, Main, rxVars, appVars
    <2> QED
      BY <1>0, <1>1, <2>1 DEF AddrIdle, AddrReset, SettingAddr, PendingSetup
  <1>8. ASSUME NEW reply, RxRequest(reply) PROVE ((line = "idle" => AddrIdle) /\ AddrReset)'
    <2>1. /\ pc = "setup" /\ pc' = "rxdone" /\ served' = RxPacket
          /\ UNCHANGED <<usbRxLen, usbDeviceAddr, line>>
          /\ usbNewDeviceAddr' = IF RxPacket.req.bRequest = "SET_ADDRESS"
                                   THEN RxPacket.req.value ELSE usbNewDeviceAddr
      BY <1>8 DEF RxRequest, Main, rxVars
    <2>2. PendingSetup /\ usbRxLen # 0
      BY <2>1 DEF LinkInv, RxInv, PendingSetup
    <2>3. PastSetup => Accepted /\ served.xfer # hXfer
      BY <1>0, <2>2 DEF TransferInv, InService
    <2>4. PastSetup => RxPacket.req = hReq /\ RxPacket.xfer = hXfer
      BY <2>3 DEF Accepted, SetupPacket
    <2>5. ~SettingAddr
      BY <2>3 DEF SettingAddr
    <2>6. SettingAddr' <=> PastSetup /\ hReq.bRequest = "SET_ADDRESS"
      BY <1>0, <1>1, <2>1, <2>4 DEF SettingAddr
    <2>7. line = "idle" => AddrIdle'
      <3>1. line = "idle" /\ RxPacket.req.bRequest = "SET_ADDRESS" => PastSetup
        BY <1>0, <2>2 DEF AddrIdle
      <3>2. line = "idle" =>
              usbNewDeviceAddr' = IF SettingAddr' THEN hReq'.value ELSE hAddr'
        BY <1>0, <2>1, <2>4, <2>5, <2>6, <3>1 DEF AddrIdle
      <3> QED
        BY <1>0, <2>1, <3>2 DEF AddrIdle, PendingSetup
    <2> QED
      BY <1>0, <2>1, <2>2, <2>7 DEF AddrReset
  <1> QED
    BY <1>2, <1>3, <1>4, <1>5, <1>6, <1>7, <1>8 DEF usbPoll, PollDriver

\* A transfer over with an IN transaction leaves both ends with one address.
LEMMA AddrIn ==
    ASSUME DriverInv, LinkInv, TransferInv, AddressHasNoReply, AfterLosses,
           AddrIdle, HostIn, ~Lose
    PROVE  AddrIdle'
  <1>0. /\ hPhase \in {"in", "statusIn"} /\ PastSetup
        /\ UNCHANGED <<pc, served, hXfer, hReq>>
    BY InCases DEF HostIn, PastSetup, MainKept, appVars
  <1>1. SettingAddr =>
          /\ hPhase = "statusIn" /\ hTog = USBPID_DATA1
          /\ Chain(0, USBPID_DATA1)
    BY <1>0, SettingInService DEF LinkInv, StageInv
  <1>2. SettingAddr /\ ~IsHandshake(usbTxLen) => usbTxBuf.pid = hTog
    <2>1. ~IsHandshake(usbTxLen) => usbTxLen # USBPID_NAK
      BY HandshakeBit
    <2> QED
      BY <1>1, <2>1 DEF Chain, ChainParts, Armed, Resting, Reserved, Filled
  <1>3. CASE Ignored /\ UNCHANGED <<hPhase, hGot, hTog, hAddr, hOutcome>>
    <2>1. UNCHANGED <<usbDeviceAddr, usbNewDeviceAddr, usbRxLen, usbRxToken, RxPacket>>
      BY <1>3 DEF Ignored, addrVars
    <2> QED
      BY <1>0, <1>3, <2>1 DEF AddrIdle, SettingAddr, PastSetup, PendingSetup
  <1>4. CASE /\ Ignored /\ usbRxLen = 0 /\ usbTxLen = USBPID_STALL
             /\ hPhase' = "idle" /\ UNCHANGED <<hGot, hTog, hAddr>>
    <2>1. UNCHANGED <<usbDeviceAddr, usbNewDeviceAddr, usbRxLen>> /\ ~PastSetup'
      BY <1>4 DEF Ignored, addrVars, PastSetup
    <2>2. ~SettingAddr
      <3>1. SettingAddr => Chain(0, USBPID_DATA1) /\ promised = 0
        BY SettingInService
      <3>2. ChunkOf(0) = 0 /\ 0 - 0 = 0
        BY PktAssumption DEF ChunkOf
      <3>3. SettingAddr => usbTxLen \in {4, USBPID_NAK}
        BY <3>1, <3>2 DEF Chain, ChainParts, Armed, Resting, Reserved, Filled
      <3> QED
        BY <1>4, <3>3
    <2> QED
      BY <1>0, <1>4, <2>1, <2>2 DEF AddrIdle, SettingAddr, PendingSetup
  <1>5. ASSUME Sent
        PROVE  /\ UNCHANGED <<usbNewDeviceAddr, usbRxLen>> /\ usbRxLen = 0
               /\ usbDeviceAddr' = usbNewDeviceAddr /\ served.xfer = hXfer
               /\ ~IsHandshake(usbTxLen)
    BY <1>0, <1>5 DEF Sent, TransferInv, Accepted, PendingSetup
  <1>6. CASE /\ Sent /\ usbTxBuf.pid # hTog
             /\ UNCHANGED <<hPhase, hGot, hTog, hAddr, hOutcome>>
    BY <1>0, <1>2, <1>5, <1>6 DEF AddrIdle, SettingAddr, PastSetup, PendingSetup
  <1>7. CASE /\ Sent /\ hPhase = "in" /\ UNCHANGED hAddr
    <2>1. ~SettingAddr /\ ~SettingAddr'
      BY <1>0, <1>1, <1>5, <1>7 DEF SettingAddr
    <2> QED
      BY <1>0, <1>5, <1>7, <2>1 DEF AddrIdle, PendingSetup
  <1>8. CASE /\ Sent /\ hPhase = "statusIn" /\ hPhase' = "idle"
             /\ hAddr' = IF hReq.bRequest = "SET_ADDRESS" THEN hReq.value ELSE hAddr
    <2>1. ~SettingAddr' /\ (SettingAddr <=> hReq.bRequest = "SET_ADDRESS")
      BY <1>0, <1>5, <1>8 DEF SettingAddr, PastSetup
    <2> QED
      BY <1>0, <1>5, <1>8, <2>1 DEF AddrIdle, PendingSetup
  <1> QED
    BY <1>3, <1>4, <1>6, <1>7, <1>8, InCases

LEMMA AddrHost ==
    ASSUME DriverInv, LinkInv, TransferInv, AddrInv, AddressHasNoReply,
           ~RetryAfterAddress, Host
    PROVE  AddrInv'
  <1> SUFFICES ASSUME losses' = <<>> PROVE ((line = "idle" => AddrIdle) /\ AddrReset)'
    BY DEF AddrInv
  <1>0. UNCHANGED <<pc, served>>
    BY HostEffect DEF MainKept, appVars
  <1>1. CASE HostReset \/ HostEndReset
    <2>1. /\ UNCHANGED <<usbRxLen, usbDeviceAddr, usbNewDeviceAddr>> /\ losses = <<>>
      BY <1>1 DEF HostReset, HostEndReset, DeviceDeaf, rxVars, addrVars
    <2>2. CASE HostReset
      BY <2>2 DEF HostReset, AddrReset
    <2>3. CASE HostEndReset
      BY <2>1, <2>3 DEF HostEndReset, AddrInv, AddrReset, AddrIdle, SettingAddr,
        PastSetup, PendingSetup
    <2> QED
      BY <1>1, <2>2, <2>3
  <1>2. CASE ~(HostReset \/ HostEndReset)
    <2>0. \/ \E rq \in Requests : HostStart(rq)
          \/ HostToken \/ HostData \/ HostIn \/ HostAbort \/ HostForeign
      BY <1>2 DEF Host, HostProgress
    <2>1. /\ hPhase # "reset" /\ UNCHANGED line /\ ~Lose /\ UNCHANGED losses
      <3>2. hPhase # "reset" /\ UNCHANGED line
        BY <2>0 DEF HostStart, HostToken, HostData, HostIn, HostAbort, HostForeign,
          BusOnly, Stages
      <3>3. UNCHANGED losses \/ (Lose /\ UNCHANGED hXfer)
        BY <2>0 DEF HostStart, HostToken, HostData, HostIn, HostAbort, HostForeign,
          Deliver, hostVars
      <3>4. UNCHANGED losses
        BY <3>3, LossOnRecord DEF DriverInv
      <3>5. ~Lose
        BY <3>4, LossLonger DEF DriverInv
      <3> QED
        BY <3>2, <3>4, <3>5
    <2>2. /\ line = "idle" /\ line' = "idle" /\ AddrIdle /\ AfterLosses
      BY <2>1 DEF LinkInv, StageInv, AddrInv, AfterLosses
    <2> SUFFICES AddrIdle'
      BY <2>2 DEF AddrReset
    <2>3. CASE \E rq \in Requests : HostStart(rq)
      <3>1. /\ Ignored /\ UNCHANGED hAddr /\ ~PastSetup /\ ~PastSetup'
        BY <2>3, DeafEffect DEF HostStart, PastSetup
      <3> QED
        BY <1>0, <2>2, <3>1 DEF AddrIdle, SettingAddr, PendingSetup, Ignored, addrVars
    <2>4. CASE HostToken
      <3>1. Ignored /\ UNCHANGED <<hAddr, hXfer, hReq>> /\ (PastSetup' <=> PastSetup)
        BY <2>1, <2>4, TokenEffect DEF HostToken, Deliver, DriverInv, HostInv, TypeOK,
          DevTypeOK, PastSetup
      <3> QED
        BY <1>0, <2>2, <3>1 DEF AddrIdle, SettingAddr, PendingSetup, Ignored, addrVars
    <2>5. CASE HostData
      <3>0. UNCHANGED <<hAddr, hXfer, hReq>>
        BY <2>5 DEF HostData
      <3>1. CASE Ignored /\ (PastSetup' <=> PastSetup)
        BY <1>0, <2>2, <3>0, <3>1 DEF AddrIdle, SettingAddr, PendingSetup, Ignored, addrVars
      <3>2. CASE hPhase = "setupData" /\ Stored(SetupPacket) /\ hPhase' = AfterSetup
        <4>1. hReq.dir \in {"in", "out"}
          BY RequestAssumption DEF DriverInv, HostInv, TypeOK, NoRequest, RequestType
        <4>2. /\ ~PastSetup /\ PastSetup'
              /\ UNCHANGED <<usbDeviceAddr, usbNewDeviceAddr>>
          BY <3>2, <4>1 DEF PastSetup, AfterSetup, Stored, addrVars
        <4>3. served.xfer # hXfer
          <5>1. hXfer \in Nat /\ ~(hXfer < hXfer) /\ served.xfer < hXfer
            BY <2>2, <3>2, XfersAssumption DEF DriverInv, HostInv, TypeOK, TransferInv
          <5> QED
            BY <5>1
        <4> QED
          BY <1>0, <2>2, <3>0, <4>2, <4>3 DEF AddrIdle, SettingAddr
      <3>3. CASE /\ hPhase = "outData" /\ Stored(OutPacket)
                 /\ hPhase' = AfterOut(hSent')
        <4>1. usbRxToken' # USBPID_SETUP
          BY <2>2, <3>3 DEF TransferInv, Stored
        <4>2. /\ ~PendingSetup' /\ PastSetup /\ PastSetup'
              /\ UNCHANGED <<usbDeviceAddr, usbNewDeviceAddr>>
          BY <3>3, <4>1 DEF PendingSetup, PastSetup, AfterOut, Stored, addrVars
        <4> QED
          BY <1>0, <2>2, <3>0, <4>2 DEF AddrIdle, SettingAddr
      <3>4. CASE hPhase = "statusOutData" /\ Ignored /\ usbRxLen = 0 /\ hPhase' = "idle"
        <4>1. ~SettingAddr
          BY <2>2, <3>4, SettingInService
        <4>2. /\ ~PendingSetup' /\ ~PastSetup'
              /\ UNCHANGED <<usbDeviceAddr, usbNewDeviceAddr>>
          BY <3>4 DEF PendingSetup, PastSetup, Ignored, addrVars
        <4> QED
          BY <1>0, <2>2, <3>0, <4>1, <4>2 DEF AddrIdle, SettingAddr
      <3>5. \/ Ignored /\ (PastSetup' <=> PastSetup)
            \/ hPhase = "setupData" /\ Stored(SetupPacket) /\ hPhase' = AfterSetup
            \/ /\ hPhase = "outData" /\ Stored(OutPacket)
               /\ hPhase' = AfterOut(hSent')
            \/ hPhase = "statusOutData" /\ Ignored /\ usbRxLen = 0 /\ hPhase' = "idle"
        BY <2>1, <2>5, DataCases DEF PastSetup
      <3> QED
        BY <3>1, <3>2, <3>3, <3>4, <3>5
    <2>6. CASE HostIn
      BY <2>1, <2>2, <2>6, AddrIn
    <2>7. CASE HostAbort
      <3>1. /\ Ignored /\ UNCHANGED <<hAddr, hXfer>> /\ ~PastSetup'
            /\ hReq.bRequest # "SET_ADDRESS"
        BY <2>7, DeafEffect DEF HostAbort, PastSetup
      <3>2. ~(PendingSetup /\ RxPacket.req.bRequest = "SET_ADDRESS")
        <4>1. SetupPacket.req = hReq
          BY DEF SetupPacket
        <4> QED
          BY <2>2, <3>1, <4>1 DEF AddrIdle, TransferInv, Accepted
      <3> QED
        BY <1>0, <2>2, <3>1, <3>2 DEF AddrIdle, SettingAddr, PendingSetup, Ignored, addrVars
    <2>8. CASE HostForeign
      <3>1. Ignored /\ UNCHANGED <<hAddr, hXfer, hReq>> /\ (PastSetup' <=> PastSetup)
        BY <2>1, <2>8, ForeignIgnored DEF hostVars, PastSetup
      <3> QED
        BY <1>0, <2>2, <3>1 DEF AddrIdle, SettingAddr, PendingSetup, Ignored, addrVars
    <2> QED
      BY <2>0, <2>3, <2>4, <2>5, <2>6, <2>7, <2>8
  <1> QED
    BY <1>1, <1>2

\* The inductive invariant of the addresses, for a host that does not go on after
\* giving up a SET_ADDRESS.
THEOREM AddressInvariant ==
    ASSUME ~RetryAfterAddress, AddressHasNoReply
    PROVE  Spec => []AddrInv
  <1>1. Init => AddrInv
    BY DEF Init, DevInit, HostInit, AddrInv, AddrIdle, AddrReset, SettingAddr, PastSetup,
      PendingSetup
  <1>2. PipeInv /\ AddrInv /\ [Next]_vars => AddrInv'
    <2> SUFFICES ASSUME PipeInv, AddrInv, [Next]_vars PROVE AddrInv'
      OBVIOUS
    <2>1. CASE usbPoll /\ UNCHANGED <<hostVars, resets, losses>>
      BY <2>1, AddrMain DEF PipeInv
    <2>2. CASE Host
      BY <2>2, AddrHost DEF PipeInv
    <2>3. CASE UNCHANGED vars
      BY <2>3 DEF vars, devVars, rxVars, addrVars, appVars, hostVars, AddrInv, AddrIdle,
        AddrReset, SettingAddr, PastSetup, PendingSetup, RxPacket
    <2> QED
      BY <2>1, <2>2, <2>3 DEF Next
  <1> QED
    BY <1>1, <1>2, TransferInvariant, PTL DEF Spec

\* The host and the device agree on the device's address whenever the bus is
\* not in reset, as long as nothing is lost and the host does not go on after
\* giving up a SET_ADDRESS (usbProcessRx, handleIn and handleUsbReset).
THEOREM AddressAgreed ==
    ASSUME ~RetryAfterAddress, AddressHasNoReply
    PROVE  Spec => []AddrAgree
  <1>1. AddrInv => AddrAgree
    BY DEF AddrInv, AddrIdle, AddrAgree
  <1> QED
    BY <1>1, AddressInvariant, PTL

\* The device takes another address outside of a reset only by its answer in the
\* status stage of SET_ADDRESS.
LEMMA AddressChange ==
    ASSUME PipeInv, AddrInv, AddressHasNoReply, losses = <<>>, losses' = <<>>, Next,
           usbDeviceAddr' # usbDeviceAddr, line = "idle"
    PROVE  hPhase = "statusIn" /\ hReq.bRequest = "SET_ADDRESS"
  <1>0. AddrIdle /\ DriverInv /\ LinkInv /\ TransferInv /\ AfterLosses
    BY DEF AddrInv, PipeInv, AfterLosses
  <1>1. ~usbPoll
    <2> SUFFICES ASSUME usbPoll PROVE usbDeviceAddr' = usbDeviceAddr
      OBVIOUS
    <2>1. CASE PollReset
      BY <1>0, <2>1 DEF PollReset, Main, AddrIdle
    <2>2. CASE PollDriver /\ ~PollReset
      BY <2>2 DEF PollDriver, PollRxLen, RxBadSetup, RxSetup, RxAbort, RxIgnoredOut,
        RxRelease, PollTxLen, TxBuild, TxCopy, TxCrc, TxArm, PollLine, addrVars
    <2> QED
      BY <2>1, <2>2 DEF usbPoll, RxRequest, RxWrite, addrVars
  <1>2. HostIn /\ ~Lose
    <2>1. Host /\ ~Lose
      BY <1>0, <1>1, LossLonger DEF Next, DriverInv
    <2>2. usbDeviceAddr' = usbDeviceAddr \/ HostIn
      BY <2>1 DEF Host, HostProgress, HostStart, HostToken, HostData, HostAbort,
        HostForeign, HostReset, HostEndReset, DeviceDeaf, Deliver, IsrToken, IsrData,
        addrVars
    <2> QED
      BY <2>1, <2>2
  <1>3. Sent /\ hPhase \in {"in", "statusIn"}
    BY <1>0, <1>2, InCases DEF HostIn, Ignored, addrVars
  <1>4. SettingAddr
    BY <1>0, <1>3 DEF Sent, AddrIdle
  <1> QED
    BY <1>0, <1>3, <1>4, SettingInService DEF SettingAddr

\* usbNewDeviceAddr is what its comment in usbdrv.c says, "device ID which should
\* be set after status phase", for a host that does not go on after giving up a
\* SET_ADDRESS, on a bus without losses.
THEOREM AddressAfterStatus ==
    ASSUME ~RetryAfterAddress, AddressHasNoReply
    PROVE  Spec /\ [](losses = <<>>) => AddrAfterStatus
  <1>1. PipeInv /\ AddrInv /\ losses = <<>> /\ (losses = <<>>)' /\ [Next]_vars
        => [usbDeviceAddr' # usbDeviceAddr =>
             \/ line # "idle"
             \/ hPhase = "statusIn" /\ hReq.bRequest = "SET_ADDRESS"]_vars
    BY AddressChange
  <1> QED
    BY <1>1, TransferInvariant, AddressInvariant, PTL DEF Spec, AddrAfterStatus

-----------------------------------------------------------------------------
(***************************************************************************)
(* The driver on a bus without losses implements the control pipe of       *)
(* ControlPipe: the steps of usbPoll and the packets of the host map to    *)
(* steps of the pipe, or change nothing it shows.                          *)
(***************************************************************************)
\* A SETUP packet that waits belongs to a later transfer than the one served,
\* when nothing was lost since one of the two began.
ServeInv ==
    PendingSetup /\ (Trusted \/ \A i \in DOMAIN losses : losses[i] < RxPacket.xfer) =>
      served.xfer < RxPacket.xfer

\* The standard requests with a reply ask for it (USB 1.1, table 9-3).
RepliesAskedFor ==
    \A rq \in Requests :
      rq.bRequest \in {"GET_STATUS", "GET_DESCRIPTOR", "GET_CONFIGURATION",
                       "GET_INTERFACE"} => rq.dir = "in"

PipeStill == UNCHANGED <<hXfer, hReq, hOutcome, hGot, served, promised, appGot, appVerdict>>

LEMMA StillPipe == PipeStill => UNCHANGED Pipe!pipe
  BY DEF PipeStill, Pipe!pipe

LEMMA SamePayload == \A x, n : Pipe!Payload(x, n) = Payload(x, n)
  BY DEF Payload, Pipe!Payload

LEMMA ServeMain ==
    ASSUME DriverInv, LinkInv, ServeInv, usbPoll, UNCHANGED <<hostVars, losses>>
    PROVE  ServeInv'
  <1>0. DevTypeOK
    BY DEF DriverInv, HostInv, TypeOK
  <1>1. UNCHANGED <<RxPacket, usbRxToken>>
    BY <1>0, MainRx
  <1>2. ASSUME NEW reply, RxRequest(reply) PROVE ~PendingSetup'
    BY <1>2 DEF RxRequest, Main, PendingSetup
  <1>3. CASE ~\E reply : RxRequest(reply)
    <2>1. UNCHANGED served /\ (PendingSetup' => PendingSetup)
      <3>1. CASE TxSide
        BY <1>1, <3>1, TxSideFrame DEF PendingSetup, appVars
      <3>2. CASE RxBadSetup \/ RxSetup \/ RxAbort \/ \E rval : RxWrite(rval)
        BY <1>1, <3>2 DEF RxBadSetup, RxSetup, RxAbort, RxWrite, Main, rxVars, appVars,
          PendingSetup
      <3> QED
        BY <1>3, <3>1, <3>2 DEF usbPoll, PollDriver, TxSide
    <2> QED
      BY <1>1, <2>1 DEF ServeInv, Trusted
  <1> QED
    BY <1>2, <1>3 DEF ServeInv

LEMMA NextPacketType ==
    ASSUME DriverInv, Host
    PROVE  RxPacket'.xfer \in Int
  <1>1. DriverInv'
    BY DriverInvStep DEF Next
  <1>2. usbRxBuf' \in [0..1 -> Packet] /\ usbInputBufOffset' \in 0..1
    BY <1>1 DEF DriverInv, HostInv, TypeOK, DevTypeOK, RxTypeOK
  <1>3. usbInputBufOffset' = 0 \/ usbInputBufOffset' = 1
    BY <1>2
  <1>4. usbRxBuf'[0] \in Packet /\ usbRxBuf'[1] \in Packet
    BY <1>2
  <1>5. RxPacket' = usbRxBuf'[1] \/ RxPacket' = usbRxBuf'[0]
    BY <1>3 DEF RxPacket
  <1> QED
    BY <1>4, <1>5, XfersAssumption DEF Packet

LEMMA ServeHost ==
    ASSUME DriverInv, LinkInv, TransferInv, ServeInv, Host, LinkInv'
    PROVE  ServeInv'
  <1> SUFFICES ASSUME PendingSetup',
                      Trusted' \/ \A i \in DOMAIN losses' : losses'[i] < RxPacket'.xfer
               PROVE  served'.xfer < RxPacket'.xfer
    BY DEF ServeInv
  <1>0. UNCHANGED <<served, pc>> /\ HostInv
    BY HostEffect DEF MainKept, appVars, DriverInv
  <1>1. ASSUME \A i \in DOMAIN losses' : losses'[i] < RxPacket'.xfer
        PROVE  ~Lose /\ UNCHANGED losses /\ AfterLosses
    <2>1. RxPacket'.xfer \in Int
      BY NextPacketType
    <2>2. hXfer \in Int
      BY <1>0, XfersAssumption DEF HostInv, TypeOK
    <2>3. RxPacket'.xfer <= hXfer
      <3>1. CASE \E rq \in Requests : HostStart(rq)
        <4>1. UNCHANGED <<RxPacket, usbRxLen>>
          BY <3>1, DeafEffect DEF HostStart, Ignored
        <4> QED
          BY <4>1 DEF LinkInv, RxInv, PendingSetup
      <3>2. CASE ~(\E rq \in Requests : HostStart(rq))
        <4>1. hXfer' = hXfer
          BY <3>2 DEF Host, HostProgress, HostToken, HostData, HostIn, HostAbort,
            HostForeign, HostReset, HostEndReset, hostVars
        <4> QED
          BY <4>1 DEF LinkInv, RxInv, PendingSetup
      <3> QED
        BY <3>1, <3>2
    <2>4. ~Lose /\ UNCHANGED losses
      BY <1>0, <1>1, <2>1, <2>3, LossesKept
    <2>5. \A i \in DOMAIN losses : losses[i] < RxPacket'.xfer
      BY <1>1, <2>4
    <2> QED
      BY <1>0, <2>1, <2>2, <2>3, <2>4, <2>5, LossesBefore DEF AfterLosses
  <1>2. ~Lose /\ UNCHANGED losses /\ AfterLosses
    BY <1>1, TrustKept
  <1>3. AfterLosses
    BY <1>2
  <1>4. CASE Ignored \/ Sent
    <2>1. UNCHANGED <<RxPacket, usbRxLen, usbRxToken>>
      BY <1>4 DEF Ignored, Sent
    <2> QED
      BY <1>0, <1>2, <2>1 DEF ServeInv, Trusted, PendingSetup
  <1>5. CASE HostData
    <2>1. CASE hPhase = "setupData" /\ Stored(SetupPacket)
      <3>1. served.xfer < hXfer /\ SetupPacket.xfer = hXfer
        BY <1>3, <2>1 DEF TransferInv, SetupPacket
      <3> QED
        BY <1>0, <2>1, <3>1 DEF Stored
    <2>2. CASE hPhase = "outData" /\ Stored(OutPacket)
      BY <1>3, <2>2 DEF TransferInv, Stored, PendingSetup
    <2> QED
      BY <1>2, <1>4, <1>5, <2>1, <2>2, DataCases
  <1> QED
    BY <1>2, <1>4, <1>5, StoredOnly

\* usbFunctionWrite returns only what it may return.
LEMMA WriteOnly ==
    ASSUME usbPoll, NEW rval, RxWrite(rval)
    PROVE  \E r \in WriteResults(usbRxLen - 3) : RxWrite(r)
  BY DEF usbPoll, PollDriver, PollRxLen, RxBadSetup, RxSetup, RxAbort, RxRequest,
    RxIgnoredOut, RxRelease, PollTxLen, TxBuild, TxCopy, TxCrc, TxArm, PollLine,
    PollReset, Main, RxWrite

\* usbProcessRx takes up a request or hands data to the application.
LEMMA PipeMain ==
    ASSUME PipeInv, ServeInv, losses = <<>>, usbPoll, UNCHANGED <<hostVars, losses>>,
           DriverInv', LinkInv', WriteInv'
    PROVE  [Pipe!Next]_(Pipe!pipe)
  <1>0. /\ UNCHANGED <<hXfer, hReq, hOutcome, hGot>> /\ DevTypeOK /\ DevTypeOK'
        /\ DriverInv /\ LinkInv /\ WriteInv
    BY DEF hostVars, PipeInv, DriverInv, HostInv, TypeOK
  <1>1. PICK reply \in 0..255, rval \in {0, 1, 255} : MainStep(reply, rval)
    BY <1>0, PollSteps
  <1>2. CASE UNCHANGED appVars
    BY <1>0, <1>2, StillPipe DEF appVars, PipeStill
  <1>3. CASE RxRequest(reply)
    <2>1. /\ served' = RxPacket /\ appGot' = <<>> /\ appVerdict' = 0 /\ pc = "setup"
      BY <1>3 DEF RxRequest, Main
    <2>2. /\ promised' \in 0..255 /\ served.xfer \in 0..MaxXfers
          /\ RxPacket.xfer \in 0..MaxXfers
      BY <1>0, <2>1 DEF DevTypeOK, AppTypeOK, Packet
    <2>3. PendingSetup /\ RxPacket.xfer <= hXfer
      BY <1>0, <2>1 DEF LinkInv, RxInv, PendingSetup
    <2>4. served.xfer < RxPacket.xfer
      BY <2>3 DEF ServeInv, Trusted
    <2>5. hXfer \in Nat
      BY <1>0, XfersAssumption DEF DriverInv, HostInv, TypeOK
    <2>6. RxPacket.xfer \in served.xfer + 1 .. hXfer
      BY <2>2, <2>3, <2>4, <2>5, XfersAssumption
    <2>7. Pipe!Serve
      BY <1>0, <2>1, <2>2, <2>6 DEF Pipe!Serve
    <2> QED
      BY <2>7 DEF Pipe!Next
  <1>4. CASE RxWrite(rval)
    <2>1. /\ usbMsgFlags /\ usbMsgFlags' /\ pc = "rx" /\ usbRxToken # USBPID_SETUP
          /\ appGot' = appGot \o PacketBytes(RxPacket, usbRxLen - 3)
          /\ appVerdict' = rval /\ UNCHANGED <<served, promised>>
      BY <1>4 DEF RxWrite, Main
    <2>2. /\ usbRxLen # 0 /\ usbRxToken = USBPID_OUT /\ usbRxLen = RxPacket.len + 3
          /\ promised = USB_NO_MSG /\ appGot \in Seq(Byte)
          /\ RxPacket \in Packet /\ RxPacket.len \in 0..8
      BY <1>0, <2>1, RxPacketType DEF LinkInv, RxInv, DevTypeOK, RxTypeOK, Packet
    <2>3. RxPacket.len <= MaxPkt
      BY <1>0, <2>1, <2>2 DEF WriteInv, Trusted, PendingOut
    <2>4. appGot' = Payload(served.xfer, Len(appGot'))
      <3>1. losses' = <<>> /\ usbMsgFlags' /\ served' = served
        BY <1>0, <2>1
      <3>2. appGot' = Payload(served.xfer, Len(appGot))'
        BY <1>0, <3>1 DEF PipeInv, WriteInv, Trusted
      <3> QED
        BY <3>1, <3>2 DEF Payload
    <2>5. Len(appGot') \in Len(appGot)..(Len(appGot) + MaxPkt)
      <3>1. PICK len \in 0..8 : len = RxPacket.len /\ usbRxLen - 3 = len
        BY <2>2
      <3>2. PacketBytes(RxPacket, len) \in Seq(Byte) /\ Len(PacketBytes(RxPacket, len)) = len
        BY <2>2, PacketBytesSeq
      <3>3. Len(appGot') = Len(appGot) + len
        BY <2>1, <2>2, <3>1, <3>2, ConcatProperties
      <3>4. Len(appGot) \in Nat /\ MaxPkt \in 1..8 /\ len <= MaxPkt
        BY <2>2, <2>3, <3>1, LenProperties, PktAssumption
      <3>5. Len(appGot) + len \in Len(appGot)..(Len(appGot) + MaxPkt)
        BY <3>4
      <3> QED
        BY <3>3, <3>5
    <2>6. appVerdict = 255 => appVerdict' = 255
      <3>1. \E r \in WriteResults(usbRxLen - 3) : RxWrite(r)
        BY <1>4, WriteOnly
      <3>2. PICK r \in WriteResults(usbRxLen - 3) : RxWrite(r)
        BY <3>1
      <3>3. appVerdict' = r
        BY <3>2 DEF RxWrite
      <3> QED
        BY <3>2, <3>3 DEF WriteResults
    <2>7. appGot' = Pipe!Payload(served.xfer, Len(appGot'))
      BY <2>4, SamePayload
    <2>8. Pipe!ToDevice
      BY SMTT(30), <1>0, <1>1, <2>1, <2>2, <2>5, <2>6, <2>7 DEF Pipe!ToDevice
    <2> QED
      BY <2>8 DEF Pipe!Next
  <1>5. UNCHANGED appVars \/ RxRequest(reply) \/ RxWrite(rval)
    BY <1>1, MainFrame
  <1> QED
    BY <1>2, <1>3, <1>4, <1>5

\* A reply, of which nothing is left to send or of which a packet is, is no STALL.
LEMMA ChainNoStall ==
    ASSUME promised \in 0..254, NEW done \in Nat, NEW tog, Chain(done, tog)
    PROVE  usbTxLen # USBPID_STALL
  <1>1. promised - done \in 0..254
    BY DEF Chain
  <1>2. PICK rest \in 0..254 : rest = promised - done
    BY <1>1
  <1>3. ChunkOf(rest) \in 0..8
    BY ChunkLaw
  <1>4. PICK n \in 0..8 : n = ChunkOf(rest)
    BY <1>3
  <1>5. ChainParts(done, tog, rest, n)
    BY <1>2, <1>4 DEF Chain
  <1>6. usbTxLen = n + 4 \/ usbTxLen = USBPID_NAK
    BY <1>5 DEF ChainParts, Armed, Resting, Reserved, Filled
  <1> QED
    BY <1>6

\* What the device promises, when it does not ask for the host's data.
LEMMA PromisedReply ==
    ASSUME DriverInv, InService, ~usbMsgFlags
    PROVE  /\ promised \in 0..254
           /\ hReq.wLength = 0 => promised = 0
           /\ RepliesAskedFor /\ hReq.dir = "out" => promised = 0
  <1>1. hReq \in RequestType /\ (hReq \in Requests \/ hReq = NoRequest)
    BY RequestAssumption DEF DriverInv, HostInv, TypeOK, NoRequest, RequestType,
      StandardRequests
  <1>2. hReq.wLength \in 0..254
    BY <1>1 DEF RequestType
  <1>3. PICK reply \in ReplyLens(hReq) : promised = LimitedLen(reply, hReq)
    BY DEF InService
  <1>4. promised # USB_NO_MSG
    BY DEF InService
  <1>5. reply # USB_NO_MSG /\ promised \in 0..hReq.wLength
    BY <1>1, <1>3, <1>4, RequestReply
  <1>6. promised \in 0..254 /\ (hReq.wLength = 0 => promised = 0)
    BY <1>2, <1>5
  <1>7. ASSUME RepliesAskedFor, hReq.dir = "out" PROVE promised = 0
    <2>1. hReq \in Requests
      BY <1>1, <1>7 DEF NoRequest
    <2>2. hReq.bRequest \in {"SET_ADDRESS", "SET_CONFIGURATION", "SET_INTERFACE", "FUNCTION"}
      BY <1>1, <1>7, <2>1 DEF RepliesAskedFor, RequestType, StandardRequests
    <2>3. reply = 0
      BY <1>3, <1>5, <1>7, <2>2 DEF ReplyLens, StdReplyLen
    <2> QED
      BY <1>2, <1>3, <2>3 DEF LimitedLen
  <1> QED
    BY <1>6, <1>7

\* Only an error of the application stalls a transfer.
LEMMA StallVerdict ==
    ASSUME DriverInv, LinkInv, InService, hPhase \in {"in", "statusIn"},
           usbTxLen = USBPID_STALL
    PROVE  appVerdict = 255
  <1>1. hPhase = "in" => Chain(Len(hGot), hTog) /\ ~usbMsgFlags
    BY InReply DEF InService, LinkInv, StageInv
  <1>2. Len(hGot) \in Nat
    BY LenProperties DEF LinkInv, StageInv
  <1>3. ~usbMsgFlags => promised \in 0..254
    BY PromisedReply
  <1>4. hPhase = "statusIn" /\ Writing /\ usbMsgFlags
    BY <1>1, <1>2, <1>3, ChainNoStall DEF InService
  <1> QED
    BY <1>4 DEF Writing, DriverInv, HostInv, TypeOK, DevTypeOK, AppTypeOK

\* The packet of a status stage is empty, and all of the transfer is done.
LEMMA StatusAnswer ==
    ASSUME DriverInv, LinkInv, InService, RepliesAskedFor, hPhase = "statusIn",
           usbRxLen = 0, ~IsHandshake(usbTxLen)
    PROVE  /\ usbTxBuf.data = <<>>
           /\ IF hReq.dir = "in" THEN Len(hGot) = promised
              ELSE promised = USB_NO_MSG =>
                     Len(appGot) = hReq.wLength /\ appVerdict = 1
  <1>1. /\ usbTxLen # USBPID_NAK /\ usbTxLen # USBPID_STALL
        /\ hGot = <<>> /\ hSent = hReq.wLength
        /\ hReq.dir = "out" \/ hReq.wLength = 0
    BY HandshakeBit DEF LinkInv, StageInv
  <1>2. usbTxLen = 4
    <2>1. CASE usbMsgFlags
      BY <1>1, <2>1 DEF InService, Writing, DriverInv, HostInv, TypeOK, DevTypeOK, AppTypeOK
    <2>2. CASE ~usbMsgFlags
      <3>1. promised = 0 /\ Chain(0, USBPID_DATA1)
        BY <1>1, <2>2, PromisedReply DEF InService
      <3>2. ChunkOf(0) = 0 /\ 0 - 0 = 0
        BY PktAssumption DEF ChunkOf
      <3> QED
        BY <1>1, <3>1, <3>2 DEF Chain, ChainParts, Armed, Resting, Reserved, Filled
    <2> QED
      BY <2>1, <2>2
  <1>3. usbTxBuf.data = <<>>
    <2>1. TxWhole /\ TxReady
      BY DEF DriverInv, TxBlockOK, OwnBytes, TxWhole, TxReady
    <2>2. usbTxBuf.data \in Seq(Byte) /\ usbTxLen = Len(usbTxBuf.data) + 4
      BY <2>1 DEF TxWhole, DriverInv, HostInv, TypeOK, DevTypeOK, TxTypeOK
    <2>3. Len(usbTxBuf.data) = 0
      <3>1. Len(usbTxBuf.data) \in Nat
        BY <2>2, LenProperties
      <3> QED
        BY <1>2, <2>2, <3>1
    <2> QED
      BY <2>2, <2>3, EmptySeq
  <1>4. hReq.dir = "in" => Len(hGot) = promised
    <2>1. hReq.dir = "in" => promised = 0
      BY <1>1, InReply, PromisedReply
    <2> QED
      BY <1>1, <2>1, EmptySeq
  <1>5. ASSUME promised = USB_NO_MSG PROVE Len(appGot) = hReq.wLength /\ appVerdict = 1
    <2>1. usbMsgFlags
      BY <1>5 DEF InService
    <2>2. Writing /\ ~PendingOut
      BY <2>1 DEF InService, PendingOut
    <2>3. appVerdict = 1
      BY <1>1, <2>2 DEF Writing, DriverInv, HostInv, TypeOK, DevTypeOK, AppTypeOK
    <2>4. Len(appGot) \in Nat /\ Len(appGot) + 0 = hReq.wLength
      BY <1>1, <2>2, LenProperties DEF Writing, LinkInv, RxInv
    <2> QED
      BY <2>3, <2>4
  <1> QED
    BY <1>3, <1>4, <1>5

\* A transaction of the host moves data, ends the transfer, or shows nothing.
LEMMA PipeIn ==
    ASSUME PipeInv, RepliesAskedFor, AfterLosses, HostIn, ~Lose,
           UNCHANGED <<served, promised, appGot, appVerdict>>
    PROVE  Pipe!Next \/ PipeStill
  <1>0. /\ hPhase \in {"in", "statusIn"} /\ PastSetup /\ hOutcome = "pending"
        /\ UNCHANGED <<hXfer, hReq>>
        /\ DriverInv /\ LinkInv
        /\ IF served.xfer = hXfer THEN InService ELSE Accepted
    BY DEF HostIn, PastSetup, PipeInv, TransferInv, LinkInv, StageInv, Working
  <1>1. usbRxLen = 0 => served.xfer = hXfer /\ InService
    BY <1>0 DEF Accepted, PendingSetup
  <1>2. CASE UNCHANGED <<hGot, hOutcome>>
    BY <1>0, <1>2 DEF PipeStill
  <1>3. CASE /\ usbRxLen = 0 /\ usbTxLen = USBPID_STALL
             /\ hOutcome' = "stall" /\ UNCHANGED hGot
    <2>1. appVerdict = 255
      BY <1>0, <1>1, <1>3, StallVerdict
    <2>2. Pipe!Stall
      BY <1>0, <1>1, <1>3, <2>1 DEF Pipe!Stall
    <2> QED
      BY <2>2 DEF Pipe!Next
  <1>4. CASE /\ Sent /\ hPhase = "in" /\ hGot' = hGot \o usbTxBuf.data
             /\ UNCHANGED hOutcome
    <2>1. InService /\ served.xfer = hXfer /\ ~IsHandshake(usbTxLen)
      BY <1>1, <1>4 DEF Sent
    <2>2. PICK sum \in Nat, n \in Nat :
             /\ hGot \o usbTxBuf.data = Payload(hXfer, sum)
             /\ sum <= promised /\ n <= MaxPkt /\ sum = Len(hGot) + n
      BY <1>0, <1>4, <2>1, InBlock
    <2>3. Len(hGot) \in Nat /\ MaxPkt \in 1..8
      BY <1>0, LenProperties, PktAssumption DEF LinkInv, StageInv
    <2>4. sum \in Len(hGot)..(Len(hGot) + MaxPkt)
      BY <2>2, <2>3
    <2>5. hGot' = Pipe!Payload(hXfer, sum)
      BY <1>4, <2>2, SamePayload
    <2>6. hReq.dir = "in"
      BY <1>0, <1>4 DEF LinkInv, StageInv
    <2>7. Pipe!ToHost
      BY <1>0, <1>4, <2>1, <2>2, <2>4, <2>5, <2>6 DEF Pipe!ToHost
    <2> QED
      BY <2>7 DEF Pipe!Next
  <1>5. CASE /\ Sent /\ hPhase = "statusIn" /\ UNCHANGED hGot
             /\ hOutcome' = IF usbTxBuf.data = <<>> THEN "ok" ELSE "error"
    <2>1. InService /\ served.xfer = hXfer /\ ~IsHandshake(usbTxLen) /\ usbRxLen = 0
      BY <1>1, <1>5 DEF Sent
    <2>2. /\ usbTxBuf.data = <<>>
          /\ IF hReq.dir = "in" THEN Len(hGot) = promised
             ELSE promised = USB_NO_MSG =>
                    Len(appGot) = hReq.wLength /\ appVerdict = 1
      BY <1>0, <1>5, <2>1, StatusAnswer
    <2>3. Pipe!Succeed
      BY <1>0, <1>5, <2>1, <2>2 DEF Pipe!Succeed, Pipe!Complete
    <2> QED
      BY <2>3 DEF Pipe!Next
  <1> QED
    BY <1>0, <1>2, <1>3, <1>4, <1>5, InCases

LEMMA PipeHost ==
    ASSUME PipeInv, RepliesAskedFor, losses = <<>>, ~Lose, Host
    PROVE  [Pipe!Next]_(Pipe!pipe)
  <1>0. /\ UNCHANGED <<served, promised, appGot, appVerdict>> /\ AfterLosses
        /\ DriverInv /\ LinkInv
    BY HostEffect DEF MainKept, appVars, AfterLosses, PipeInv
  <1> SUFFICES Pipe!Next \/ PipeStill
    BY StillPipe
  <1>1. CASE \E rq \in Requests : HostStart(rq)
    <2>1. hOutcome # "pending"
      BY <1>0, <1>1 DEF HostStart, LinkInv, StageInv, Working
    <2>2. Pipe!Begin
      BY <1>0, <1>1, <2>1 DEF HostStart, Pipe!Begin
    <2> QED
      BY <2>2 DEF Pipe!Next
  <1>2. CASE HostToken \/ HostForeign \/ HostEndReset
    BY <1>0, <1>2 DEF HostToken, HostForeign, HostEndReset, hostVars, PipeStill
  <1>3. CASE HostData
    <2>1. CASE UNCHANGED hOutcome
      BY <1>0, <1>3, <2>1 DEF HostData, PipeStill
    <2>2. CASE hPhase = "statusOutData" /\ hOutcome' = "ok"
      <3>1. InService /\ served.xfer = hXfer
        BY <1>0, <2>2 DEF PipeInv, TransferInv, PastSetup, Accepted
      <3>2. hOutcome = "pending" /\ hReq.dir = "in" /\ Len(hGot) = promised
        BY <1>0, <2>2, <3>1 DEF LinkInv, StageInv, Working, InService
      <3>3. Pipe!Succeed
        BY <1>0, <1>3, <2>2, <3>1, <3>2 DEF HostData, Pipe!Succeed, Pipe!Complete
      <3> QED
        BY <3>3 DEF Pipe!Next
    <2> QED
      BY <1>0, <1>3, <2>1, <2>2, DataCases
  <1>4. CASE HostIn
    BY <1>0, <1>4, PipeIn
  <1>5. CASE HostAbort \/ (HostReset /\ hPhase # "idle")
    <2>1. hOutcome = "pending" /\ hOutcome' = "aborted" /\ UNCHANGED <<hXfer, hReq, hGot>>
      BY <1>0, <1>5 DEF HostAbort, HostReset, Stages, LinkInv, StageInv, Working
    <2>2. Pipe!GiveUp
      BY <1>0, <2>1 DEF Pipe!GiveUp
    <2> QED
      BY <2>2 DEF Pipe!Next
  <1>6. CASE HostReset /\ hPhase = "idle"
    BY <1>0, <1>6 DEF HostReset, PipeStill
  <1> QED
    BY <1>1, <1>2, <1>3, <1>4, <1>5, <1>6 DEF Host, HostProgress

\* As long as the bus loses nothing, every behaviour of the driver and its host
\* is one of the control pipe: a transfer of the pipe succeeds only when all of
\* its data has been moved, and the device serves the transfers in order.
THEOREM PipeWithoutLosses ==
    ASSUME RepliesAskedFor
    PROVE  Spec /\ [](losses = <<>>) => PipeSpec
  <1>1. Init => Pipe!Init
    BY DEF Init, DevInit, HostInit, Pipe!Init, Junk
  <1>2. Init => ServeInv
    BY DEF Init, DevInit, ServeInv, PendingSetup
  <1>3. PipeInv /\ ServeInv /\ [Next]_vars => ServeInv'
    <2> SUFFICES ASSUME PipeInv, ServeInv, [Next]_vars PROVE ServeInv'
      OBVIOUS
    <2>1. CASE usbPoll /\ UNCHANGED <<hostVars, resets, losses>>
      BY <2>1, ServeMain DEF PipeInv
    <2>2. CASE Host
      BY <2>2, ServeHost, LinkStep DEF PipeInv, Next
    <2>3. CASE UNCHANGED vars
      BY <2>3 DEF vars, devVars, rxVars, appVars, ServeInv, Trusted, PendingSetup, RxPacket
    <2> QED
      BY <2>1, <2>2, <2>3 DEF Next
  <1>4. /\ PipeInv /\ PipeInv' /\ ServeInv /\ losses = <<>> /\ (losses = <<>>)'
        /\ [Next]_vars
        => [Pipe!Next]_(Pipe!pipe)
    <2> SUFFICES ASSUME PipeInv, PipeInv', ServeInv, losses = <<>>, losses' = <<>>,
                        [Next]_vars
                 PROVE  [Pipe!Next]_(Pipe!pipe)
      OBVIOUS
    <2>1. CASE usbPoll /\ UNCHANGED <<hostVars, resets, losses>>
      BY <2>1, PipeMain DEF PipeInv
    <2>2. CASE Host
      <3>1. ~Lose
        BY LossLonger DEF PipeInv, DriverInv
      <3> QED
        BY <2>2, <3>1, PipeHost
    <2>3. CASE UNCHANGED vars
      BY <2>3 DEF vars, devVars, appVars, hostVars, Pipe!pipe
    <2> QED
      BY <2>1, <2>2, <2>3 DEF Next
  <1> QED
    BY <1>1, <1>2, <1>3, <1>4, TransferInvariant, PTL DEF Spec, PipeSpec, Pipe!Spec

\* On a bus that loses nothing (usbdrv.c has no recovery of its own) the driver
\* implements the control pipe, with any application and any packet size.
THEOREM PipeImplemented ==
    ASSUME RepliesAskedFor, MaxLoss = 0
    PROVE  Spec => PipeSpec
  <1>1. TypeOK => losses = <<>>
    <2> SUFFICES ASSUME TypeOK PROVE losses = <<>>
      OBVIOUS
    <2>1. losses \in Seq(0..MaxXfers) /\ Len(losses) <= 0 /\ Len(losses) \in Nat
      BY LenProperties DEF TypeOK, LossTypeOK
    <2>2. Len(losses) = 0
      BY <2>1
    <2> QED
      BY <2>1, <2>2, EmptySeq
  <1> QED
    BY <1>1, HostTypeCorrect, PipeWithoutLosses, PTL

-----------------------------------------------------------------------------
(***************************************************************************)
(* The firmware.  First what needs nothing from the driver: the flag by    *)
(* which main decides after a watchdog reset whether LEDs are to be        *)
(* switched off is never clear while one is lit.                           *)
(***************************************************************************)
StandbyInv ==
    /\ LedOn \in BOOLEAN /\ LedOO = LedOn
    /\ ~LedOn => \A i \in LedBytes : ~Lit(leds[i])
    /\ StandbyDark

LEMMA DarkUnlit == ~Lit(Dark)
  BY DEF Lit, Dark, OneLed

LEMMA OffUnlit == OutLedOff => LedOO' = FALSE /\ LedOn' = FALSE
                               /\ \A i \in LedBytes : ~Lit(leds'[i])
  BY DarkUnlit DEF OutLedOff

LEMMA StandbyStep ==
    ASSUME StandbyInv, [DeluxeNext]_allVars
    PROVE  StandbyInv'
  <1>1. CASE UNCHANGED <<leds, LedOn, LedOO>> /\ (UNCHANGED power \/ power' = "run")
    BY <1>1 DEF StandbyInv, StandbyDark, Lit, OneLed
  <1>2. CASE OutLedOff
    BY <1>2, OffUnlit DEF StandbyInv, StandbyDark, Lit, OneLed
  <1>3. ASSUME NEW buf, OutLedState(buf), power' = "run" PROVE StandbyInv'
    BY <1>3 DEF StandbyInv, StandbyDark, OutLedState, Lit, OneLed
  <1>4. CASE AutoPlay
    <2>1. CASE UNCHANGED <<leds, LedOn, LedOO>>
      BY <1>1, <1>4, <2>1 DEF AutoPlay
    <2>2. ASSUME NEW wrap \in BOOLEAN, LedOO' = (LedOO \/ wrap), LedOn' = LedOO',
                 leds' = [i \in LedBytes |-> IF i > 1 THEN leds[i - 1]
                                             ELSE IF wrap THEN OneLed ELSE Dark]
          PROVE  StandbyInv'
      <3>1. LedOn' \in BOOLEAN /\ LedOO' = LedOn' /\ power' = "run"
        BY <1>4, <2>2 DEF StandbyInv, AutoPlay
      <3>2. ASSUME ~LedOn', NEW i \in LedBytes PROVE ~Lit(leds'[i])
        <4>1. ~LedOn /\ ~wrap
          BY <2>2, <3>2 DEF StandbyInv
        <4>2. leds'[i] = IF i > 1 THEN leds[i - 1] ELSE Dark
          BY <2>2, <4>1
        <4>3. i > 1 => i - 1 \in LedBytes
          BY DeluxeAssumption, PktAssumption DEF LedBytes
        <4> QED
          BY <4>1, <4>2, <4>3, DarkUnlit DEF StandbyInv, Lit, OneLed
      <3> QED
        BY <3>1, <3>2 DEF StandbyInv, StandbyDark, Lit, OneLed
    <2> QED
      BY <1>4, <2>1, <2>2 DEF AutoPlay
  <1>5. CASE DriverStep \/ HostStep \/ Suspend
    BY <1>1, <1>5 DEF DriverStep, HostStep, Suspend, ledVars, wdtVars
  <1>6. CASE AppStep
    <2>1. power' = "run"
      BY <1>6 DEF AppStep, SetupStep, WriteStep, wdtVars
    <2> QED
      BY <1>1, <1>3, <1>6, <2>1 DEF AppStep, SetupStep, WriteStep, usbFunctionSetup,
        usbFunctionWrite, ledVars
  <1>7. CASE WatchdogReset
    BY <1>2, <1>7 DEF WatchdogReset, StandbyInv, StandbyDark, Lit, OneLed
  <1>8. CASE Wake
    BY <1>1, <1>2, <1>8 DEF Wake, ledVars
  <1>9. CASE UNCHANGED allVars
    BY <1>1, <1>9 DEF allVars, deluxe, ledVars, wdtVars
  <1> QED
    BY <1>4, <1>5, <1>6, <1>7, <1>8, <1>9 DEF DeluxeNext

(* "needed for USB standby mode": after a watchdog reset the firmware sleeps *)
(* with all LEDs dark, whatever reports and animation came before and        *)
(* however the reset found them.                                             *)
THEOREM StandbyIsDark == DeluxeSpec => []StandbyDark
  <1>1. DeluxeInit => StandbyInv
    BY DarkUnlit DEF DeluxeInit, StandbyInv, StandbyDark, Lit, OneLed
  <1>2. StandbyInv => StandbyDark
    BY DEF StandbyInv
  <1> QED
    BY <1>1, <1>2, StandbyStep, PTL DEF DeluxeSpec

-----------------------------------------------------------------------------
(***************************************************************************)
(* The firmware is an application the driver is made for, as long as the   *)
(* host sends reports of full length: that keeps the invariants of the     *)
(* driver on the bus, also over a suspended bus and a watchdog reset.      *)
(***************************************************************************)
\* What the firmware returns for a control-in request is a length the general
\* application may return, and no SET_REPORT is shorter than a report.
WholeReports ==
    /\ {0, ReportLen} \subseteq FnLens
    /\ \A rq \in Requests : IsReport(rq) /\ rq.dir = "out" => rq.wLength >= ReportLen

\* The invariants of the driver on the bus, but for what the watchdog clears.
BusInv == DriverInv /\ LinkInv /\ TransferInv /\ WriteInv /\ ServeInv

\* The bus sleeps between two transfers, and the controller only when it does.
PowerInv ==
    /\ suspended \in BOOLEAN /\ power \in {"run", "down"}
    /\ suspended => hPhase = "idle"
    /\ power = "down" => suspended

\* Data is asked for by SET_REPORT only, and until the report is complete
\* "offset" counts what usbFunctionWrite has been given.
ContractInv ==
    /\ usbMsgFlags =>
         /\ served.req \in Requests /\ IsReport(served.req) /\ served.req.dir = "out"
         /\ IF appVerdict = 0 THEN offset = Len(appGot) /\ offset < ReportLen
            ELSE appVerdict = 1 /\ offset = ReportLen
    /\ IsReport(served.req) =>
         IF served.req.dir = "in" THEN promised <= ReportLen ELSE promised = USB_NO_MSG

LEMMA ReportSize == ReportLen \in 2..8 /\ ReportLen \in Nat
  BY DeluxeAssumption, PktAssumption

\* The reply of usbFunctionSetup is one of those the general application has.
LEMMA SetupReply ==
    ASSUME WholeReports, DevTypeOK, usbFunctionSetup
    PROVE  \E reply \in ReplyLens(RxPacket.req) :
             /\ RxRequest(reply)
             /\ reply = USB_NO_MSG =>
                  IsReport(RxPacket.req) /\ RxPacket.req.dir = "out" /\ offset' = 0
             /\ IsReport(RxPacket.req) =>
                  reply = IF RxPacket.req.dir = "in" THEN ReportLen ELSE USB_NO_MSG
  <1> DEFINE rq == RxPacket.req
  <1>1. rq \in RequestType /\ rq.dir \in {"in", "out"} /\ ReportLen \in 2..8
    BY RxPacketType, ReportSize DEF DevTypeOK, RequestType
  <1>2. CASE IsReport(rq) /\ rq.dir = "in" /\ RxRequest(ReportLen)
    BY <1>1, <1>2 DEF WholeReports, ReplyLens, IsReport
  <1>3. CASE IsReport(rq) /\ rq.dir = "out" /\ RxRequest(USB_NO_MSG) /\ offset' = 0
    BY <1>1, <1>3 DEF ReplyLens, IsReport
  <1>4. CASE rq.bRequest = "FUNCTION" /\ ~IsReport(rq) /\ RxRequest(0)
    BY <1>1, <1>4 DEF WholeReports, ReplyLens
  <1>5. CASE rq.bRequest # "FUNCTION" /\ RxRequest(StdReplyLen[rq.bRequest])
    <2>1. StdReplyLen[rq.bRequest] \in 0..254
      <3>1. rq.bRequest \in StandardRequests
        BY <1>1, <1>5 DEF RequestType
      <3> QED
        BY <3>1, LengthAssumption DEF StdReplyLen, StandardRequests
    <2> QED
      BY <1>5, <2>1 DEF ReplyLens, IsReport
  <1> QED
    BY <1>1, <1>2, <1>3, <1>4, <1>5 DEF usbFunctionSetup

\* usbFunctionWrite ends the report when it is complete and goes on before.
LEMMA WriteVerdict ==
    ASSUME WholeReports, BusInv, ContractInv, usbFunctionWrite
    PROVE  \E rval \in WriteResults(usbRxLen - 3) \cap {0, 1} :
             /\ RxWrite(rval)
             /\ IF rval = 0 THEN offset' = Len(appGot') /\ offset' < ReportLen
                ELSE offset' = ReportLen
  <1> DEFINE len == usbRxLen - 3
             space == ReportLen - offset
             n == IF len > space THEN space ELSE len
             data == PacketBytes(RxPacket, len)
  <1>0. pc = "rx" /\ usbRxToken # USBPID_SETUP /\ usbMsgFlags
    BY DEF usbFunctionWrite, RxWrite, Main
  <1>1. len \in 1..8
    <2>1. usbRxLen \in {0} \cup 4..11 /\ usbRxLen # 0
      BY <1>0 DEF BusInv, LinkInv, RxInv, DriverInv, HostInv, TypeOK, DevTypeOK, RxTypeOK
    <2> QED
      BY <2>1
  <1>2. /\ served.req \in Requests /\ served.req.wLength \in 0..254
        /\ served.req.wLength >= ReportLen
    BY <1>0, RequestAssumption DEF ContractInv, WholeReports, RequestType
  <1>3. appGot \in Seq(Byte) /\ Len(appGot) \in Nat
    BY LenProperties DEF BusInv, LinkInv, RxInv
  <1>4. data \in Seq(Byte) /\ Len(data) = len
    <2>1. RxPacket \in Packet
      BY RxPacketType DEF BusInv, DriverInv, HostInv, TypeOK, DevTypeOK
    <2>2. len \in Nat
      BY <1>1
    <2> QED
      BY <2>1, <2>2, PacketBytesSeq
  <1>5. appGot' = appGot \o data /\ offset' = offset + n
    BY DEF usbFunctionWrite, RxWrite
  <1>6. Len(appGot') = Len(appGot) + len
    BY <1>3, <1>4, <1>5, ConcatProperties
  <1>7. CASE appVerdict = 0
    <2>1. offset = Len(appGot) /\ offset < ReportLen /\ offset \in Nat
      BY <1>0, <1>3, <1>7 DEF ContractInv
    <2>2. CASE space = n
      <3>1. RxWrite(1) /\ offset' = ReportLen
        BY <1>1, <1>5, <2>1, <2>2, ReportSize DEF usbFunctionWrite
      <3> QED
        BY <1>7, <3>1 DEF WriteResults
    <2>3. CASE space # n
      <3>1. RxWrite(0)
        BY <2>3 DEF usbFunctionWrite
      <3>2. n = len /\ Len(appGot) + len < ReportLen
        BY SMTT(30), <1>1, <2>1, <2>3, ReportSize
      <3>3. Len(appGot) + len < served.req.wLength
        <4>1. PICK w \in 0..254 : w = served.req.wLength
          BY <1>2
        <4>2. PICK m \in Nat : m = Len(appGot) + len
          BY <1>1, <1>3
        <4>3. m < ReportLen /\ w >= ReportLen
          BY <1>2, <3>2, <4>1, <4>2
        <4>4. m < w
          BY <4>3, ReportSize
        <4> QED
          BY <4>1, <4>2, <4>4
      <3>4. offset' = Len(appGot') /\ offset' < ReportLen
        BY <1>5, <1>6, <2>1, <3>2
      <3> QED
        BY <1>7, <3>1, <3>3, <3>4 DEF WriteResults
    <2> QED
      BY <2>2, <2>3
  <1>8. CASE appVerdict # 0
    <2>1. appVerdict = 1 /\ offset = ReportLen
      BY <1>0, <1>8 DEF ContractInv
    <2>2. space = 0 /\ n = 0
      BY <1>1, <2>1, ReportSize
    <2>3. RxWrite(1) /\ offset' = ReportLen
      BY <1>5, <2>1, <2>2, ReportSize DEF usbFunctionWrite
    <2> QED
      BY <2>1, <2>3 DEF WriteResults
  <1> QED
    BY <1>7, <1>8

\* A step of the firmware is a step of the driver on the bus with the general
\* application, is not seen by it, or is a reset by the watchdog or its end.
LEMMA FirmwareSteps ==
    ASSUME WholeReports, BusInv, ContractInv, DeluxeNext
    PROVE  \/ usbPoll /\ UNCHANGED <<hostVars, resets, losses>> /\ (DriverStep \/ AppStep)
           \/ Host /\ HostStep
           \/ UNCHANGED vars /\ (AutoPlay \/ Suspend)
           \/ WatchdogReset
           \/ Wake
  <1>1. DevTypeOK
    BY DEF BusInv, DriverInv, HostInv, TypeOK
  <1>2. CASE DriverStep
    BY <1>2 DEF DriverStep, usbPoll
  <1>3. CASE AppStep
    <2>1. CASE usbFunctionSetup
      <3>1. \E reply \in ReplyLens(RxPacket.req) : RxRequest(reply)
        BY <1>1, <2>1, SetupReply
      <3> QED
        BY <1>3, <3>1 DEF AppStep, usbPoll
    <2>2. CASE usbFunctionWrite
      <3>1. \E rval \in WriteResults(usbRxLen - 3) : RxWrite(rval)
        BY <2>2, WriteVerdict
      <3> QED
        BY <1>3, <3>1 DEF AppStep, usbPoll
    <2> QED
      BY <1>3, <2>1, <2>2 DEF AppStep, SetupStep, WriteStep
  <1>4. CASE HostStep
    BY <1>4 DEF HostStep
  <1>5. CASE AutoPlay \/ Suspend
    BY <1>5 DEF AutoPlay, Suspend
  <1> QED
    BY <1>2, <1>3, <1>4, <1>5 DEF DeluxeNext

-----------------------------------------------------------------------------
\* The steps of usbPoll and of the host, and those that do not reach them.
LEMMA BusStep ==
    ASSUME BusInv, [Next]_vars
    PROVE  BusInv'
  <1>0. /\ DriverInv /\ LinkInv /\ TransferInv /\ WriteInv /\ ServeInv
        /\ DriverInv' /\ LinkInv'
    BY DriverInvStep, LinkStep DEF BusInv
  <1>1. CASE usbPoll /\ UNCHANGED <<hostVars, resets, losses>>
    BY <1>0, <1>1, TransferMain, WriteMain, ServeMain DEF BusInv
  <1>2. CASE Host
    BY <1>0, <1>2, TransferHost, WriteHost, ServeHost DEF BusInv
  <1>3. CASE UNCHANGED vars
    <2>1. /\ UNCHANGED <<hostVars, losses, msgVars, appVars, txVars, rxVars, pc, blkLen>>
          /\ UNCHANGED RxPacket
      BY <1>3 DEF vars, devVars, rxVars, RxPacket
    <2>2. TransferInv' = TransferInv
      BY <2>1 DEF TransferInv, AfterLosses, PastSetup, InService, Accepted, PendingSetup,
        PendingOut, SetupPacket, Writing, Chain, ChainParts, Armed, Resting, Reserved,
        Filled, Block, Payload, RxPacket, rxVars, txVars, msgVars, appVars, hostVars
    <2>3. WriteInv' = WriteInv
      BY <2>1 DEF WriteInv, Trusted, AfterLosses, PendingOut, Payload, RxPacket, rxVars,
        msgVars, appVars, hostVars
    <2>4. ServeInv' = ServeInv
      BY <2>1 DEF ServeInv, Trusted, PendingSetup, rxVars, appVars
    <2> QED
      BY <1>0, <2>2, <2>3, <2>4 DEF BusInv
  <1> QED
    BY <1>1, <1>2, <1>3 DEF Next

\* The watchdog leaves a driver that has served nothing, on an idle bus.
LEMMA BusReset ==
    ASSUME BusInv, PowerInv, WatchdogReset
    PROVE  BusInv'
  <1>0. /\ UNCHANGED <<hostVars, resets, losses, line>> /\ hPhase = "idle"
        /\ usbRxLen' = 0 /\ usbRxToken' = 0 /\ usbCurrentTok' = 0 /\ usbTxLen' = USBPID_NAK
        /\ usbMsgFlags' = FALSE /\ pc' = "poll" /\ served' = Junk(0)
        /\ usbMsgPtr' = [xfer |-> 0, off |-> 0] /\ appGot' = <<>>
    BY DEF WatchdogReset, PowerInv
  <1>1. DevTypeOK'
    <2>1. Junk(0) \in Packet /\ <<>> \in Seq(Byte) /\ line \in Lines
      BY PacketTypes, EmptySeq DEF BusInv, DriverInv, HostInv, TypeOK, DevTypeOK
    <2>2. RxTypeOK'
      BY <2>1 DEF RxTypeOK, WatchdogReset
    <2>3. TxTypeOK'
      BY <2>1 DEF TxTypeOK, WatchdogReset
    <2>4. MsgTypeOK' /\ AddrTypeOK'
      <3>1. /\ usbMsgLen' = 255 /\ blkLen' = 0 /\ usbDeviceAddr' = 0
            /\ usbNewDeviceAddr' = 0 /\ usbConfiguration' = 0
        BY DEF WatchdogReset
      <3>2. 0 \in 0..MaxXfers /\ 0 \in 0..MaxPkt /\ 0 \in 0..127 /\ 255 \in 0..255
        BY PktAssumption, XfersAssumption
      <3>3. [xfer |-> 0, off |-> 0] \in [xfer : 0..MaxXfers, off : Nat]
        BY <3>2
      <3>4. MsgTypeOK'
        BY <1>0, <3>1, <3>2, <3>3 DEF MsgTypeOK
      <3>5. AddrTypeOK'
        BY <3>1, <3>2 DEF AddrTypeOK
      <3> QED
        BY <3>4, <3>5
    <2>5. AppTypeOK' /\ pc' \in Labels /\ line' \in Lines
      BY <2>1 DEF AppTypeOK, Labels, WatchdogReset
    <2> QED
      BY <2>2, <2>3, <2>4, <2>5 DEF DevTypeOK
  <1>2. DriverInv'
    <2>1. HostInv'
      BY <1>0, <1>1 DEF BusInv, DriverInv, HostInv, TypeOK, LossTypeOK, hostVars
    <2>2. IsHandshake(USBPID_NAK) /\ Junk(0).xfer = 0
      BY HandshakeBit DEF Junk
    <2>3. TxBlockOK'
      BY <1>0, <2>2 DEF TxBlockOK, IsHandshake
    <2> QED
      BY <2>1, <2>3 DEF DriverInv
  <1>3. LinkInv'
    <2>1. hXfer \in Nat /\ Junk(0).xfer = 0 /\ <<>> \in Seq(Byte)
      BY XfersAssumption, EmptySeq DEF BusInv, DriverInv, HostInv, TypeOK, Junk
    <2>2. RxInv'
      BY <1>0, <2>1 DEF RxInv, hostVars
    <2>3. StageInv'
      BY <1>0 DEF BusInv, LinkInv, StageInv, Working, hostVars
    <2> QED
      BY <1>0, <2>2, <2>3 DEF BusInv, LinkInv, hostVars
  <1>4. TransferInv' /\ WriteInv' /\ ServeInv'
    BY <1>0 DEF TransferInv, PastSetup, WriteInv, ServeInv, PendingSetup, hostVars
  <1> QED
    BY <1>2, <1>3, <1>4 DEF BusInv

\* Waking up, the driver finds a bus in reset.
LEMMA BusWake ==
    ASSUME BusInv, PowerInv, Wake
    PROVE  BusInv'
  <1>0. /\ UNCHANGED <<rxVars, txVars, msgVars, addrVars, appVars, pc, blkLen, RxPacket>>
        /\ UNCHANGED <<hXfer, hReq, hGot, hSent, hTog, hAddr, hOutcome, hGaveUp, resets,
                       losses>>
        /\ hPhase' = "reset" /\ line' = "reset" /\ hPhase = "idle"
    BY DEF Wake, PowerInv, rxVars, RxPacket
  <1>1. DriverInv'
    <2>1. DevTypeOK'
      BY <1>0 DEF BusInv, DriverInv, HostInv, TypeOK, DevTypeOK, RxTypeOK, TxTypeOK,
        MsgTypeOK, AddrTypeOK, AppTypeOK, Lines, rxVars, txVars, msgVars, addrVars, appVars
    <2>2. TxBlockOK'
      BY <1>0 DEF BusInv, DriverInv, TxBlockOK, OwnBytes, txVars, msgVars, appVars
    <2>3. HostInv'
      BY <1>0, <2>1 DEF BusInv, DriverInv, HostInv, TypeOK, LossTypeOK, Phases
    <2> QED
      BY <2>2, <2>3 DEF DriverInv
  <1>2. LinkInv'
    <2>1. RxInv'
      BY <1>0 DEF BusInv, LinkInv, RxInv, rxVars, txVars, msgVars, appVars
    <2>2. StageInv'
      BY <1>0 DEF BusInv, LinkInv, StageInv, Working
    <2> QED
      BY <1>0, <2>1, <2>2 DEF BusInv, LinkInv
  <1>3. TransferInv'
    BY <1>0 DEF BusInv, TransferInv, PastSetup, AfterLosses, rxVars
  <1>4. WriteInv' /\ ServeInv'
    BY <1>0 DEF BusInv, WriteInv, ServeInv, Trusted, AfterLosses, PendingOut, PendingSetup,
      Payload, rxVars, msgVars, appVars
  <1> QED
    BY <1>1, <1>2, <1>3, <1>4 DEF BusInv

\* usbPoll apart from the application leaves its history and drops the flag only.
LEMMA DriverFrame ==
    ASSUME PollDriver
    PROVE  /\ UNCHANGED <<appVars, RxPacket, usbRxToken>>
           /\ UNCHANGED usbMsgFlags \/ (pc = "abort" /\ usbMsgFlags' = FALSE)
           /\ PendingOut' => PendingOut
  BY DEF PollDriver, PollRxLen, RxBadSetup, RxSetup, RxAbort, RxIgnoredOut, RxRelease,
    PollTxLen, TxBuild, TxCopy, TxCrc, TxArm, PollLine, PollReset, Main, rxVars, msgVars,
    IsrOwned, RxPacket, PendingOut

LEMMA ContractStep ==
    ASSUME WholeReports, BusInv, ContractInv, [DeluxeNext]_allVars
    PROVE  ContractInv'
  <1>1. CASE UNCHANGED <<served, appGot, promised, appVerdict, offset>>
             /\ (usbMsgFlags' => usbMsgFlags)
    BY <1>1 DEF ContractInv, IsReport
  <1>2. CASE DriverStep
    BY <1>1, <1>2, DriverFrame DEF DriverStep, appVars
  <1>3. CASE SetupStep
    <2>0. DevTypeOK /\ RxPacket.req \in Requests \cup {NoRequest}
      BY RxPacketType DEF BusInv, DriverInv, HostInv, TypeOK, DevTypeOK, Packet
    <2>1. PICK reply \in ReplyLens(RxPacket.req) :
             /\ RxRequest(reply)
             /\ reply = USB_NO_MSG =>
                  IsReport(RxPacket.req) /\ RxPacket.req.dir = "out" /\ offset' = 0
             /\ IsReport(RxPacket.req) =>
                  reply = IF RxPacket.req.dir = "in" THEN ReportLen ELSE USB_NO_MSG
      BY <1>3, <2>0, SetupReply DEF SetupStep
    <2>2. /\ served' = RxPacket /\ appGot' = <<>> /\ appVerdict' = 0
          /\ usbMsgFlags' = (reply = USB_NO_MSG)
          /\ promised' = LimitedLen(reply, RxPacket.req)
      BY <2>1 DEF RxRequest
    <2>3. ASSUME usbMsgFlags'
          PROVE  /\ served'.req \in Requests /\ IsReport(served'.req)
                 /\ served'.req.dir = "out" /\ offset' = 0 /\ 0 < ReportLen /\ Len(<<>>) = 0
      <3>1. reply = USB_NO_MSG
        BY <2>2, <2>3
      <3>2. IsReport(RxPacket.req) /\ RxPacket.req.dir = "out" /\ offset' = 0
        BY <2>1, <3>1
      <3>3. RxPacket.req # NoRequest
        BY <3>2 DEF NoRequest
      <3>4. 0 < ReportLen /\ Len(<<>>) = 0
        BY ReportSize, EmptySeq
      <3> QED
        BY <2>0, <2>2, <3>2, <3>3, <3>4
    <2>4. ASSUME IsReport(served'.req)
          PROVE  IF served'.req.dir = "in" THEN promised' <= ReportLen
                 ELSE promised' = USB_NO_MSG
      <3>1. RxPacket.req \in RequestType /\ ReportLen \in 2..8
        BY <2>0, RxPacketType, ReportSize DEF DevTypeOK
      <3>2. CASE RxPacket.req.dir = "in"
        <4>1. PICK w \in 0..254 : w = RxPacket.req.wLength
          BY <3>1 DEF RequestType
        <4>2. reply = ReportLen
          BY <2>1, <2>2, <2>4, <3>2
        <4>3. promised' = IF ReportLen > w THEN w ELSE ReportLen
          BY <2>2, <3>1, <4>1, <4>2 DEF LimitedLen
        <4> QED
          BY <2>2, <3>1, <3>2, <4>3
      <3>3. CASE RxPacket.req.dir # "in"
        BY <2>1, <2>2, <2>4, <3>3 DEF LimitedLen
      <3> QED
        BY <3>2, <3>3
    <2> QED
      BY <2>2, <2>3, <2>4 DEF ContractInv, IsReport
  <1>4. CASE WriteStep
    <2>1. PICK rval \in WriteResults(usbRxLen - 3) \cap {0, 1} :
             /\ RxWrite(rval)
             /\ IF rval = 0 THEN offset' = Len(appGot') /\ offset' < ReportLen
                ELSE offset' = ReportLen
      BY <1>4, WriteVerdict DEF WriteStep
    <2>2. UNCHANGED <<usbMsgFlags, served, promised>> /\ appVerdict' = rval /\ usbMsgFlags
      BY <2>1 DEF RxWrite
    <2> QED
      BY <2>1, <2>2 DEF ContractInv, IsReport
  <1>5. CASE HostStep
    <2>1. UNCHANGED <<msgVars, appVars>>
      BY <1>5, HostEffect DEF HostStep, BusInv, MainKept
    <2> QED
      BY <1>1, <1>5, <2>1 DEF HostStep, msgVars, appVars
  <1>6. CASE AutoPlay \/ Suspend
    BY <1>1, <1>6 DEF AutoPlay, Suspend, vars, devVars, msgVars, appVars
  <1>7. CASE WatchdogReset
    BY <1>7 DEF WatchdogReset, ContractInv, IsReport, Junk, NoRequest
  <1>8. CASE Wake
    BY <1>1, <1>8 DEF Wake, msgVars, appVars
  <1>9. CASE UNCHANGED allVars
    BY <1>1, <1>9 DEF allVars, deluxe, vars, devVars, msgVars, appVars
  <1> QED
    BY <1>2, <1>3, <1>4, <1>5, <1>6, <1>7, <1>8, <1>9 DEF DeluxeNext, AppStep

LEMMA PowerStep ==
    ASSUME PowerInv, [DeluxeNext]_allVars
    PROVE  PowerInv'
  <1>1. CASE UNCHANGED <<suspended, power>> /\ (UNCHANGED hPhase \/ ~suspended)
    BY <1>1 DEF PowerInv
  <1>2. CASE DriverStep \/ AppStep \/ AutoPlay \/ HostStep \/ UNCHANGED allVars
    BY <1>1, <1>2 DEF DriverStep, AppStep, SetupStep, WriteStep, AutoPlay, HostStep, allVars,
      deluxe, wdtVars, vars, hostVars
  <1>3. CASE Suspend
    BY <1>3 DEF Suspend, PowerInv, vars, hostVars
  <1>4. CASE WatchdogReset
    BY <1>4 DEF WatchdogReset, PowerInv, hostVars
  <1>5. CASE Wake
    BY <1>5 DEF Wake, PowerInv
  <1> QED
    BY <1>2, <1>3, <1>4, <1>5 DEF DeluxeNext

\* Of the reply promised, usbMsgPtr and usbMsgLen (with the block reserved)
\* always add up to the whole, and a block that is not full is the last.
ReplyInv ==
    promised # USB_NO_MSG =>
      /\ usbMsgPtr.off + (IF usbMsgLen = USB_NO_MSG THEN 0 ELSE usbMsgLen)
           + (IF pc = "copy" THEN blkLen ELSE 0) = promised
      /\ pc \in {"copy", "crc"} /\ blkLen < MaxPkt => usbMsgLen = 0

LEMMA ReplyMain ==
    ASSUME BusInv, ReplyInv, usbPoll
    PROVE  ReplyInv'
  <1>0. DevTypeOK /\ RxInv
    BY DEF BusInv, LinkInv, DriverInv, HostInv, TypeOK
  <1>1. /\ usbMsgPtr \in [xfer : 0..MaxXfers, off : Nat] /\ usbMsgPtr.off \in Nat
        /\ usbMsgLen \in 0..255 /\ promised \in 0..255
        /\ MaxPkt \in 1..8 /\ blkLen \in 0..MaxPkt
    BY <1>0, PktAssumption DEF DevTypeOK, MsgTypeOK, AppTypeOK
  <1>2. CASE /\ UNCHANGED <<usbMsgPtr, usbMsgLen, promised, blkLen>>
             /\ pc \notin {"copy", "crc"} /\ pc' \notin {"copy", "crc"}
    BY <1>2 DEF ReplyInv
  <1>3. CASE \/ PollRxLen \/ RxBadSetup \/ RxSetup \/ RxAbort \/ RxIgnoredOut
             \/ RxRelease \/ PollTxLen \/ TxArm \/ PollLine \/ PollReset
    BY <1>2, <1>3 DEF PollRxLen, RxBadSetup, RxSetup, RxAbort, RxIgnoredOut, RxRelease,
      PollTxLen, TxArm, PollLine, PollReset, Main, msgVars, appVars
  <1>4. ASSUME TxBuild, promised # USB_NO_MSG PROVE ReplyInv'
    <2>1. /\ pc = "build" /\ pc' = "copy" /\ usbMsgLen' = usbMsgLen - blkLen'
          /\ blkLen' = IF usbMsgLen > MaxPkt THEN MaxPkt ELSE usbMsgLen
          /\ UNCHANGED <<usbMsgPtr, promised>>
      BY <1>4 DEF TxBuild, Main, appVars
    <2>2. usbMsgLen # USB_NO_MSG /\ usbMsgPtr.off + usbMsgLen = promised
      BY <1>0, <1>1, <1>4, <2>1 DEF RxInv, ReplyInv
    <2>3. PICK b \in 0..8, m \in 0..254 : b = blkLen' /\ m = usbMsgLen'
      <3>1. PICK q \in 0..255, size \in 1..8 : q = usbMsgLen /\ size = MaxPkt
        BY <1>1
      <3>2. /\ blkLen' = IF q > size THEN size ELSE q
            /\ usbMsgLen' = q - blkLen' /\ q # 255
        BY <2>1, <2>2, <3>1 DEF USB_NO_MSG
      <3>3. blkLen' \in 0..8 /\ usbMsgLen' \in 0..254
        BY <3>2
      <3> QED
        BY <3>3
    <2>4. usbMsgPtr.off + m + b = promised /\ (b < MaxPkt => m = 0)
      <3>1. PICK done \in Nat, all \in 0..254, rest \in 0..254, size \in 1..8 :
               done = usbMsgPtr.off /\ all = promised /\ rest = usbMsgLen /\ size = MaxPkt
        <4>1. promised \in 0..254 /\ usbMsgLen \in 0..254
          BY <1>1, <1>4, <2>2
        <4> QED
          BY <1>1, <4>1
      <3>2. done + rest = all /\ m = rest - b /\ b = IF rest > size THEN size ELSE rest
        BY <2>1, <2>2, <2>3, <3>1
      <3>3. done + m + b = all /\ (b < size => m = 0)
        BY <3>2
      <3> QED
        BY <3>1, <3>3
    <2> QED
      BY <2>1, <2>3, <2>4 DEF ReplyInv
  <1>5. ASSUME TxCopy, promised # USB_NO_MSG PROVE ReplyInv'
    <2>1. /\ pc = "copy" /\ pc' = "crc" /\ UNCHANGED <<usbMsgLen, promised, blkLen>>
          /\ usbMsgPtr'.off = usbMsgPtr.off + blkLen
      BY <1>1, <1>5 DEF TxCopy, Main, appVars
    <2> QED
      BY <1>1, <1>5, <2>1 DEF ReplyInv
  <1>6. ASSUME TxCrc, promised # USB_NO_MSG PROVE ReplyInv'
    <2>1. /\ pc = "crc" /\ pc' = "arm" /\ UNCHANGED <<usbMsgPtr, promised>>
          /\ usbMsgLen' = IF blkLen < MaxPkt THEN USB_NO_MSG ELSE usbMsgLen
      BY <1>6 DEF TxCrc, Main, appVars
    <2> QED
      BY <1>1, <1>6, <2>1 DEF ReplyInv
  <1>7. ASSUME NEW reply, RxRequest(reply) PROVE ReplyInv'
    <2>1. /\ pc' = "rxdone" /\ usbMsgPtr' = [xfer |-> RxPacket.xfer, off |-> 0]
          /\ usbMsgLen' = promised'
      BY <1>7 DEF RxRequest, Main
    <2>2. usbMsgPtr'.off = 0
      BY <2>1
    <2>3. promised' \in 0..255
      <3>1. PICK r \in 0..255, v \in {0, 1, 255} : MainStep(r, v)
        BY <1>0, PollSteps
      <3> QED
        BY <1>0, <3>1, MainType DEF DevTypeOK, AppTypeOK
    <2>4. PICK len \in 0..255 : len = promised' /\ len = usbMsgLen'
      BY <2>1, <2>3
    <2>5. 0 + len + 0 = len
      OBVIOUS
    <2> QED
      BY <2>1, <2>2, <2>4, <2>5 DEF ReplyInv
  <1>8. ASSUME NEW rval, RxWrite(rval) PROVE ReplyInv'
    BY <1>0, <1>8 DEF RxInv, ReplyInv, RxWrite
  <1>9. TxBuild \/ TxCopy \/ TxCrc => UNCHANGED promised
    BY DEF TxBuild, TxCopy, TxCrc, appVars
  <1> QED
    BY <1>3, <1>4, <1>5, <1>6, <1>7, <1>8, <1>9 DEF usbPoll, PollDriver, ReplyInv

LEMMA ReplyStep ==
    ASSUME WholeReports, BusInv, ContractInv, ReplyInv, [DeluxeNext]_allVars
    PROVE  ReplyInv'
  <1>1. CASE UNCHANGED <<usbMsgPtr, usbMsgLen, promised, blkLen, pc>>
    BY <1>1 DEF ReplyInv
  <1>2. CASE usbPoll
    BY <1>2, ReplyMain
  <1>3. CASE Host
    BY <1>1, <1>3, HostEffect DEF BusInv, MainKept, msgVars, appVars
  <1>4. CASE UNCHANGED vars
    BY <1>1, <1>4 DEF vars, devVars, msgVars, appVars
  <1>5. CASE WatchdogReset
    BY <1>5 DEF WatchdogReset, ReplyInv
  <1>6. CASE Wake
    BY <1>1, <1>6 DEF Wake, msgVars, appVars
  <1> QED
    BY <1>2, <1>3, <1>4, <1>5, <1>6, FirmwareSteps DEF allVars

\* What holds of the driver, its application and the power, always.
DeluxeInv == BusInv /\ ContractInv /\ PowerInv /\ ReplyInv

LEMMA DeluxeStart == DeluxeInit => DeluxeInv
  <1> SUFFICES ASSUME DeluxeInit PROVE DeluxeInv
    OBVIOUS
  <1>1. PipeInv /\ ServeInv
    BY PipeInit DEF DeluxeInit, Init, DevInit, ServeInv, PendingSetup
  <1>2. ContractInv
    BY DEF DeluxeInit, Init, DevInit, ContractInv, IsReport, Junk, NoRequest
  <1>3. PowerInv
    BY DEF DeluxeInit, Init, HostInit, PowerInv
  <1>4. ReplyInv
    BY DEF DeluxeInit, Init, DevInit, ReplyInv
  <1> QED
    BY <1>1, <1>2, <1>3, <1>4 DEF DeluxeInv, BusInv, PipeInv

LEMMA DeluxeStep ==
    ASSUME WholeReports, DeluxeInv, [DeluxeNext]_allVars
    PROVE  DeluxeInv'
  <1>1. /\ BusInv /\ ContractInv /\ PowerInv
        /\ ContractInv' /\ PowerInv' /\ ReplyInv'
    BY ContractStep, PowerStep, ReplyStep DEF DeluxeInv
  <1>2. CASE WatchdogReset
    BY <1>1, <1>2, BusReset DEF DeluxeInv
  <1>3. CASE Wake
    BY <1>1, <1>3, BusWake DEF DeluxeInv
  <1>4. CASE [Next]_vars
    BY <1>1, <1>4, BusStep DEF DeluxeInv
  <1>5. [Next]_vars \/ WatchdogReset \/ Wake
    BY <1>1, FirmwareSteps DEF Next, allVars
  <1> QED
    BY <1>2, <1>3, <1>4, <1>5

(* The invariants of the driver, its control transfers included, hold with   *)
(* the firmware as application, and across suspend and watchdog reset.       *)
THEOREM DeluxeInvariant ==
    ASSUME WholeReports
    PROVE  DeluxeSpec => []DeluxeInv
  BY DeluxeStart, DeluxeStep, PTL DEF DeluxeSpec

(* usbFunctionSetup and usbFunctionWrite keep the contract of usbdrv.h: all  *)
(* the firmware does, the general application of UsbHost may do.             *)
THEOREM FirmwareKeepsContract ==
    ASSUME WholeReports
    PROVE  DeluxeSpec => AppContract
  <1>1. DeluxeInv /\ [DeluxeNext]_allVars => [Next \/ WatchdogReset \/ Wake]_vars
    BY FirmwareSteps DEF DeluxeInv, Next, allVars
  <1> QED
    BY <1>1, DeluxeInvariant, PTL DEF DeluxeSpec, AppContract

-----------------------------------------------------------------------------
(***************************************************************************)
(* Reports: from the last SET_REPORT that ended well, and as long as nothing*)
(* has been lost since, reportBuffer holds one whole report, the LEDs come *)
(* from one, and GET_REPORT returns one.                                   *)
(***************************************************************************)
Whole(x) == [i \in ReportBytes |-> IF x = 0 THEN Dark ELSE <<x, i>>]

FirmTypes ==
    /\ AutoT \in Int /\ lastSet \in Nat /\ lastSet <= hXfer
    /\ reportBuffer \in [ReportBytes -> Byte]

BufferInv ==
    Recovered => /\ lastSet <= served.xfer
                 /\ \E x \in lastSet..MaxXfers : reportBuffer = Whole(x)

\* The LEDs of one report, moved by the animation, or of the animation alone.
OneReportLit ==
    \E x \in 0..MaxXfers, shift \in 0..(ReportLen - 1) :
      \A i \in LedBytes :
        IF x > 0 /\ i > shift THEN leds[i] = <<x, i - shift + 1>>
        ELSE leds[i] \in {Dark, OneLed}

LightInv == Recovered => OneReportLit

\* The first packet of a SET_REPORT carries all of the report, and once it has
\* been taken the LEDs show it for as long as the animation is held.
TakenInv ==
    Trusted /\ usbMsgFlags =>
      /\ served.xfer > 0
      /\ offset = 0 => appGot = <<>> /\ (PendingOut => RxPacket.len >= ReportLen)
      /\ offset # 0 =>
           /\ offset = ReportLen /\ reportBuffer = Whole(served.xfer) /\ OneReportLit
           /\ AutoT > 0 => leds = [i \in LedBytes |-> <<served.xfer, i + 1>>]

\* What usbDeviceRead has copied so far of the reply to a GET_REPORT.
GetInv ==
    IsReport(served.req) /\ served.req.dir = "in" =>
      /\ reported \in Seq(Byte) /\ Len(reported) = usbMsgPtr.off
      /\ \A i \in 1..Len(reported) : reported[i] = reportBuffer[i]

\* At the end of a transfer without losses, and for as long as it is the latest.
OutcomeInv ==
    AfterLosses =>
      /\ hPhase \in {"statusOut", "statusOutData"} =>
           promised # USB_NO_MSG /\ usbMsgPtr.off = promised
      /\ (/\ hOutcome = "ok" /\ IsReport(hReq) /\ hReq.dir = "out"
          /\ AutoT > 0 /\ power = "run") =>
           usbMsgFlags /\ served.xfer = hXfer /\ offset = ReportLen
      /\ (/\ hOutcome = "ok" /\ IsReport(hReq) /\ hReq.dir = "in"
          /\ IsReport(served.req)) =>
           served.req.dir = "in" /\ usbMsgPtr.off = promised

ReportInv ==
    /\ FirmTypes /\ BufferInv /\ LightInv /\ TakenInv
    /\ GetInv /\ OutcomeInv /\ ReadBack

\* The next block, if there is one, is within the reply.
LEMMA ReplyBound ==
    ASSUME DeluxeInv, promised # USB_NO_MSG
    PROVE  /\ usbMsgPtr.off \in Nat /\ promised \in 0..254 /\ usbMsgPtr.off <= promised
           /\ pc = "copy" => blkLen \in 0..8 /\ usbMsgPtr.off + blkLen <= promised
  <1>1. /\ usbMsgPtr \in [xfer : 0..MaxXfers, off : Nat] /\ usbMsgPtr.off \in Nat
        /\ usbMsgLen \in 0..255 /\ promised \in 0..255
        /\ blkLen \in 0..8
    BY PktAssumption
      DEF DeluxeInv, BusInv, DriverInv, HostInv, TypeOK, DevTypeOK, MsgTypeOK, AppTypeOK
  <1>2. PICK done \in Nat, all \in 0..254, m \in 0..255, b \in 0..8 :
           done = usbMsgPtr.off /\ all = promised /\ m = usbMsgLen /\ b = blkLen
    <2>1. promised \in 0..254
      BY <1>1
    <2> QED
      BY <1>1, <2>1
  <1>3. done + (IF m = 255 THEN 0 ELSE m) + (IF pc = "copy" THEN b ELSE 0) = all
    BY <1>2 DEF DeluxeInv, ReplyInv
  <1>4. done <= all /\ (pc = "copy" => done + b <= all)
    BY <1>3
  <1> QED
    BY <1>2, <1>4

\* After the end of a transfer usbPoll has nothing to do before the next SETUP.
LEMMA SettledPoll ==
    ASSUME DeluxeInv, AfterLosses, hOutcome = "ok"
    PROVE  usbRxLen = 0 /\ pc \notin {"rx", "abort", "setup"}
  BY DEF DeluxeInv, BusInv, TransferInv, LinkInv, RxInv

\* In the status stage of a control-in transfer its request is in service.
LEMMA StatusService ==
    ASSUME DeluxeInv, AfterLosses, hPhase \in {"statusOut", "statusOutData"}
    PROVE  served.xfer = hXfer /\ InService
  BY DEF DeluxeInv, BusInv, TransferInv, PastSetup, Accepted

\* A report in the buffer, shifted out to the LEDs.
LEMMA ShownWhole ==
    ASSUME NEW x \in 0..MaxXfers, NEW buf, buf = Whole(x), OutLedState(buf)
    PROVE  OneReportLit' /\ (x > 0 => leds' = [i \in LedBytes |-> <<x, i + 1>>])
  <1>1. leds' = [i \in LedBytes |-> buf[i + 1]]
    BY DEF OutLedState
  <1>2. \A i \in LedBytes : i \in Nat /\ i > 0 /\ i + 1 \in ReportBytes /\ i - 0 + 1 = i + 1
    BY ReportSize DEF LedBytes, ReportBytes
  <1>3. \A i \in LedBytes : leds'[i] = IF x = 0 THEN Dark ELSE <<x, i + 1>>
    BY <1>1, <1>2 DEF Whole
  <1>4. x > 0 <=> x # 0
    BY XfersAssumption
  <1>5. \A i \in LedBytes : IF x > 0 /\ i > 0 THEN leds'[i] = <<x, i - 0 + 1>>
                            ELSE leds'[i] \in {Dark, OneLed}
    BY <1>2, <1>3, <1>4
  <1>6. 0 \in 0..(ReportLen - 1)
    BY ReportSize
  <1> QED
    BY <1>1, <1>2, <1>3, <1>4, <1>5, <1>6 DEF OneReportLit

LEMMA DarkChain == leds' = [i \in LedBytes |-> Dark] => OneReportLit'
  <1> SUFFICES ASSUME leds' = [i \in LedBytes |-> Dark] PROVE OneReportLit'
    OBVIOUS
  <1>1. 0 \in 0..(ReportLen - 1) /\ ~(0 > 0) /\ 0 \in 0..MaxXfers
    BY ReportSize, XfersAssumption
  <1>2. \A i \in LedBytes : IF 0 > 0 /\ i > 0 THEN leds'[i] = <<0, i - 0 + 1>>
                            ELSE leds'[i] \in {Dark, OneLed}
    BY <1>1
  <1> QED
    BY <1>1, <1>2 DEF OneReportLit

LEMMA ByteTypes == Dark \in Byte /\ \A x, i \in Nat : <<x, i>> \in Byte
  BY DEF Dark, Byte

LEMMA TypesOfXfer ==
    ASSUME DeluxeInv
    PROVE  /\ hXfer \in 0..MaxXfers /\ hXfer \in Nat /\ served.xfer \in 0..MaxXfers
           /\ served.xfer \in Nat /\ RxPacket \in Packet /\ RxPacket.xfer \in Nat
           /\ RxPacket.xfer \in 0..MaxXfers /\ MaxXfers \in Nat /\ DevTypeOK
           /\ appGot \in Seq(Byte)
  BY RxPacketType, XfersAssumption DEF DeluxeInv, BusInv, LinkInv, RxInv, DriverInv, HostInv,
    TypeOK, DevTypeOK, AppTypeOK, Packet

\* Nothing lost since a transfer, nothing lost in the current one.
LEMMA TrustedAfter ==
    ASSUME DeluxeInv, Trusted
    PROVE  AfterLosses
  <1>1. HostInv /\ served.xfer <= hXfer
    BY DEF DeluxeInv, BusInv, DriverInv, LinkInv, RxInv
  <1> QED
    BY <1>1, TypesOfXfer, LossesBefore DEF Trusted, AfterLosses

LEMMA RecoveredAfter ==
    ASSUME DeluxeInv, ReportInv, Recovered
    PROVE  Trusted /\ AfterLosses
  <1>1. HostInv /\ lastSet \in Int /\ lastSet <= served.xfer
    BY DEF DeluxeInv, BusInv, DriverInv, ReportInv, FirmTypes, BufferInv
  <1>2. Trusted
    BY <1>1, TypesOfXfer, LossesBefore DEF Trusted, Recovered
  <1> QED
    BY <1>2, TrustedAfter

-----------------------------------------------------------------------------
\* usbPoll without the application copies the reply and changes nothing else.
LEMMA CopyOnly ==
    ASSUME PollDriver
    PROVE  IF pc = "copy" THEN TxCopy ELSE UNCHANGED usbMsgPtr
  BY DEF PollDriver, PollRxLen, RxBadSetup, RxSetup, RxAbort, RxIgnoredOut, RxRelease,
    PollTxLen, TxBuild, TxCopy, TxCrc, TxArm, PollLine, PollReset, Main, msgVars

\* Copying one more block keeps the copy true to the buffer.
LEMMA GetCopy ==
    ASSUME DeluxeInv, ReportInv, DriverStep, TxCopy,
           IsReport(served.req), served.req.dir = "in"
    PROVE  /\ reported' \in Seq(Byte)
           /\ usbMsgPtr'.off = usbMsgPtr.off + blkLen
           /\ Len(reported') = usbMsgPtr.off + blkLen
           /\ \A i \in 1..Len(reported') : reported'[i] = reportBuffer[i]
           /\ blkLen = 0 => reported' = reported
  <1> DEFINE block == [i \in 1..blkLen |-> reportBuffer[usbMsgPtr.off + i]]
  <1>0. promised # USB_NO_MSG /\ promised <= ReportLen /\ pc = "copy"
    BY ReportSize DEF DeluxeInv, ContractInv, TxCopy, Main, DevTypeOK
  <1>1. /\ usbMsgPtr.off \in Nat /\ blkLen \in 0..8
        /\ usbMsgPtr.off + blkLen <= promised /\ promised \in 0..254
    BY <1>0, ReplyBound
  <1>2. usbMsgPtr.off + blkLen <= ReportLen
    BY SMTT(30), <1>0, <1>1, ReportSize
  <1>4. \A k \in ReportBytes : reportBuffer[k] \in Byte
    BY DEF ReportInv, FirmTypes
  <1>5. block \in Seq(Byte) /\ Len(block) = blkLen
    <2>1. \A i \in 1..blkLen : usbMsgPtr.off + i \in ReportBytes
      BY <1>1, <1>2, ReportSize DEF ReportBytes
    <2>2. block \in [1..blkLen -> Byte]
      BY <1>4, <2>1
    <2>3. block \in Seq(Byte) /\ blkLen \in Nat
      BY <1>1, <2>2, SeqDef
    <2> QED
      BY <2>3, BlockLength
  <1>5a. \A i \in 1..blkLen : block[i] = reportBuffer[usbMsgPtr.off + i]
    OBVIOUS
  <1>6. /\ reported \in Seq(Byte) /\ Len(reported) = usbMsgPtr.off
        /\ \A i \in 1..Len(reported) : reported[i] = reportBuffer[i]
    BY DEF ReportInv, GetInv
  <1>7. reported' = reported \o block
    BY <1>0 DEF DriverStep
  <1> HIDE DEF block
  <1>8. /\ reported \o block \in Seq(Byte)
        /\ Len(reported \o block) = usbMsgPtr.off + blkLen
        /\ \A i \in 1..(usbMsgPtr.off + blkLen) :
             (reported \o block)[i] = IF i <= usbMsgPtr.off THEN reported[i]
                                      ELSE block[i - usbMsgPtr.off]
    <2>1. block \in Seq(Byte) /\ reported \in Seq(Byte)
      BY <1>5, <1>6
    <2>2. /\ reported \o block \in Seq(Byte)
          /\ Len(reported \o block) = Len(reported) + Len(block)
          /\ \A i \in 1..(Len(reported) + Len(block)) :
               (reported \o block)[i] = IF i <= Len(reported) THEN reported[i]
                                        ELSE block[i - Len(reported)]
      BY <2>1, ConcatProperties
    <2>3. Len(reported) = usbMsgPtr.off /\ Len(block) = blkLen
      BY <1>5, <1>6
    <2> QED
      BY <2>2, <2>3
  <1>9. ASSUME NEW i \in 1..(usbMsgPtr.off + blkLen)
        PROVE  reported'[i] = reportBuffer[i]
    <2>1. CASE i <= usbMsgPtr.off
      <3>1. i \in 1..Len(reported)
        BY <1>1, <1>6, <2>1
      <3> QED
        BY <1>6, <1>7, <1>8, <2>1, <3>1
    <2>2. CASE ~(i <= usbMsgPtr.off)
      <3>1. i - usbMsgPtr.off \in 1..blkLen /\ usbMsgPtr.off + (i - usbMsgPtr.off) = i
        BY <1>1, <2>2
      <3> QED
        BY <1>5a, <1>7, <1>8, <2>2, <3>1
    <2> QED
      BY <2>1, <2>2
  <1>10. usbMsgPtr'.off = usbMsgPtr.off + blkLen
    BY DEF TxCopy, DeluxeInv, BusInv, DriverInv, HostInv, TypeOK, DevTypeOK, MsgTypeOK
  <1>11. ASSUME blkLen = 0 PROVE reported' = reported
    <2>1. block = <<>>
      BY <1>5, <1>11, EmptySeq
    <2> QED
      BY <1>6, <1>7, <2>1, ConcatEmptySeq
  <1> QED
    BY <1>7, <1>8, <1>9, <1>10, <1>11

LEMMA FirmDriver ==
    ASSUME DeluxeInv, ReportInv, DriverStep
    PROVE  ReportInv'
  <1>0. /\ UNCHANGED <<reportBuffer, offset, leds, AutoT, power, lastSet>>
        /\ UNCHANGED <<hPhase, hXfer, hReq, hGot, hOutcome, hGaveUp, losses>>
        /\ UNCHANGED <<served, promised, appGot, RxPacket>>
        /\ (usbMsgFlags' => usbMsgFlags) /\ (PendingOut' => PendingOut)
        /\ UNCHANGED usbMsgFlags \/ pc = "abort"
    <2>1. PollDriver /\ UNCHANGED <<hostVars, losses, reportBuffer, offset, ledVars, wdtVars,
                                    lastSet>>
      BY DEF DriverStep
    <2>2. UNCHANGED <<appVars, RxPacket>>
          /\ (UNCHANGED usbMsgFlags \/ (pc = "abort" /\ usbMsgFlags' = FALSE))
          /\ (PendingOut' => PendingOut)
      BY <2>1, DriverFrame
    <2> QED
      BY <2>1, <2>2 DEF ledVars, wdtVars, hostVars, appVars
  <1>1. FirmTypes' /\ BufferInv' /\ TakenInv' /\ LightInv'
    <2>1. FirmTypes' /\ BufferInv'
      BY <1>0 DEF ReportInv, FirmTypes, BufferInv, Recovered, Whole
    <2>2. LightInv'
      BY <1>0 DEF ReportInv, LightInv, OneReportLit, Recovered
    <2>3. TakenInv'
      BY <1>0 DEF ReportInv, TakenInv, OneReportLit, Trusted, Whole
    <2> QED
      BY <2>1, <2>2, <2>3
  <1>2. CASE pc = "copy" /\ IsReport(served.req) /\ served.req.dir = "in"
    <2>1. TxCopy
      BY <1>2, CopyOnly DEF DriverStep
    <2>2. GetInv'
      BY <1>0, <1>2, <2>1, GetCopy DEF GetInv
    <2>3. promised # USB_NO_MSG
      BY <1>2, ReportSize DEF DeluxeInv, ContractInv
    <2>4. ASSUME usbMsgPtr.off = promised PROVE blkLen = 0 /\ reported' = reported
                                                /\ UNCHANGED usbMsgPtr.off
      <3>1. blkLen = 0
        BY <1>2, <2>3, <2>4, ReplyBound
      <3> QED
        BY <1>2, <2>1, <2>3, <3>1, ReplyBound, GetCopy
    <2>5. OutcomeInv'
      BY <1>0, <1>2, <2>4, SettledPoll DEF ReportInv, OutcomeInv, IsReport, AfterLosses
    <2>6. ReadBack'
      <3>1. CASE hOutcome = "ok" /\ IsReport(hReq) /\ hReq.dir = "in"
        <4>1. AfterLosses => reported' = reported
          BY <1>2, <2>4, <3>1 DEF ReportInv, OutcomeInv
        <4> QED
          BY <1>0, <4>1 DEF ReportInv, ReadBack, Recovered, AfterLosses, IsReport, Payload
      <3>2. CASE ~(hOutcome = "ok" /\ IsReport(hReq) /\ hReq.dir = "in")
        BY <1>0, <3>2 DEF ReadBack, IsReport
      <3> QED
        BY <3>1, <3>2
    <2> QED
      BY <1>1, <2>2, <2>5, <2>6 DEF ReportInv
  <1>3. CASE ~(pc = "copy" /\ IsReport(served.req) /\ served.req.dir = "in")
    <2>1. GetInv'
      <3>1. CASE pc = "copy"
        BY <1>0, <1>3, <3>1 DEF GetInv, IsReport
      <3>2. CASE pc # "copy"
        <4>1. UNCHANGED <<usbMsgPtr, reported>>
          BY <3>2, CopyOnly DEF DriverStep
        <4> QED
          BY <1>0, <4>1 DEF ReportInv, GetInv, IsReport
      <3> QED
        BY <3>1, <3>2
    <2>2. ASSUME promised # USB_NO_MSG, usbMsgPtr.off = promised
          PROVE  UNCHANGED usbMsgPtr.off
      <3>1. CASE pc = "copy"
        <4>1. blkLen = 0 /\ usbMsgPtr.off \in Nat
          BY <2>2, <3>1, ReplyBound
        <4>2. usbMsgPtr'.off = usbMsgPtr.off + blkLen
          BY <3>1, CopyOnly DEF DriverStep, TxCopy, DeluxeInv, BusInv, DriverInv, HostInv,
            TypeOK, DevTypeOK, MsgTypeOK
        <4> QED
          BY <4>1, <4>2
      <3>2. CASE pc # "copy"
        BY <3>2, CopyOnly DEF DriverStep
      <3> QED
        BY <3>1, <3>2
    <2>3. OutcomeInv'
      <3> SUFFICES ASSUME AfterLosses PROVE OutcomeInv'
        BY <1>0 DEF OutcomeInv, AfterLosses
      <3>1. ASSUME hPhase \in {"statusOut", "statusOutData"}
            PROVE  promised' # USB_NO_MSG /\ usbMsgPtr'.off = promised'
        BY <1>0, <2>2, <3>1 DEF ReportInv, OutcomeInv
      <3>2. ASSUME hOutcome = "ok" PROVE UNCHANGED usbMsgFlags
        BY <1>0, <3>2, SettledPoll
      <3>3. ASSUME hOutcome = "ok", IsReport(hReq), hReq.dir = "in", IsReport(served.req)
            PROVE  served.req.dir = "in" /\ usbMsgPtr'.off = promised'
        <4>1. served.req.dir = "in" /\ usbMsgPtr.off = promised
          BY <3>3 DEF ReportInv, OutcomeInv
        <4>2. promised # USB_NO_MSG
          BY <3>3, <4>1, ReportSize DEF DeluxeInv, ContractInv
        <4> QED
          BY <1>0, <2>2, <4>1, <4>2
      <3> QED
        BY <1>0, <3>1, <3>2, <3>3 DEF ReportInv, OutcomeInv, IsReport
    <2>4. ReadBack'
      <3>1. CASE hOutcome = "ok" /\ IsReport(hReq) /\ hReq.dir = "in"
        <4>1. AfterLosses => ~(pc = "copy" /\ IsReport(served.req))
          BY <1>3, <3>1 DEF ReportInv, OutcomeInv
        <4>2. AfterLosses => reported' = reported
          BY <4>1 DEF DriverStep
        <4> QED
          BY <1>0, <4>2 DEF ReportInv, ReadBack, Recovered, AfterLosses, IsReport, Payload
      <3>2. CASE ~(hOutcome = "ok" /\ IsReport(hReq) /\ hReq.dir = "in")
        BY <1>0, <3>2 DEF ReadBack, IsReport
      <3> QED
        BY <3>1, <3>2
    <2> QED
      BY <1>1, <2>1, <2>3, <2>4 DEF ReportInv
  <1> QED
    BY <1>2, <1>3

\* usbFunctionSetup is called for a later transfer than the one served; the
\* reports stay as they are.
LEMMA FirmSetup ==
    ASSUME WholeReports, DeluxeInv, ReportInv, power = "run", SetupStep,
           UNCHANGED <<hostVars, losses>>
    PROVE  ReportInv'
  <1>0. /\ DevTypeOK /\ served.xfer \in Nat /\ RxPacket.xfer \in Nat
        /\ hXfer \in Nat /\ MaxXfers \in Nat
    BY TypesOfXfer
  <1>1. PICK reply \in ReplyLens(RxPacket.req) :
           /\ RxRequest(reply)
           /\ reply = USB_NO_MSG =>
                IsReport(RxPacket.req) /\ RxPacket.req.dir = "out" /\ offset' = 0
    BY <1>0, SetupReply DEF SetupStep
  <1>2. /\ pc = "setup" /\ served' = RxPacket /\ appGot' = <<>> /\ usbMsgPtr'.off = 0
        /\ usbMsgFlags' = (reply = USB_NO_MSG) /\ UNCHANGED <<usbRxLen, usbRxToken>>
    BY <1>1 DEF RxRequest, Main, rxVars
  <1>3. /\ reported' = <<>>
        /\ UNCHANGED <<reportBuffer, power, lastSet, hPhase, hXfer, hReq, hGot, hOutcome,
                       losses>>
    BY DEF SetupStep, wdtVars, hostVars
  <1>4. PendingSetup
    BY <1>2 DEF DeluxeInv, BusInv, LinkInv, RxInv, PendingSetup
  <1>5. AfterLosses => hOutcome # "ok" /\ hPhase \notin {"statusOut", "statusOutData"}
    BY <1>2, <1>4, SettledPoll, StatusService DEF InService
  <1>6. Trusted \/ Trusted' => served.xfer < RxPacket.xfer
    BY <1>2, <1>3, <1>4 DEF DeluxeInv, BusInv, ServeInv, Trusted
  <1>7. FirmTypes'
    <2>1. AutoT' \in Int
      BY DeluxeAssumption DEF SetupStep, usbFunctionSetup, ledVars, ReportInv, FirmTypes
    <2> QED
      BY <1>3, <2>1 DEF ReportInv, FirmTypes
  <1>8. BufferInv' /\ LightInv'
    <2> SUFFICES ASSUME Recovered PROVE BufferInv' /\ OneReportLit'
      BY <1>3 DEF BufferInv, LightInv, Recovered
    <2>1. lastSet \in Nat /\ lastSet <= served.xfer /\ served.xfer < RxPacket.xfer
      BY <1>6, RecoveredAfter DEF ReportInv, FirmTypes, BufferInv
    <2>2. PICK x \in lastSet..MaxXfers : reportBuffer = Whole(x)
      BY DEF ReportInv, BufferInv
    <2>3. BufferInv'
      BY <1>0, <1>2, <1>3, <2>1, <2>2 DEF BufferInv, Whole
    <2>4. CASE OutLedState(reportBuffer)
      <3>1. x \in 0..MaxXfers
        BY <1>0, <2>1
      <3> QED
        BY <2>2, <2>3, <2>4, <3>1, ShownWhole
    <2>5. CASE UNCHANGED leds
      BY <2>3, <2>5 DEF ReportInv, LightInv, OneReportLit
    <2> QED
      BY <2>4, <2>5 DEF SetupStep, usbFunctionSetup, ledVars
  <1>9. TakenInv'
    <2>1. ~PendingOut'
      BY <1>2, <1>4 DEF PendingSetup, PendingOut
    <2>2. usbMsgFlags' => offset' = 0
      BY <1>1, <1>2
    <2>3. Trusted' => RxPacket.xfer > 0
      BY <1>0, <1>6
    <2> QED
      BY <1>2, <2>1, <2>2, <2>3 DEF TakenInv
  <1>10. GetInv'
    <2>1. <<>> \in Seq(Byte) /\ Len(<<>>) = 0 /\ ~\E i \in 1..0 : TRUE
      BY EmptySeq
    <2> QED
      BY <1>2, <1>3, <2>1 DEF GetInv
  <1>11. OutcomeInv' /\ ReadBack'
    BY <1>3, <1>5 DEF OutcomeInv, ReadBack, AfterLosses
  <1> QED
    BY <1>7, <1>8, <1>9, <1>10, <1>11 DEF ReportInv

\* usbFunctionWrite takes the whole report from the first packet, and nothing
\* from those that follow.
LEMMA FirmWrite ==
    ASSUME WholeReports, DeluxeInv, ReportInv, power = "run", WriteStep,
           UNCHANGED <<hostVars, losses>>
    PROVE  ReportInv'
  <1> DEFINE len == usbRxLen - 3
             space == ReportLen - offset
             n == IF len > space THEN space ELSE len
             data == PacketBytes(RxPacket, len)
  <1>0. /\ DevTypeOK /\ served.xfer \in Nat /\ served.xfer \in 0..MaxXfers
        /\ hXfer \in Nat /\ MaxXfers \in Nat /\ RxPacket \in Packet /\ appGot \in Seq(Byte)
        /\ usbFunctionWrite /\ UNCHANGED <<power, lastSet, reported>>
    BY TypesOfXfer DEF WriteStep, wdtVars
  <1>1. /\ pc = "rx" /\ pc' = "rxdone" /\ usbRxToken # USBPID_SETUP /\ usbMsgFlags
        /\ UNCHANGED <<usbMsgPtr, usbMsgFlags, served, promised, RxPacket, usbRxLen,
                       usbRxToken>>
    BY <1>0 DEF usbFunctionWrite, RxWrite, Main, rxVars, RxPacket
  <1>2. /\ AfterLosses => hOutcome # "ok"
        /\ UNCHANGED <<hPhase, hXfer, hReq, hGot, hOutcome, losses>>
    BY <1>1, SettledPoll DEF hostVars
  <1>3. /\ usbRxLen = RxPacket.len + 3 /\ usbRxToken = USBPID_OUT /\ PendingOut
        /\ RxPacket.len \in 1..8 /\ len = RxPacket.len
    <2>1. usbRxLen # 0 /\ usbRxLen \in {0} \cup 4..11 /\ usbRxLen = RxPacket.len + 3
          /\ usbRxToken = USBPID_OUT /\ RxPacket.len \in 0..8
      BY <1>0, <1>1 DEF DeluxeInv, BusInv, LinkInv, RxInv, DevTypeOK, RxTypeOK, Packet
    <2> QED
      BY <1>1, <2>1 DEF PendingOut
  <1>4. /\ reportBuffer' = [i \in ReportBytes |->
             IF i \in offset + 1 .. offset + n THEN data[i - offset] ELSE reportBuffer[i]]
        /\ offset' = offset + n
        /\ AutoT' = AutoHold \/ UNCHANGED AutoT
    BY <1>0 DEF usbFunctionWrite, ledVars
  <1>5. FirmTypes'
    <2>1. offset \in Nat
      BY <1>0, <1>1, ReportSize, LenProperties DEF DeluxeInv, ContractInv
    <2>2. data \in Seq(Byte) /\ Len(data) = len
      <3>1. len \in Nat
        BY <1>3
      <3> QED
        BY <1>0, <3>1, PacketBytesSeq
    <2>3. ASSUME NEW i \in ReportBytes, i \in offset + 1 .. offset + n
          PROVE  data[i - offset] \in Byte
      <3>1. i - offset \in 1..len
        BY <1>3, <2>1, <2>3, ReportSize
      <3> QED
        BY <2>2, <3>1, ElementOfSeq
    <2>4. reportBuffer' \in [ReportBytes -> Byte]
      BY <1>4, <2>3 DEF ReportInv, FirmTypes
    <2> QED
      BY <1>0, <1>2, <1>4, <2>4, DeluxeAssumption DEF ReportInv, FirmTypes
  <1>6. ASSUME Trusted
        PROVE  /\ served.xfer > 0 /\ offset' = ReportLen
               /\ reportBuffer' = Whole(served.xfer) /\ OneReportLit'
               /\ leds' = [i \in LedBytes |-> <<served.xfer, i + 1>>]
    <2>1. /\ appGot = Payload(served.xfer, Len(appGot)) /\ RxPacket.xfer = served.xfer
          /\ RxPacket.off = Len(appGot) /\ RxPacket.req = NoRequest
      BY <1>1, <1>3, <1>6 DEF DeluxeInv, BusInv, WriteInv
    <2>2. served.xfer > 0 /\ served.xfer # 0
      BY <1>0, <1>1, <1>6 DEF ReportInv, TakenInv
    <2>3. /\ offset' = ReportLen /\ reportBuffer' = Whole(served.xfer)
          /\ OutLedState(reportBuffer')
      <3>1. CASE offset = 0
        <4>1. appGot = <<>> /\ Len(appGot) = 0 /\ RxPacket.len >= ReportLen
          BY <1>1, <1>3, <1>6, <3>1, EmptySeq DEF ReportInv, TakenInv
        <4>2. space = ReportLen /\ n = ReportLen
          BY <1>3, <3>1, <4>1, ReportSize
        <4>3. \A i \in ReportBytes :
                i \in offset + 1 .. offset + n /\ i - offset = i /\ i \in 1..len
          BY <1>3, <3>1, <4>1, <4>2, ReportSize DEF ReportBytes
        <4>4. \A i \in 1..len : data[i] = <<served.xfer, 0 + i>>
          BY <2>1, <4>1 DEF PacketBytes
        <4>5. ASSUME NEW i \in ReportBytes PROVE data[i - offset] = <<served.xfer, i>>
          <5>1. i \in Nat /\ 0 + i = i
            BY ReportSize DEF ReportBytes
          <5>2. data[i] = <<served.xfer, 0 + i>>
            BY <4>3, <4>4
          <5> QED
            BY <4>3, <5>1, <5>2
        <4>6. reportBuffer' = Whole(served.xfer)
          BY <1>4, <2>2, <4>3, <4>5 DEF Whole
        <4>7. OutLedState(reportBuffer')
          BY <1>0, <4>2 DEF usbFunctionWrite
        <4> QED
          BY <1>4, <3>1, <4>2, <4>6, <4>7, ReportSize
      <3>2. CASE offset # 0
        <4>1. offset = ReportLen /\ reportBuffer = Whole(served.xfer)
          BY <1>1, <1>6, <3>2 DEF ReportInv, TakenInv
        <4>2. space = 0 /\ n = 0
          BY <1>3, <4>1, ReportSize
        <4>3. \A i : i \notin offset + 1 .. offset + n
          BY <4>1, <4>2, ReportSize
        <4>4. reportBuffer' = Whole(served.xfer)
          BY <1>4, <4>1, <4>3 DEF Whole
        <4>5. OutLedState(reportBuffer')
          BY <1>0, <4>2 DEF usbFunctionWrite
        <4> QED
          BY <1>4, <4>1, <4>2, <4>4, <4>5, ReportSize
      <3> QED
        BY <3>1, <3>2
    <2> QED
      BY <1>0, <2>2, <2>3, ShownWhole
  <1>7. BufferInv' /\ LightInv'
    <2> SUFFICES ASSUME Recovered PROVE BufferInv' /\ OneReportLit'
      BY <1>0, <1>2 DEF BufferInv, LightInv, Recovered
    <2>1. Trusted /\ served.xfer \in lastSet..MaxXfers /\ lastSet <= served.xfer
      BY <1>0, RecoveredAfter DEF ReportInv, FirmTypes, BufferInv
    <2> QED
      BY <1>0, <1>1, <1>6, <2>1 DEF BufferInv, Whole
  <1>8. TakenInv'
    <2>1. Trusted' => Trusted
      BY <1>1, <1>2 DEF Trusted
    <2>2. ReportLen # 0
      BY ReportSize
    <2> QED
      BY <1>1, <1>6, <2>1, <2>2 DEF TakenInv, Whole
  <1>9. GetInv'
    BY <1>1 DEF DeluxeInv, ContractInv, GetInv
  <1>10. OutcomeInv' /\ ReadBack'
    BY <1>1, <1>2 DEF ReportInv, OutcomeInv, ReadBack, AfterLosses
  <1> QED
    BY <1>5, <1>7, <1>8, <1>9, <1>10 DEF ReportInv

\* The animation moves the LEDs by one, and not while they are held.
LEMMA FirmAuto ==
    ASSUME DeluxeInv, ReportInv, AutoPlay
    PROVE  ReportInv'
  <1>0. UNCHANGED <<vars, reportBuffer, offset, power, reported, lastSet>>
    BY DEF AutoPlay
  <1>1. UNCHANGED <<usbMsgFlags, usbMsgPtr, served, promised, appGot, RxPacket, usbRxLen,
                    usbRxToken, pc, hPhase, hXfer, hReq, hGot, hOutcome, hGaveUp, losses>>
    BY <1>0 DEF vars, devVars, hostVars, rxVars, msgVars, appVars, RxPacket
  <1>2. AutoT \in Int /\ AutoT' \in Int /\ (AutoT' > 0 => AutoT > 0 /\ UNCHANGED leds)
    <2>1. AutoT \in Int /\ AutoT - 1 \in Int
      BY DEF ReportInv, FirmTypes
    <2>2. /\ AutoT' = IF AutoT - 1 = -AutoWrap THEN 0 ELSE AutoT - 1
          /\ AutoT - 1 >= 0 => UNCHANGED leds
      BY DEF AutoPlay
    <2> QED
      BY <2>1, <2>2
  <1>3. OneReportLit => OneReportLit'
    <2> SUFFICES ASSUME OneReportLit PROVE OneReportLit'
      OBVIOUS
    <2>1. PICK x \in 0..MaxXfers, shift \in 0..(ReportLen - 1) :
             \A i \in LedBytes :
               IF x > 0 /\ i > shift THEN leds[i] = <<x, i - shift + 1>>
               ELSE leds[i] \in {Dark, OneLed}
      BY DEF OneReportLit
    <2>2. CASE UNCHANGED leds
      BY <2>1, <2>2 DEF OneReportLit
    <2>3. ASSUME NEW first \in {Dark, OneLed},
                 leds' = [i \in LedBytes |-> IF i > 1 THEN leds[i - 1] ELSE first]
          PROVE  OneReportLit'
      <3> DEFINE more == IF shift < ReportLen - 1 THEN shift + 1 ELSE shift
      <3>1. more \in 0..(ReportLen - 1)
        BY ReportSize
      <3>2. ASSUME NEW i \in LedBytes
            PROVE  IF x > 0 /\ i > more THEN leds'[i] = <<x, i - more + 1>>
                   ELSE leds'[i] \in {Dark, OneLed}
        <4>0. i \in 1..(ReportLen - 1) /\ leds'[i] = IF i > 1 THEN leds[i - 1] ELSE first
          BY <2>3 DEF LedBytes
        <4>1. CASE i = 1
          <5>1. ~(i > more)
            BY <4>1, ReportSize
          <5> QED
            BY <2>3, <4>0, <4>1, <5>1
        <4>2. CASE i # 1
          <5>1. i - 1 \in LedBytes /\ leds'[i] = leds[i - 1]
            BY <4>0, <4>2, ReportSize DEF LedBytes
          <5>2. IF x > 0 /\ i - 1 > shift THEN leds[i - 1] = <<x, (i - 1) - shift + 1>>
                ELSE leds[i - 1] \in {Dark, OneLed}
            BY <2>1, <5>1
          <5>3. /\ i > more <=> i - 1 > shift
                /\ i > more => (i - 1) - shift + 1 = i - more + 1
            BY <4>0, ReportSize
          <5> QED
            BY <5>1, <5>2, <5>3
        <4> QED
          BY <4>1, <4>2
      <3> QED
        BY <3>1, <3>2 DEF OneReportLit
    <2> QED
      BY <2>2, <2>3 DEF AutoPlay
  <1>4. FirmTypes' /\ BufferInv' /\ LightInv'
    BY <1>0, <1>1, <1>2, <1>3 DEF ReportInv, FirmTypes, BufferInv, LightInv, Recovered, Whole
  <1>5. TakenInv'
    BY <1>0, <1>1, <1>2, <1>3 DEF ReportInv, TakenInv, Trusted, PendingOut, Whole
  <1>6. GetInv'
    BY <1>0, <1>1 DEF ReportInv, GetInv, IsReport
  <1>7. OutcomeInv'
    BY <1>0, <1>1, <1>2 DEF ReportInv, OutcomeInv, AfterLosses, IsReport
  <1>8. ReadBack'
    BY <1>0, <1>1 DEF ReportInv, ReadBack, Recovered, AfterLosses, IsReport, Payload
  <1> QED
    BY <1>4, <1>5, <1>6, <1>7, <1>8 DEF ReportInv

\* The watchdog clears the buffer and what GET_REPORT may rely on.
LEMMA FirmReset ==
    ASSUME DeluxeInv, ReportInv, WatchdogReset
    PROVE  ReportInv'
  <1>0. /\ UNCHANGED <<hPhase, hXfer, hReq, hGot, hOutcome, losses, AutoT, reported>>
        /\ served' = Junk(0) /\ usbMsgFlags' = FALSE /\ lastSet' = 0 /\ power' = "down"
        /\ hPhase = "idle"
        /\ reportBuffer' = [i \in ReportBytes |-> Dark]
    BY DEF WatchdogReset, hostVars, DeluxeInv, PowerInv
  <1>1. 0 \in 0..MaxXfers /\ MaxXfers \in Nat /\ lastSet \in Nat /\ hXfer \in Nat
    BY TypesOfXfer, XfersAssumption DEF ReportInv, FirmTypes
  <1>2. ~IsReport(served'.req) /\ served'.xfer = 0
    BY <1>0 DEF IsReport, Junk, NoRequest
  <1>3. Recovered' => Recovered
    <2>1. HostInv
      BY DEF DeluxeInv, BusInv, DriverInv
    <2> QED
      BY <1>0, <1>1, <2>1, LossesBefore DEF Recovered
  <1>4. FirmTypes' /\ BufferInv'
    BY <1>0, <1>1, <1>2, ByteTypes DEF ReportInv, FirmTypes, BufferInv, Whole
  <1>5. TakenInv' /\ GetInv' /\ OutcomeInv'
    BY <1>0, <1>2 DEF TakenInv, GetInv, OutcomeInv, IsReport
  <1>6. LightInv'
    <2>1. CASE UNCHANGED leds
      BY <1>3, <2>1 DEF ReportInv, LightInv, OneReportLit
    <2>2. CASE leds' = [i \in LedBytes |-> Dark]
      BY <2>2, DarkChain DEF LightInv
    <2> QED
      BY <2>1, <2>2 DEF WatchdogReset, OutLedOff
  <1>7. ReadBack'
    <2> SUFFICES ASSUME AfterLosses, hOutcome = "ok", IsReport(hReq), hReq.dir = "in"
                 PROVE  ReadBack'
      BY <1>0 DEF ReadBack, IsReport, AfterLosses
    <2>1. /\ hGot = Payload(hXfer, Len(reported))
          /\ Recovered =>
               \E x \in lastSet..MaxXfers :
                 \A i \in DOMAIN reported : reported[i] = IF x = 0 THEN Dark ELSE <<x, i>>
      BY DEF ReportInv, ReadBack
    <2>2. lastSet..MaxXfers \subseteq 0..MaxXfers
      BY <1>1
    <2> QED
      BY <1>0, <1>3, <2>1, <2>2 DEF ReadBack, Payload
  <1> QED
    BY <1>4, <1>5, <1>6, <1>7 DEF ReportInv

\* Waking up, main switches the LEDs off and starts the animation anew.
LEMMA FirmWake ==
    ASSUME DeluxeInv, ReportInv, Wake
    PROVE  ReportInv'
  <1>0. /\ UNCHANGED <<usbMsgFlags, usbMsgPtr, served, promised, appGot, RxPacket, usbRxLen,
                       usbRxToken, pc, hXfer, hReq, hGot, hOutcome, losses>>
        /\ UNCHANGED <<reportBuffer, offset, reported, lastSet>>
        /\ hPhase' = "reset" /\ power' = "run"
    BY DEF Wake, rxVars, msgVars, appVars, RxPacket
  <1>1. \/ power = "down" /\ leds' = [i \in LedBytes |-> Dark] /\ AutoT' = 0
        \/ power = "run" /\ UNCHANGED <<leds, AutoT>>
    BY DEF Wake, OutLedOff, ledVars, DeluxeInv, PowerInv
  <1>2. OneReportLit => OneReportLit'
    BY <1>1, DarkChain DEF OneReportLit
  <1>3. FirmTypes' /\ BufferInv' /\ LightInv'
    BY <1>0, <1>1, <1>2 DEF ReportInv, FirmTypes, BufferInv, LightInv, Recovered, Whole
  <1>4. TakenInv'
    BY <1>0, <1>1, <1>2 DEF ReportInv, TakenInv, Trusted, PendingOut, Whole
  <1>5. GetInv' /\ ReadBack'
    BY <1>0 DEF ReportInv, GetInv, ReadBack, Recovered, AfterLosses, IsReport, Payload
  <1>6. OutcomeInv'
    BY <1>0, <1>1 DEF ReportInv, OutcomeInv, AfterLosses, IsReport
  <1> QED
    BY <1>3, <1>4, <1>5, <1>6 DEF ReportInv

-----------------------------------------------------------------------------
\* A transfer ends well in one of the two status stages, while in service.
LEMMA EndsWell ==
    ASSUME DeluxeInv, AfterLosses, ~Lose, Host, hOutcome' = "ok"
    PROVE  /\ UNCHANGED <<hXfer, hReq, hGot>>
           /\ \/ hOutcome = "ok"
              \/ /\ hOutcome = "pending" /\ served.xfer = hXfer /\ InService
                 /\ hPhase \in {"statusOutData", "statusIn"}
                 /\ hPhase = "statusIn" => HostIn
  <1>1. UNCHANGED <<hXfer, hReq>>
    BY DEF Host, HostProgress, HostStart, HostToken, HostData, HostIn, HostAbort,
      HostForeign, HostReset, HostEndReset, hostVars
  <1>2. CASE ~HostData /\ ~HostIn
    BY <1>1, <1>2 DEF Host, HostProgress, HostStart, HostToken, HostAbort, HostForeign,
      HostReset, HostEndReset, hostVars
  <1>0. DriverInv /\ LinkInv
    BY DEF DeluxeInv, BusInv
  <1>3. CASE HostData
    <2>1. UNCHANGED hGot /\ (UNCHANGED hOutcome \/ hPhase = "statusOutData")
      BY <1>0, <1>3, DataCases
    <2>2. hPhase = "statusOutData" => hOutcome = "pending"
      BY <1>0 DEF LinkInv, StageInv, Working
    <2> QED
      BY <1>1, <2>1, <2>2, StatusService
  <1>4. CASE HostIn
    <2>1. \/ UNCHANGED <<hOutcome, hGot>>
          \/ UNCHANGED hOutcome /\ hPhase = "in"
          \/ UNCHANGED hGot /\ hPhase = "statusIn" /\ Sent
      BY <1>0, <1>4, InCases
    <2>2. hPhase \in {"in", "statusIn"} => hOutcome = "pending"
      BY <1>0 DEF LinkInv, StageInv, Working
    <2>3. hPhase = "statusIn" /\ Sent => served.xfer = hXfer /\ InService
      BY DEF DeluxeInv, BusInv, TransferInv, PastSetup, Accepted, PendingSetup, Sent
    <2>4. hPhase \in {"in", "statusIn"}
      BY <1>4 DEF HostIn
    <2> QED
      BY <1>1, <1>4, <2>1, <2>2, <2>3, <2>4
  <1> QED
    BY <1>2, <1>3, <1>4

\* A SET_REPORT that ends well has been taken.
LEMMA SetDone ==
    ASSUME WholeReports, DeluxeInv, ReportInv, AfterLosses, ~Lose, Host,
           hOutcome # "ok", hOutcome' = "ok", IsReport(hReq), hReq.dir = "out"
    PROVE  /\ usbMsgFlags /\ served.xfer = hXfer /\ offset = ReportLen /\ offset # 0
           /\ Trusted
  <1>1. /\ hOutcome = "pending" /\ served.xfer = hXfer /\ InService
        /\ UNCHANGED <<hXfer, hReq>>
    BY EndsWell
  <1>2. served.req = hReq /\ promised = USB_NO_MSG /\ usbMsgFlags
    BY <1>1 DEF InService, DeluxeInv, ContractInv
  <1>3. DriverInv /\ LinkInv /\ TransferInv /\ WriteInv /\ ControlOut
    BY <1>1 DEF DeluxeInv, BusInv, ControlOut
  <1>4. ControlOut' /\ AfterLosses' /\ Trusted
    BY <1>1, <1>3, OutHost, HostLosses DEF AfterLosses, Trusted
  <1>5. UNCHANGED <<served, promised, appGot>>
    BY <1>3, HostEffect DEF MainKept, appVars
  <1>6. appGot = Payload(hXfer, hReq.wLength)
    BY <1>1, <1>2, <1>4, <1>5 DEF ControlOut, Payload
  <1>7. hReq.wLength \in Nat /\ hReq.wLength # 0
    <2>1. hReq \in Requests
      BY <1>2 DEF DeluxeInv, ContractInv
    <2>2. hReq.wLength \in 0..254 /\ hReq.wLength >= ReportLen
      BY <2>1, RequestAssumption DEF WholeReports, RequestType
    <2>3. PICK w \in 0..254 : w = hReq.wLength
      BY <2>2
    <2>4. w >= ReportLen
      BY <2>2, <2>3
    <2>5. w \in Nat /\ w # 0
      BY <2>4, ReportSize
    <2> QED
      BY <2>3, <2>5
  <1>8. Len(appGot) = hReq.wLength /\ hReq.wLength # 0
    <2>1. hXfer \in Nat
      BY TypesOfXfer
    <2>2. Len(Payload(hXfer, hReq.wLength)) = hReq.wLength
      BY <1>7, <2>1, PayloadSeq
    <2> QED
      BY <1>6, <1>7, <2>2
  <1>9. offset # 0
    BY <1>2, <1>4, <1>8, EmptySeq DEF ReportInv, TakenInv
  <1> QED
    BY <1>1, <1>2, <1>4, <1>9 DEF ReportInv, TakenInv

\* A data packet for SET_REPORT that nothing has been written of is the first,
\* and long enough.
LEMMA FirstPacket ==
    ASSUME WholeReports, DeluxeInv, ReportInv, Host, Trusted', usbMsgFlags, offset = 0,
           PendingOut'
    PROVE  RxPacket'.len >= ReportLen
  <1>0. /\ DriverInv /\ LinkInv /\ TransferInv /\ WriteInv
        /\ Trusted /\ ~Lose /\ AfterLosses
        /\ UNCHANGED <<usbMsgFlags, served, promised, appGot, pc>>
    BY TrustKept, HostEffect DEF DeluxeInv, BusInv, MainKept, msgVars, appVars
  <1>1. CASE Ignored \/ Sent
    BY <1>0, <1>1 DEF Ignored, Sent, PendingOut, ReportInv, TakenInv
  <1>2. CASE ~(Ignored \/ Sent)
    <2>1. HostData
      BY <1>0, <1>2, StoredOnly
    <2>2. \/ hPhase = "setupData" /\ Stored(SetupPacket)
          \/ hPhase = "outData" /\ Stored(OutPacket) /\ UNCHANGED <<hXfer, hReq>>
      BY <1>0, <1>2, <2>1, DataCases
    <2>3. hPhase = "outData" /\ Stored(OutPacket) /\ UNCHANGED <<hXfer, hReq>>
      BY <1>0, <2>2 DEF TransferInv, Stored, PendingOut
    <2>4. WriteInv'
      BY <1>0, WriteHost
    <2>5. RxPacket' = OutPacket
      BY <2>3 DEF Stored
    <2>6. RxPacket'.xfer = served.xfer /\ RxPacket'.off = Len(appGot)
      BY <1>0, <2>4 DEF WriteInv
    <2>7. served.xfer = hXfer /\ hSent = Len(appGot) /\ RxPacket'.len = ChunkLen
      BY <2>5, <2>6 DEF OutPacket
    <2>8. hSent = 0
      BY <1>0, <2>7, EmptySeq DEF ReportInv, TakenInv
    <2>9. served.req = hReq
      BY <1>0, <2>3, <2>7 DEF TransferInv, PastSetup, InService
    <2>10. hReq.wLength \in 0..254 /\ hReq.wLength >= ReportLen
      BY <2>9, RequestAssumption DEF DeluxeInv, ContractInv, WholeReports, RequestType
    <2>11. PICK w \in 0..254, p \in 1..8 : w = hReq.wLength /\ p = MaxPkt
      BY <2>10, PktAssumption
    <2>12. w >= ReportLen /\ p >= ReportLen
      BY <2>10, <2>11, DeluxeAssumption
    <2>13. ChunkLen = IF w - 0 > p THEN p ELSE w - 0
      BY <2>8, <2>11 DEF ChunkLen
    <2> QED
      BY <2>7, <2>11, <2>12, <2>13, ReportSize
  <1> QED
    BY <1>1, <1>2

\* The end of the data stage finds all of the reply copied.
LEMMA CopiedAll ==
    ASSUME DeluxeInv, ReportInv, AfterLosses, ~Lose, Host,
           hPhase' \in {"statusOut", "statusOutData"}
    PROVE  promised # USB_NO_MSG /\ usbMsgPtr.off = promised
  <1>0. DriverInv /\ LinkInv /\ TransferInv
    BY DEF DeluxeInv, BusInv
  <1>1. CASE hPhase \in {"statusOut", "statusOutData"}
    BY <1>1 DEF ReportInv, OutcomeInv
  <1>2. CASE hPhase \notin {"statusOut", "statusOutData"}
    <2>1. HostIn \/ HostData
      BY <1>2 DEF Host, HostProgress, HostStart, HostToken, HostAbort, HostForeign,
        HostReset, HostEndReset, hostVars
    <2>2. CASE HostData
      <3>1. hReq.dir \in {"in", "out"}
        BY RequestAssumption DEF DeluxeInv, BusInv, DriverInv, HostInv, TypeOK, NoRequest,
          RequestType
      <3> QED
        BY <1>0, <1>2, <2>2, <3>1, DataCases DEF AfterSetup, AfterOut
    <2>3. CASE HostIn
      <3>1. /\ Sent /\ hPhase = "in" /\ hPhase' = AfterIn(hGot', Len(usbTxBuf.data))
            /\ hGot' = hGot \o usbTxBuf.data
        BY <1>0, <1>2, <2>3, InCases
      <3>2. served.xfer = hXfer /\ InService /\ ~IsHandshake(usbTxLen)
        BY <1>0, <3>1 DEF TransferInv, PastSetup, Accepted, PendingSetup, Sent
      <3>3. PICK sum \in Nat, n \in Nat :
             /\ usbMsgPtr.off = sum
             /\ Len(usbTxBuf.data) = n /\ Len(hGot \o usbTxBuf.data) = sum
             /\ n < MaxPkt \/ sum >= hReq.wLength => sum = promised
        BY <1>0, <3>1, <3>2, InBlock
      <3>4. n < MaxPkt \/ sum >= hReq.wLength
        BY <3>1, <3>3 DEF AfterIn
      <3>5. promised # USB_NO_MSG
        <4>1. promised \in 0..254
          BY <1>0, <3>1, <3>2, InReply DEF LinkInv, StageInv
        <4> QED
          BY <4>1
      <3> QED
        BY <3>3, <3>4, <3>5
    <2> QED
      BY <2>1, <2>2, <2>3
  <1> QED
    BY <1>1, <1>2

\* A GET_REPORT that ends well has returned all of the reply.
LEMMA GetDone ==
    ASSUME DeluxeInv, ReportInv, AfterLosses, ~Lose, Host,
           hOutcome # "ok", hOutcome' = "ok", IsReport(hReq), hReq.dir = "in"
    PROVE  /\ served.req = hReq /\ usbMsgPtr.off = promised
           /\ hGot = Payload(hXfer, usbMsgPtr.off)
  <1>0. /\ LinkInv /\ served.xfer = hXfer /\ InService
        /\ hPhase \in {"statusOutData", "statusIn"}
    BY EndsWell DEF DeluxeInv, BusInv
  <1>1. served.req = hReq
    BY <1>0 DEF InService
  <1>2. CASE hPhase = "statusOutData"
    <2>1. usbMsgPtr.off = promised
      BY <1>2 DEF ReportInv, OutcomeInv
    <2>2. hGot = Payload(hXfer, Len(hGot)) /\ Len(hGot) = promised
      BY <1>0, <1>2 DEF InService
    <2> QED
      BY <1>1, <2>1, <2>2
  <1>3. CASE hPhase = "statusIn"
    <2>1. hReq.wLength = 0 /\ hGot = <<>>
      BY <1>0, <1>3 DEF LinkInv, StageInv
    <2>2. PICK reply \in ReplyLens(hReq) : promised = LimitedLen(reply, hReq)
      BY <1>0 DEF InService
    <2>3. hReq \in RequestType
      BY RequestAssumption DEF DeluxeInv, BusInv, DriverInv, HostInv, TypeOK, IsReport,
        NoRequest
    <2>4. promised \in 0..0 /\ promised # USB_NO_MSG
      BY <2>1, <2>2, <2>3, RequestReply
    <2>5. usbMsgPtr.off = 0 /\ promised = 0
      BY <2>4, ReplyBound
    <2>6. hGot = Payload(hXfer, 0)
      BY <2>1, TypesOfXfer, PayloadEmpty
    <2> QED
      BY <1>1, <2>5, <2>6
  <1> QED
    BY <1>0, <1>2, <1>3

LEMMA FirmHost ==
    ASSUME WholeReports, DeluxeInv, ReportInv, HostStep
    PROVE  ReportInv'
  <1>0. /\ Host
        /\ UNCHANGED <<usbMsgFlags, usbMsgPtr, served, promised, appGot, pc>>
        /\ UNCHANGED <<reportBuffer, offset, leds, AutoT, power, reported>>
        /\ lastSet' = IF hOutcome' = "ok" /\ hOutcome # "ok" /\ IsReport(hReq)
                         /\ hReq.dir = "out" THEN hXfer ELSE lastSet
    BY HostEffect DEF HostStep, DeluxeInv, BusInv, MainKept, msgVars, appVars, ledVars,
      wdtVars
  <1>1. /\ DriverInv /\ LinkInv /\ HostInv /\ MaxXfers \in Nat
        /\ hXfer \in Int /\ lastSet \in Nat /\ lastSet <= hXfer
    BY TypesOfXfer DEF DeluxeInv, BusInv, DriverInv, ReportInv, FirmTypes
  <1>2. CASE \E rq \in Requests : HostStart(rq)
    <2>1. /\ hOutcome' = "pending" /\ hPhase' \notin {"statusOut", "statusOutData"}
          /\ hXfer' = hXfer + 1 /\ UNCHANGED losses /\ lastSet' = lastSet
          /\ UNCHANGED <<RxPacket, usbRxLen, usbRxToken>>
      BY <1>0, <1>2, DeafEffect DEF HostStart, Ignored
    <2>2. FirmTypes' /\ BufferInv' /\ LightInv'
      BY <1>0, <1>1, <2>1
        DEF ReportInv, FirmTypes, BufferInv, LightInv, OneReportLit, Recovered, Whole
    <2>3. TakenInv'
      BY <1>0, <2>1 DEF ReportInv, TakenInv, OneReportLit, Trusted, PendingOut, Whole
    <2>4. GetInv' /\ OutcomeInv' /\ ReadBack'
      BY <1>0, <2>1 DEF ReportInv, GetInv, OutcomeInv, ReadBack, IsReport
    <2> QED
      BY <2>2, <2>3, <2>4 DEF ReportInv
  <1>3. CASE ~(\E rq \in Requests : HostStart(rq))
    <2>0. hXfer' = hXfer
      BY <1>0, <1>3 DEF Host, HostProgress, HostToken, HostData, HostIn, HostAbort,
        HostForeign, HostReset, HostEndReset, hostVars
    <2>1. AfterLosses' => AfterLosses /\ ~Lose
      BY <1>0, <1>1, <2>0, LossesKept DEF AfterLosses
    <2>2. Recovered' => AfterLosses' /\ (lastSet' = lastSet => Recovered)
      <3>1. lastSet' \in Int /\ lastSet' <= hXfer
        BY <1>0, <1>1
      <3> SUFFICES ASSUME Recovered' PROVE AfterLosses' /\ (lastSet' = lastSet => Recovered)
        OBVIOUS
      <3>2. \A i \in DOMAIN losses' : losses'[i] < lastSet'
        BY DEF Recovered
      <3>3. ~Lose /\ UNCHANGED losses
        BY <1>0, <1>1, <3>1, <3>2, LossesKept
      <3>4. \A i \in DOMAIN losses : losses[i] < lastSet'
        BY <3>2, <3>3
      <3>5. AfterLosses
        BY <1>1, <3>1, <3>4, LossesBefore DEF AfterLosses
      <3> QED
        BY <2>0, <3>3, <3>4, <3>5 DEF AfterLosses, Recovered
    <2>3. FirmTypes'
      BY <1>0, <1>1, <2>0, TypesOfXfer DEF ReportInv, FirmTypes
    <2>4. BufferInv' /\ LightInv'
      <3> SUFFICES ASSUME Recovered' PROVE BufferInv' /\ OneReportLit'
        BY DEF BufferInv, LightInv
      <3>1. CASE lastSet' = lastSet
        BY <1>0, <2>2, <3>1 DEF ReportInv, BufferInv, LightInv, OneReportLit, Whole
      <3>2. CASE lastSet' # lastSet
        <4>1. /\ usbMsgFlags /\ served.xfer = hXfer /\ offset # 0 /\ Trusted
              /\ lastSet' = hXfer
          BY <1>0, <2>1, <2>2, <3>2, SetDone
        <4>2. reportBuffer = Whole(hXfer) /\ OneReportLit
          BY <4>1 DEF ReportInv, TakenInv
        <4>3. hXfer \in hXfer..MaxXfers /\ hXfer <= hXfer
          BY TypesOfXfer
        <4> QED
          BY <1>0, <4>1, <4>2, <4>3 DEF BufferInv, OneReportLit, Whole
      <3> QED
        BY <3>1, <3>2
    <2>5. TakenInv'
      <3> SUFFICES ASSUME Trusted' PROVE TakenInv'
        BY DEF TakenInv
      <3>1. Trusted
        BY <1>0, <1>1, TrustKept
      <3>2. ASSUME usbMsgFlags, offset = 0, PendingOut' PROVE RxPacket'.len >= ReportLen
        BY <1>0, <3>2, FirstPacket
      <3> QED
        BY <1>0, <3>1, <3>2 DEF ReportInv, TakenInv, OneReportLit, Whole
    <2>6. GetInv'
      BY <1>0 DEF ReportInv, GetInv, IsReport
    <2>7. OutcomeInv'
      <3> SUFFICES ASSUME AfterLosses' PROVE OutcomeInv'
        BY DEF OutcomeInv
      <3>0. AfterLosses /\ ~Lose
        BY <2>1
      <3>1. ASSUME hPhase' \in {"statusOut", "statusOutData"}
            PROVE  promised' # USB_NO_MSG /\ usbMsgPtr'.off = promised'
        BY <1>0, <3>0, <3>1, CopiedAll
      <3>2. ASSUME hOutcome' = "ok", IsReport(hReq'), hReq'.dir = "out", AutoT' > 0,
                   power' = "run"
            PROVE  usbMsgFlags' /\ served'.xfer = hXfer' /\ offset' = ReportLen
        <4>1. UNCHANGED <<hXfer, hReq>>
          BY <1>0, <3>0, <3>2, EndsWell
        <4>2. CASE hOutcome = "ok"
          BY <1>0, <3>0, <3>2, <4>1, <4>2 DEF ReportInv, OutcomeInv
        <4>3. CASE hOutcome # "ok"
          BY <1>0, <3>0, <3>2, <4>1, <4>3, SetDone
        <4> QED
          BY <4>2, <4>3
      <3>3. ASSUME hOutcome' = "ok", IsReport(hReq'), hReq'.dir = "in", IsReport(served'.req)
            PROVE  served'.req.dir = "in" /\ usbMsgPtr'.off = promised'
        <4>1. UNCHANGED <<hXfer, hReq>>
          BY <1>0, <3>0, <3>3, EndsWell
        <4>2. CASE hOutcome = "ok"
          BY <1>0, <3>0, <3>3, <4>1, <4>2 DEF ReportInv, OutcomeInv
        <4>3. CASE hOutcome # "ok"
          BY <1>0, <3>0, <3>3, <4>1, <4>3, GetDone
        <4> QED
          BY <4>2, <4>3
      <3> QED
        BY <3>1, <3>2, <3>3 DEF OutcomeInv, IsReport
    <2>8. ReadBack'
      <3> SUFFICES ASSUME AfterLosses', hOutcome' = "ok", IsReport(hReq'), hReq'.dir = "in"
                   PROVE  ReadBack'
        BY DEF ReadBack, IsReport
      <3>0. AfterLosses /\ ~Lose
        BY <2>1
      <3>1. UNCHANGED <<hXfer, hReq, hGot>>
        BY <1>0, <3>0, EndsWell
      <3>2. lastSet' = lastSet /\ (Recovered' => Recovered)
        BY <1>0, <2>2, <3>1
      <3>3. CASE hOutcome = "ok"
        <4>1. /\ hGot = Payload(hXfer, Len(reported))
              /\ Recovered =>
                   \E x \in lastSet..MaxXfers :
                     \A i \in DOMAIN reported : reported[i] = IF x = 0 THEN Dark ELSE <<x, i>>
          BY <3>0, <3>1, <3>3 DEF ReportInv, ReadBack
        <4> QED
          BY <1>0, <3>1, <3>2, <4>1 DEF ReadBack, Payload
      <3>4. CASE hOutcome # "ok"
        <4>1. /\ served.req = hReq /\ usbMsgPtr.off = promised
              /\ hGot = Payload(hXfer, usbMsgPtr.off)
          BY <1>0, <3>0, <3>1, <3>4, GetDone
        <4>2. /\ reported \in Seq(Byte) /\ Len(reported) = usbMsgPtr.off
              /\ \A i \in 1..Len(reported) : reported[i] = reportBuffer[i]
          BY <3>1, <4>1 DEF ReportInv, GetInv, IsReport
        <4>3. promised \in 0..254 /\ promised <= ReportLen
          <5>1. promised # USB_NO_MSG /\ promised <= ReportLen
            BY <3>1, <4>1, ReportSize DEF DeluxeInv, ContractInv, IsReport
          <5> QED
            BY <5>1, ReplyBound
        <4>4. DOMAIN reported \subseteq ReportBytes /\ DOMAIN reported = 1..Len(reported)
          BY <4>1, <4>2, <4>3, ReportSize, LenProperties DEF ReportBytes
        <4>5. ASSUME Recovered
              PROVE  \E x \in lastSet..MaxXfers :
                       \A i \in DOMAIN reported :
                         reported[i] = IF x = 0 THEN Dark ELSE <<x, i>>
          <5>1. PICK x \in lastSet..MaxXfers : reportBuffer = Whole(x)
            BY <4>5 DEF ReportInv, BufferInv
          <5>2. \A i \in DOMAIN reported : reported[i] = IF x = 0 THEN Dark ELSE <<x, i>>
            BY <4>2, <4>4, <5>1 DEF Whole
          <5> QED
            BY <5>2
        <4> QED
          BY <1>0, <3>1, <3>2, <4>1, <4>2, <4>5 DEF ReadBack, Payload
      <3> QED
        BY <3>3, <3>4
    <2> QED
      BY <2>3, <2>4, <2>5, <2>6, <2>7, <2>8 DEF ReportInv
  <1> QED
    BY <1>2, <1>3

-----------------------------------------------------------------------------
LEMMA FirmStep ==
    ASSUME WholeReports, DeluxeInv, ReportInv, [DeluxeNext]_allVars
    PROVE  ReportInv'
  <1>1. CASE DriverStep
    BY <1>1, FirmDriver
  <1>2. CASE AppStep
    BY <1>2, FirmSetup, FirmWrite DEF AppStep
  <1>3. CASE AutoPlay
    BY <1>3, FirmAuto
  <1>4. CASE HostStep
    BY <1>4, FirmHost
  <1>5. CASE WatchdogReset
    BY <1>5, FirmReset
  <1>6. CASE Wake
    BY <1>6, FirmWake
  <1>7. CASE Suspend \/ UNCHANGED allVars
    <2>1. /\ UNCHANGED <<reportBuffer, offset, leds, AutoT, power, reported, lastSet>>
          /\ UNCHANGED <<usbMsgFlags, usbMsgPtr, served, promised, appGot, RxPacket,
                         usbRxLen, usbRxToken, pc, hPhase, hXfer, hReq, hGot, hOutcome,
                         losses>>
      BY <1>7 DEF Suspend, allVars, deluxe, ledVars, wdtVars, vars, devVars, hostVars,
        rxVars, msgVars, appVars, RxPacket
    <2>2. FirmTypes' /\ BufferInv' /\ LightInv'
      BY <2>1 DEF ReportInv, FirmTypes, BufferInv, LightInv, OneReportLit, Recovered, Whole
    <2>3. TakenInv'
      BY <2>1 DEF ReportInv, TakenInv, OneReportLit, Trusted, PendingOut, Whole
    <2>4. GetInv' /\ OutcomeInv'
      BY <2>1 DEF ReportInv, GetInv, OutcomeInv, AfterLosses, IsReport
    <2>5. ReadBack'
      BY <2>1 DEF ReportInv, ReadBack, Recovered, AfterLosses, IsReport, Payload
    <2> QED
      BY <2>2, <2>3, <2>4, <2>5 DEF ReportInv
  <1> QED
    BY <1>1, <1>2, <1>3, <1>4, <1>5, <1>6, <1>7 DEF DeluxeNext

LEMMA FirmStart == DeluxeInit => ReportInv
  <1> SUFFICES ASSUME DeluxeInit PROVE ReportInv
    OBVIOUS
  <1>0. /\ served = Junk(0) /\ hPhase = "idle" /\ hOutcome = "none" /\ hXfer = 0
        /\ usbMsgFlags = FALSE /\ AutoT = 0 /\ lastSet = 0
        /\ reportBuffer = [i \in ReportBytes |-> Dark] /\ leds = [i \in LedBytes |-> Dark]
    BY DEF DeluxeInit, Init, DevInit, HostInit
  <1>1. ~IsReport(served.req) /\ served.xfer = 0
    BY <1>0 DEF IsReport, Junk, NoRequest
  <1>2. 0 \in 0..MaxXfers /\ 0 \in 0..(ReportLen - 1) /\ ~(0 > 0)
    BY XfersAssumption, ReportSize
  <1>3. FirmTypes /\ BufferInv
    BY <1>0, <1>1, <1>2, ByteTypes DEF FirmTypes, BufferInv, Whole
  <1>4. TakenInv /\ GetInv /\ OutcomeInv /\ ReadBack
    BY <1>0, <1>1 DEF TakenInv, GetInv, OutcomeInv, ReadBack
  <1>5. LightInv
    <2>1. \A i \in LedBytes : IF 0 > 0 /\ i > 0 THEN leds[i] = <<0, i - 0 + 1>>
                              ELSE leds[i] \in {Dark, OneLed}
      BY <1>0, <1>2
    <2> QED
      BY <1>2, <2>1 DEF LightInv, OneReportLit
  <1> QED
    BY <1>3, <1>4, <1>5 DEF ReportInv

(* Whatever the bus loses, the firmware keeps whole the reports of transfers *)
(* that lost nothing, and what they left in the buffer and the LEDs.         *)
THEOREM ReportInvariant ==
    ASSUME WholeReports
    PROVE  DeluxeSpec => []ReportInv
  BY DeluxeStart, DeluxeStep, FirmStart, FirmStep, PTL DEF DeluxeSpec

(* Whatever the host gives up, resets or suspends, and however the animation *)
(* has shifted them, the LEDs show one report of the host or none, from the  *)
(* first SET_REPORT that ends well after the last loss.                      *)
THEOREM LedsShowOneReport ==
    ASSUME WholeReports
    PROVE  DeluxeSpec => []LedsWhole
  <1>1. ReportInv => LedsWhole
    BY DEF ReportInv, LightInv, OneReportLit, LedsWhole
  <1> QED
    BY <1>1, ReportInvariant, PTL

(* After a SET_REPORT that lost nothing the LEDs show that report until the  *)
(* animation may go on: nothing disturbs them.                               *)
THEOREM ReportIsHeld ==
    ASSUME WholeReports
    PROVE  DeluxeSpec => []ReportHeld
  <1>1. DeluxeInv /\ ReportInv => ReportHeld
    <2> SUFFICES ASSUME DeluxeInv, ReportInv, AfterLosses, hOutcome = "ok",
                        hReq.dir = "out", IsReport(hReq), AutoT > 0, power = "run"
                 PROVE  leds = [i \in LedBytes |-> <<hXfer, i + 1>>]
      BY DEF ReportHeld
    <2>1. usbMsgFlags /\ served.xfer = hXfer /\ offset # 0
      BY ReportSize DEF ReportInv, OutcomeInv
    <2>2. Trusted
      BY <2>1 DEF Trusted, AfterLosses
    <2> QED
      BY <2>1, <2>2 DEF ReportInv, TakenInv
  <1> QED
    BY <1>1, DeluxeInvariant, ReportInvariant, PTL

(* GET_REPORT returns the reply whole, although the copy is made packet by   *)
(* packet, and in it one report, none older than the last that the host set. *)
THEOREM ReadBackWhole ==
    ASSUME WholeReports
    PROVE  DeluxeSpec => []ReadBack
  <1>1. ReportInv => ReadBack
    BY DEF ReportInv
  <1> QED
    BY <1>1, ReportInvariant, PTL

-----------------------------------------------------------------------------
(***************************************************************************)
(* The safety properties of the interrupt-in endpoint hold for any number  *)
(* of messages.  They follow from IntrInv, which says what a pending packet*)
(* and each step of usbSetInterrupt imply for the buffer, the messages the *)
(* host has, and the packet identifiers of the two sides.                  *)
(***************************************************************************)
HIDE DEF USBPID_SETUP, USBPID_OUT, USBPID_DATA0, USBPID_DATA1, USBPID_ACK,
         USBPID_NAK, USBPID_STALL, USB_NO_MSG

Pending == ~IsHandshake(usbTxLen1)

\* A packet can only wait while usbSetInterrupt is not filling the buffer.
BufferOwned ==
    /\ step \in {"toggle", "copy", "crc", "arm"} => ~Pending
    /\ step # "idle" => msg # 0
    /\ step \in {"crc", "arm"} => held = msg
    /\ step = "arm" => crc = held
    /\ Pending => held = crc /\ held # 0
    /\ Pending => held = IF step = "idle" THEN msg ELSE msg - 1

\* What the host has is older than what it can still get.
GotOlder ==
    \A i \in DOMAIN got :
      /\ got[i] <= msg
      /\ step # "idle" => got[i] < msg
      /\ Pending => got[i] < held

\* With a program that asks, the identifiers of both sides stay in step.
InStep ==
    asks =>
      /\ step # "idle" => ~Pending
      /\ step # "retract"
      /\ (~Pending /\ step \in {"idle", "test", "toggle"}) => pid = Toggle(expects)
      /\ step \in {"copy", "crc", "arm"} => pid = expects
      /\ (Pending /\ pid # expects) => held \in overtaken

IntrInv == IntrTypeOK /\ BufferOwned /\ GotOlder /\ InOrder /\ InStep /\ AskedArrive

-----------------------------------------------------------------------------
\* The two message lengths of the endpoint, told apart as the code does it.
LEMMA Lengths == IsHandshake(USBPID_NAK) /\ ~IsHandshake(MsgLen + 4)
  BY DEF IsHandshake, USBPID_NAK, MsgLen

\* Toggling yields the other one of the two identifiers.
LEMMA Toggles ==
    ASSUME NEW p \in {USBPID_DATA0, USBPID_DATA1}
    PROVE  /\ Toggle(p) \in {USBPID_DATA0, USBPID_DATA1} /\ Toggle(p) # p
           /\ Toggle(Toggle(p)) = p
           /\ \A q \in {USBPID_DATA0, USBPID_DATA1} : q # p => q = Toggle(p)
  BY DEF Toggle, USBPID_DATA0, USBPID_DATA1

\* The messages the host has are numbers.
LEMMA GotNumbers ==
    ASSUME IntrTypeOK
    PROVE  /\ Len(got) \in Nat /\ DOMAIN got = 1..Len(got)
           /\ \A i \in DOMAIN got : got[i] \in 1..MaxMsgs
  BY LenProperties, ElementOfSeq DEF IntrTypeOK

LEMMA IntrInvInit == IntrInit => IntrInv
  <1> SUFFICES ASSUME IntrInit PROVE IntrInv
    OBVIOUS
  <1>1. IntrTypeOK
    BY IntrAssumption DEF IntrInit, IntrTypeOK
  <1>2. ~Pending
    BY Lengths DEF IntrInit, Pending
  <1>3. BufferOwned /\ GotOlder /\ InOrder /\ AskedArrive
    BY <1>2 DEF IntrInit, BufferOwned, GotOlder, InOrder, AskedArrive
  <1>4. InStep
    BY <1>2, Toggles DEF IntrInit, InStep, Toggle, USBPID_DATA0, USBPID_DATA1
  <1> QED
    BY <1>1, <1>3, <1>4 DEF IntrInv

LEMMA TypeStep == IntrInv /\ [IntrNext]_intrVars => IntrTypeOK'
  <1> SUFFICES ASSUME IntrInv, [IntrNext]_intrVars PROVE IntrTypeOK'
    OBVIOUS
  <1> USE IntrAssumption DEF IntrInv, IntrTypeOK
  <1>1. CASE Call
    BY <1>1 DEF Call, drv, host
  <1>2. CASE usbSetInterrupt
    BY <1>2, Toggles DEF usbSetInterrupt, TestEmpty, ToggleToken, Retract, Copy,
      AppendCrc, Arm, drv, host
  <1>3. CASE HandleIn1
    <2>1. held \in 1..MaxMsgs
      BY <1>3 DEF HandleIn1, BufferOwned, Pending
    <2>2. got' \in Seq(1..MaxMsgs)
      <3>1. Append(got, held) \in Seq(1..MaxMsgs)
        BY <2>1, AppendProperties
      <3> QED
        BY <1>3, <3>1 DEF HandleIn1
    <2> QED
      BY <1>3, <2>1, <2>2, Toggles DEF HandleIn1
  <1>4. CASE SetInterface
    <2>1. overtaken' \subseteq 1..MaxMsgs
      BY <1>4 DEF SetInterface, BufferOwned, Pending
    <2> QED
      BY <1>4, <2>1 DEF SetInterface
  <1>5. CASE UNCHANGED intrVars
    BY <1>5 DEF intrVars, drv, host
  <1> QED
    BY <1>1, <1>2, <1>3, <1>4, <1>5 DEF IntrNext

LEMMA BufferStep == IntrInv /\ [IntrNext]_intrVars => BufferOwned'
  <1> SUFFICES ASSUME IntrInv, [IntrNext]_intrVars PROVE BufferOwned'
    OBVIOUS
  <1> USE Lengths DEF IntrInv, IntrTypeOK, BufferOwned, Pending
  <1>1. CASE Call
    BY <1>1 DEF Call, drv
  <1>2. CASE TestEmpty
    BY <1>2 DEF TestEmpty, drv
  <1>3. CASE ToggleToken \/ Retract
    BY <1>3 DEF ToggleToken, Retract
  <1>4. CASE Copy \/ AppendCrc
    BY <1>4 DEF Copy, AppendCrc
  <1>5. CASE Arm
    BY <1>5 DEF Arm
  <1>6. CASE HandleIn1
    BY <1>6 DEF HandleIn1
  <1>7. CASE SetInterface
    BY <1>7 DEF SetInterface
  <1>8. CASE UNCHANGED intrVars
    BY <1>8 DEF intrVars, drv
  <1> QED
    BY <1>1, <1>2, <1>3, <1>4, <1>5, <1>6, <1>7, <1>8 DEF IntrNext, usbSetInterrupt

LEMMA OrderStep == IntrInv /\ [IntrNext]_intrVars => (GotOlder /\ InOrder)'
  <1> SUFFICES ASSUME IntrInv, [IntrNext]_intrVars PROVE (GotOlder /\ InOrder)'
    OBVIOUS
  <1> USE Lengths DEF IntrInv
  <1>1. CASE HandleIn1
    <2>1. Pending /\ held <= msg /\ (step # "idle" => held < msg) /\ ~Pending'
      BY <1>1 DEF HandleIn1, Pending, BufferOwned, IntrTypeOK
    <2>2. CASE got' = got
      BY <1>1, <2>1, <2>2 DEF HandleIn1, GotOlder, InOrder
    <2>3. CASE got' = Append(got, held)
      <3>1. \A i \in DOMAIN got' :
              got'[i] = IF i \in DOMAIN got THEN got[i] ELSE held
        BY <2>3 DEF IntrTypeOK
      <3>2. \A i, j \in DOMAIN got' : i < j => i \in DOMAIN got
        BY <2>3 DEF IntrTypeOK
      <3>3. \A i \in DOMAIN got : got[i] \in Nat /\ got[i] < held
        BY <2>1, GotNumbers, IntrAssumption DEF GotOlder
      <3> QED
        BY <1>1, <2>1, <3>1, <3>2, <3>3 DEF HandleIn1, GotOlder, InOrder, IntrTypeOK
    <2> QED
      BY <1>1, <2>2, <2>3 DEF HandleIn1
  <1>2. CASE Call \/ usbSetInterrupt \/ SetInterface \/ UNCHANGED intrVars
    <2>1. got' = got
      BY <1>2 DEF Call, usbSetInterrupt, TestEmpty, ToggleToken, Retract, Copy,
        AppendCrc, Arm, SetInterface, intrVars, host
    <2>2. InOrder'
      BY <2>1 DEF InOrder
    <2>3. \A i \in DOMAIN got : got[i] \in Nat
      BY GotNumbers, IntrAssumption
    <2>4. GotOlder'
      BY <1>2, <2>1, <2>3 DEF GotOlder, Call, usbSetInterrupt, TestEmpty,
        ToggleToken, Retract, Copy, AppendCrc, Arm, SetInterface, intrVars, drv,
        IntrTypeOK, BufferOwned, Pending
    <2> QED
      BY <2>2, <2>4
  <1> QED
    BY <1>1, <1>2 DEF IntrNext

LEMMA InStepStep == IntrInv /\ [IntrNext]_intrVars => (InStep /\ AskedArrive)'
  <1> SUFFICES ASSUME IntrInv, [IntrNext]_intrVars, asks' PROVE (InStep /\ AskedArrive)'
    BY DEF InStep, AskedArrive
  <1> USE Lengths, Toggles DEF IntrInv, InStep, AskedArrive, Pending
  <1>1. asks
    BY DEF IntrNext, Call, usbSetInterrupt, TestEmpty, ToggleToken, Retract, Copy,
      AppendCrc, Arm, HandleIn1, SetInterface, intrVars
  <1>2. CASE Call
    BY <1>1, <1>2 DEF Call, usbInterruptIsReady, drv, host
  <1>3. CASE TestEmpty \/ Copy \/ AppendCrc
    BY <1>1, <1>3 DEF TestEmpty, Copy, AppendCrc, drv, host
  <1>4. CASE ToggleToken
    BY <1>1, <1>4 DEF ToggleToken, host, IntrTypeOK
  <1>5. CASE Retract
    BY <1>1, <1>5 DEF Retract
  <1>6. CASE Arm
    BY <1>1, <1>6 DEF Arm, host
  <1>7. CASE HandleIn1
    BY <1>1, <1>7 DEF HandleIn1, IntrTypeOK
  <1>8. CASE SetInterface
    BY <1>1, <1>8 DEF SetInterface, Toggle, USBPID_DATA0, USBPID_DATA1
  <1>9. CASE UNCHANGED intrVars
    BY <1>1, <1>9 DEF intrVars, drv, host
  <1> QED
    BY <1>2, <1>3, <1>4, <1>5, <1>6, <1>7, <1>8, <1>9 DEF IntrNext, usbSetInterrupt

(* IntrInv is an invariant of the endpoint, for every number of messages.    *)
THEOREM IntrInvariant == IntrSpec => []IntrInv
  <1>1. IntrInv /\ [IntrNext]_intrVars => IntrInv'
    BY TypeStep, BufferStep, OrderStep, InStepStep DEF IntrInv
  <1> QED
    BY IntrInvInit, <1>1, PTL DEF IntrSpec

(* The variables of the endpoint keep their types.                           *)
THEOREM IntrTypeCorrect == IntrSpec => []IntrTypeOK
  BY IntrInvariant, PTL DEF IntrInv

(* "avoid sending outdated (overwritten) interrupt data": a packet that waits*)
(* for an IN token is whole, wherever usbSetInterrupt was interrupted.       *)
THEOREM IntrWhole == IntrSpec => []MessageWhole
  <1>1. IntrInv => MessageWhole
    BY DEF IntrInv, BufferOwned, MessageWhole, Pending, IntrTypeOK
  <1> QED
    BY <1>1, IntrInvariant, PTL

(* The host accepts the messages in order and none twice.                    *)
THEOREM IntrInOrder == IntrSpec => []InOrder
  BY IntrInvariant, PTL DEF IntrInv

(* The host drops no message of a program that asks usbInterruptIsReady, but *)
(* one that waits during a SET_INTERFACE.                                    *)
THEOREM IntrAskedArrive == IntrSpec => []AskedArrive
  BY IntrInvariant, PTL DEF IntrInv
=============================================================================
