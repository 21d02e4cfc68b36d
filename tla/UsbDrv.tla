------------------------------- MODULE UsbDrv -------------------------------
(***************************************************************************)
(* The device side of the V-USB software USB driver: usbdrv.c (usbPoll and *)
(* what it calls, run by the main loop) and asmcommon.inc (the interrupt   *)
(* routine that receives and answers packets).  The interrupt routine may  *)
(* run between any two steps of the main loop; it is itself atomic, since  *)
(* interrupts stay disabled until its reti.                                *)
(*                                                                         *)
(* Payload bytes are abstract: <<x, i>> is byte i of the data that belongs *)
(* to control transfer number x.  The build is the one of                  *)
(* DeluxeUSB/firmware/usbconfig.h: FN_WRITE on; FN_READ, WRITEOUT, HALT,   *)
(* FLOWCONTROL, LONG_TRANSFERS, CHECK_CRC and CHECK_DATA_TOGGLING off.     *)
(* Endpoint 1 is the subject of UsbIntr.  The application is the most      *)
(* general one usbdrv.h allows; DeluxeUSB replaces it by the real one.     *)
(***************************************************************************)
EXTENDS UsbPid, Sequences

CONSTANTS
    MaxPkt,     \* payload of a full data packet (8 in the code)
    MaxXfers,   \* bound on the number of control transfers the host starts
    DescrLen,   \* length of the descriptor a GET_DESCRIPTOR reads
    FnLens,     \* reply lengths an application may return for a control-in
    Addrs,      \* device addresses SET_ADDRESS may assign
    Requests    \* the requests the host may issue

\* The reserved message length of usbdrv.h.
USB_NO_MSG == 255

StandardRequests ==
    {"GET_STATUS", "SET_ADDRESS", "GET_DESCRIPTOR", "GET_CONFIGURATION",
     "SET_CONFIGURATION", "GET_INTERFACE", "SET_INTERFACE"}

\* bRequest is "FUNCTION" for every class or vendor request.
RequestType == [bRequest : StandardRequests \cup {"FUNCTION"},
                dir : {"in", "out"}, value : 0..127, wLength : 0..254]

ASSUME PktAssumption == MaxPkt \in 1..8
ASSUME XfersAssumption == MaxXfers \in Nat \ {0}
ASSUME LengthAssumption == DescrLen \in 0..254 /\ FnLens \subseteq 0..254
ASSUME AddrsAssumption == Addrs \subseteq 1..127
ASSUME RequestAssumption == Requests \subseteq RequestType

NoRequest == [bRequest |-> "GET_STATUS", dir |-> "in", value |-> 0, wLength |-> 0]

(* What a half of usbRxBuf can hold.  A SETUP packet of transfer x carries   *)
(* a request; an OUT packet carries bytes off + 1 .. off + len of transfer x;*)
(* tokens, handshakes and packets for other devices carry nothing of ours.   *)
Packet == [len : 0..8, xfer : 0..MaxXfers, off : 0..254,
           req : Requests \cup {NoRequest}]
Junk(n) == [len |-> n, xfer |-> 0, off |-> 0, req |-> NoRequest]

VARIABLES
    usbRxBuf,           \* the two halves of the receive buffer
    usbInputBufOffset,  \* half the interrupt routine writes (0 or 1)
    usbRxLen,           \* 0: other half is free, else its payload length + 3
    usbRxToken,         \* token of the packet in the other half
    usbCurrentTok,      \* last SETUP or OUT token addressed to us, or 0
    usbTxLen,           \* handshake to send, or length of the packet + 4
    usbTxBuf,           \* packet identifier, data and the data the CRC covers
    usbMsgPtr,          \* next byte to send: of which transfer, which offset
    usbMsgLen,          \* bytes left to send, or USB_NO_MSG
    usbMsgFlags,        \* TRUE: USB_FLG_USE_USER_RW is set
    usbDeviceAddr, usbNewDeviceAddr, usbConfiguration,
    pc,                 \* next step of usbPoll
    blkLen,             \* usbBuildTxBlock's local len
    line,               \* "idle", or SE0 (see Lines)
    served,             \* history: the last SETUP packet usbProcessRx handled
    promised,           \* history: usbMsgLen computed for it
    appGot,             \* history: bytes usbFunctionWrite received for it
    appVerdict          \* last result of usbFunctionWrite for it

rxVars == <<usbRxBuf, usbInputBufOffset, usbRxLen, usbRxToken, usbCurrentTok>>
txVars == <<usbTxLen, usbTxBuf>>
msgVars == <<usbMsgPtr, usbMsgLen, usbMsgFlags>>
addrVars == <<usbDeviceAddr, usbNewDeviceAddr, usbConfiguration>>
appVars == <<served, promised, appGot, appVerdict>>
devVars == <<rxVars, txVars, msgVars, addrVars, appVars, pc, blkLen, line>>

(* A bus reset keeps the line at SE0 for 10 ms or more, time for thousands of *)
(* calls of usbPoll.  The model only keeps whether one call began ("polled")  *)
(* and ended ("seen") during the reset.                                       *)
Lines == {"idle", "reset", "polled", "seen"}

DevInit ==
    /\ usbRxBuf = [h \in 0..1 |-> Junk(0)]
    /\ usbInputBufOffset = 0
    /\ usbRxLen = 0 /\ usbRxToken = 0 /\ usbCurrentTok = 0
    /\ usbTxLen = USBPID_NAK
    /\ usbTxBuf = [pid |-> 0, data |-> <<>>, crc |-> <<>>]
    /\ usbMsgPtr = [xfer |-> 0, off |-> 0]
    /\ usbMsgLen = USB_NO_MSG
    /\ usbMsgFlags = FALSE
    /\ usbDeviceAddr = 0 /\ usbNewDeviceAddr = 0 /\ usbConfiguration = 0
    /\ pc = "poll" /\ blkLen = 0 /\ line = "idle"
    /\ served = Junk(0) /\ promised = USB_NO_MSG
    /\ appGot = <<>> /\ appVerdict = 0

-----------------------------------------------------------------------------
(* The interrupt routine.  An answer is what goes out on the bus.          *)

Silent == [pid |-> 0, data |-> <<>>]
Shake(p) == [pid |-> p, data |-> <<>>]

\* Every packet on the bus is received into the interrupt routine's own half.
ReceiveInto(pkt) == usbRxBuf' = [usbRxBuf EXCEPT ![usbInputBufOffset] = pkt]

\* A SETUP or OUT token, ours or another device's (ignorePacket).
IsrToken(tok, addr) ==
    /\ ReceiveInto(Junk(0))
    /\ usbCurrentTok' = IF addr = usbDeviceAddr THEN tok ELSE 0
    /\ UNCHANGED <<usbInputBufOffset, usbRxLen, usbRxToken, txVars, addrVars>>

\* Mutant: a packet is taken although the other half is still in use.
IsrDataOverrun(pkt, answer) ==
    /\ ReceiveInto(pkt)
    /\ \/ /\ usbCurrentTok = 0
          /\ answer = Silent
          /\ UNCHANGED <<usbInputBufOffset, usbRxLen, usbRxToken>>
       \/ /\ usbCurrentTok # 0
          /\ answer = Shake(USBPID_ACK)
          /\ usbRxLen' = pkt.len + 3
          /\ usbRxToken' = usbCurrentTok
          /\ usbInputBufOffset' = 1 - usbInputBufOffset
    /\ UNCHANGED <<usbCurrentTok, txVars, addrVars>>

\* Mutant: the empty packet of a status stage is stored like any other.
IsrDataEmpty(pkt, answer) ==
    /\ ReceiveInto(pkt)
    /\ IF usbCurrentTok = 0 \/ usbRxLen # 0
         THEN /\ answer = IF usbCurrentTok = 0 THEN Silent ELSE Shake(USBPID_NAK)
              /\ UNCHANGED <<usbInputBufOffset, usbRxLen, usbRxToken>>
         ELSE /\ answer = Shake(USBPID_ACK)
              /\ usbRxLen' = pkt.len + 3
              /\ usbRxToken' = usbCurrentTok
              /\ usbInputBufOffset' = 1 - usbInputBufOffset
    /\ UNCHANGED <<usbCurrentTok, txVars, addrVars>>

\* A data packet of the host, DATA0 or DATA1, and the answer to it.
IsrData(pkt, answer) ==
    /\ ReceiveInto(pkt)
    /\ \/ /\ usbCurrentTok = 0
          /\ answer = Silent
          /\ UNCHANGED <<usbInputBufOffset, usbRxLen, usbRxToken>>
       \/ /\ usbCurrentTok # 0 /\ usbRxLen # 0
          /\ answer = Shake(USBPID_NAK)
          /\ UNCHANGED <<usbInputBufOffset, usbRxLen, usbRxToken>>
       \/ /\ usbCurrentTok # 0 /\ usbRxLen = 0 /\ pkt.len + 3 < 4
          /\ answer = Shake(USBPID_ACK)     \* status stage: keep the buffer
          /\ UNCHANGED <<usbInputBufOffset, usbRxLen, usbRxToken>>
       \/ /\ usbCurrentTok # 0 /\ usbRxLen = 0 /\ pkt.len + 3 >= 4
          /\ answer = Shake(USBPID_ACK)
          /\ usbRxLen' = pkt.len + 3
          /\ usbRxToken' = usbCurrentTok
          /\ usbInputBufOffset' = 1 - usbInputBufOffset
    /\ UNCHANGED <<usbCurrentTok, txVars, addrVars>>

\* Mutant: an IN token is answered while a packet waits to be processed.
IsrInEarly(addr, answer, acked) ==
    /\ ReceiveInto(Junk(0))
    /\ \/ /\ addr # usbDeviceAddr
          /\ answer = Silent
          /\ usbCurrentTok' = 0
          /\ UNCHANGED <<txVars, addrVars>>
       \/ /\ addr = usbDeviceAddr /\ IsHandshake(usbTxLen)
          /\ answer = Shake(usbTxLen)
          /\ UNCHANGED <<usbCurrentTok, txVars, addrVars>>
       \/ /\ addr = usbDeviceAddr /\ ~IsHandshake(usbTxLen)
          /\ answer = [pid |-> usbTxBuf.pid, data |-> usbTxBuf.data]
          /\ usbTxLen' = USBPID_NAK
          /\ usbDeviceAddr' = usbNewDeviceAddr
          /\ usbCurrentTok' = IF acked THEN 0 ELSE usbCurrentTok
          /\ UNCHANGED <<usbTxBuf, usbNewDeviceAddr, usbConfiguration>>
    /\ UNCHANGED <<usbInputBufOffset, usbRxLen, usbRxToken>>

(* An IN token for endpoint 0.  Sending a data packet, and not a handshake,  *)
(* loads usbDeviceAddr; the host's ACK clears usbCurrentTok (ignorePacket):  *)
(* "acked" says whether the host sends one.                                  *)
IsrIn(addr, answer, acked) ==
    /\ ReceiveInto(Junk(0))
    /\ \/ /\ addr # usbDeviceAddr
          /\ answer = Silent
          /\ usbCurrentTok' = 0
          /\ UNCHANGED <<txVars, addrVars>>
       \/ /\ addr = usbDeviceAddr /\ usbRxLen >= 1
          /\ answer = Shake(USBPID_NAK)
          /\ UNCHANGED <<usbCurrentTok, txVars, addrVars>>
       \/ /\ addr = usbDeviceAddr /\ usbRxLen < 1 /\ IsHandshake(usbTxLen)
          /\ answer = Shake(usbTxLen)
          /\ UNCHANGED <<usbCurrentTok, txVars, addrVars>>
       \/ /\ addr = usbDeviceAddr /\ usbRxLen < 1 /\ ~IsHandshake(usbTxLen)
          /\ answer = [pid |-> usbTxBuf.pid, data |-> usbTxBuf.data]
          /\ usbTxLen' = USBPID_NAK
          /\ usbDeviceAddr' = usbNewDeviceAddr
          /\ usbCurrentTok' = IF acked THEN 0 ELSE usbCurrentTok
          /\ UNCHANGED <<usbTxBuf, usbNewDeviceAddr, usbConfiguration>>
    /\ UNCHANGED <<usbInputBufOffset, usbRxLen, usbRxToken>>

-----------------------------------------------------------------------------
(* usbPoll, one step for each access to state the interrupt routine shares.*)

\* The packet usbProcessRx works on: the half the interrupt routine left.
RxPacket == usbRxBuf[1 - usbInputBufOffset]

\* Main-loop steps leave what only the interrupt routine writes alone.
Main(from, to) == pc = from /\ pc' = to
IsrOwned == <<usbRxBuf, usbInputBufOffset, usbRxToken, usbCurrentTok>>

PollRxLen ==
    /\ Main("poll", IF usbRxLen >= 3 THEN "rx" ELSE "tx")
    /\ line' = IF line = "reset" THEN "polled" ELSE line
    /\ UNCHANGED <<rxVars, txVars, msgVars, addrVars, appVars, blkLen>>

\* A SETUP packet of another length than 8 is ignored.
RxBadSetup ==
    /\ Main("rx", "rxdone")
    /\ usbRxToken = USBPID_SETUP /\ usbRxLen - 3 # 8
    /\ UNCHANGED <<rxVars, txVars, msgVars, addrVars, appVars, blkLen, line>>

RxSetup ==
    /\ Main("rx", "abort")
    /\ usbRxToken = USBPID_SETUP /\ usbRxLen - 3 = 8
    /\ usbTxBuf' = [usbTxBuf EXCEPT !.pid = USBPID_DATA0]
    /\ UNCHANGED <<rxVars, usbTxLen, msgVars, addrVars, appVars, blkLen, line>>

\* Mutant: a new SETUP does not abort the answer to the old one.
RxAbortKeepsBlock ==
    /\ Main("abort", "setup")
    /\ usbMsgFlags' = FALSE
    /\ UNCHANGED <<rxVars, txVars, usbMsgPtr, usbMsgLen, addrVars, appVars,
                   blkLen, line>>

RxAbort ==
    /\ Main("abort", "setup")
    /\ usbTxLen' = USBPID_NAK
    /\ usbMsgFlags' = FALSE
    /\ UNCHANGED <<rxVars, usbTxBuf, usbMsgPtr, usbMsgLen, addrVars, appVars,
                   blkLen, line>>

StdReplyLen ==
    [GET_STATUS |-> 2, SET_ADDRESS |-> 0, GET_DESCRIPTOR |-> DescrLen,
     GET_CONFIGURATION |-> 1, SET_CONFIGURATION |-> 0, GET_INTERFACE |-> 1,
     SET_INTERFACE |-> 0]

\* What usbDriverSetup or usbFunctionSetup may return for a request.
ReplyLens(rq) ==
    IF rq.bRequest # "FUNCTION" THEN {StdReplyLen[rq.bRequest]}
    ELSE IF rq.dir = "in" THEN FnLens
    ELSE {0, USB_NO_MSG}

\* Mutant: a reply is not cut to the length the host asked for.
LimitedLenUncut(reply, rq) ==
    IF reply = USB_NO_MSG /\ rq.dir = "in" THEN rq.wLength ELSE reply

\* usbMsgLen as usbProcessRx computes it from the returned length.
LimitedLen(reply, rq) ==
    IF reply = USB_NO_MSG
      THEN IF rq.dir = "in" THEN rq.wLength ELSE USB_NO_MSG
      ELSE IF reply > rq.wLength THEN rq.wLength ELSE reply

\* Mutant: SET_ADDRESS takes effect before its status stage.
RxRequestEarlyAddress(reply) ==
    LET rq == RxPacket.req
        len == LimitedLen(reply, rq) IN
    /\ Main("setup", "rxdone")
    /\ IF rq.bRequest = "SET_ADDRESS"
         THEN usbNewDeviceAddr' = rq.value /\ usbDeviceAddr' = rq.value
         ELSE UNCHANGED <<usbNewDeviceAddr, usbDeviceAddr>>
    /\ usbMsgPtr' = [xfer |-> RxPacket.xfer, off |-> 0]
    /\ usbMsgLen' = len /\ promised' = len
    /\ usbMsgFlags' = (reply = USB_NO_MSG)
    /\ served' = RxPacket /\ appGot' = <<>> /\ appVerdict' = 0
    /\ UNCHANGED <<rxVars, txVars, usbConfiguration, blkLen, line>>

RxRequest(reply) ==
    LET rq == RxPacket.req IN
    /\ Main("setup", "rxdone")
    /\ usbNewDeviceAddr' =
         IF rq.bRequest = "SET_ADDRESS" THEN rq.value ELSE usbNewDeviceAddr
    /\ usbConfiguration' =
         IF rq.bRequest = "SET_CONFIGURATION" THEN rq.value ELSE usbConfiguration
    /\ usbMsgPtr' = [xfer |-> RxPacket.xfer, off |-> 0]
    /\ usbMsgLen' = LimitedLen(reply, rq)
    /\ usbMsgFlags' = (reply = USB_NO_MSG)
    /\ served' = RxPacket
    /\ promised' = LimitedLen(reply, rq)
    /\ appGot' = <<>> /\ appVerdict' = 0
    /\ UNCHANGED <<rxVars, txVars, usbDeviceAddr, blkLen, line>>

\* Control-out data the application did not ask for is dropped.
RxIgnoredOut ==
    /\ Main("rx", "rxdone")
    /\ usbRxToken # USBPID_SETUP /\ ~usbMsgFlags
    /\ UNCHANGED <<rxVars, txVars, msgVars, addrVars, appVars, blkLen, line>>

(* What usbdrv.h lets usbFunctionWrite return: 0 only while it expects more, *)
(* 255 for an error and from then on, 1 at the end or when it does not know. *)
WriteResults(len) ==
    CASE appVerdict = 255 -> {255}
      [] appVerdict = 1 -> {1}
      [] OTHER -> {1, 255} \cup
           (IF Len(appGot) + len < served.req.wLength THEN {0} ELSE {})

\* Bytes that were not sent as data of a transfer count as bytes of no transfer.
PacketBytes(pkt, len) ==
    [i \in 1..len |-> IF pkt.req = NoRequest THEN <<pkt.xfer, pkt.off + i>>
                      ELSE <<0, i>>]

\* Mutant: the end of the data does not start the status stage.
RxWriteNoStatus(rval) ==
    /\ Main("rx", "rxdone")
    /\ usbRxToken # USBPID_SETUP /\ usbMsgFlags
    /\ usbTxLen' = IF rval = 255 THEN USBPID_STALL ELSE usbTxLen
    /\ appGot' = appGot \o PacketBytes(RxPacket, usbRxLen - 3)
    /\ appVerdict' = rval
    /\ UNCHANGED <<rxVars, usbTxBuf, msgVars, addrVars, served, promised,
                   blkLen, line>>

RxWrite(rval) ==
    /\ Main("rx", "rxdone")
    /\ usbRxToken # USBPID_SETUP /\ usbMsgFlags
    /\ usbTxLen' = IF rval = 255 THEN USBPID_STALL ELSE usbTxLen
    /\ usbMsgLen' = IF rval \notin {0, 255} THEN 0 ELSE usbMsgLen
    /\ appGot' = appGot \o PacketBytes(RxPacket, usbRxLen - 3)
    /\ appVerdict' = rval
    /\ UNCHANGED <<rxVars, usbTxBuf, usbMsgPtr, usbMsgFlags, addrVars, served,
                   promised, blkLen, line>>

RxRelease ==
    /\ Main("rxdone", "tx")
    /\ usbRxLen' = 0
    /\ UNCHANGED <<IsrOwned, txVars, msgVars, addrVars, appVars, blkLen, line>>

PollTxLen ==
    /\ Main("tx", IF IsHandshake(usbTxLen) /\ usbMsgLen # USB_NO_MSG
                  THEN "build" ELSE "line")
    /\ UNCHANGED <<rxVars, txVars, msgVars, addrVars, appVars, blkLen, line>>

\* usbBuildTxBlock: reserve the block and toggle the packet identifier ...
TxBuild ==
    /\ Main("build", "copy")
    /\ blkLen' = IF usbMsgLen > MaxPkt THEN MaxPkt ELSE usbMsgLen
    /\ usbMsgLen' = usbMsgLen - blkLen'
    /\ usbTxBuf' = [usbTxBuf EXCEPT !.pid = Toggle(@)]
    /\ UNCHANGED <<rxVars, usbTxLen, usbMsgPtr, usbMsgFlags, addrVars, appVars, line>>

\* Mutant: usbDeviceRead does not advance usbMsgPtr.
TxCopyStuck ==
    /\ Main("copy", "crc")
    /\ usbTxBuf' = [usbTxBuf EXCEPT !.data =
         [i \in 1..blkLen |-> <<usbMsgPtr.xfer, usbMsgPtr.off + i>>]]
    /\ UNCHANGED <<rxVars, usbTxLen, msgVars, addrVars, appVars, blkLen, line>>

\* ... usbDeviceRead the data ...
TxCopy ==
    /\ Main("copy", "crc")
    /\ usbTxBuf' = [usbTxBuf EXCEPT !.data =
         [i \in 1..blkLen |-> <<usbMsgPtr.xfer, usbMsgPtr.off + i>>]]
    /\ usbMsgPtr' = [usbMsgPtr EXCEPT !.off = @ + blkLen]
    /\ UNCHANGED <<rxVars, usbTxLen, usbMsgLen, usbMsgFlags, addrVars, appVars,
                   blkLen, line>>

\* ... append the CRC; a packet that is not full ends the message ...
TxCrc ==
    /\ Main("crc", "arm")
    /\ usbTxBuf' = [usbTxBuf EXCEPT !.crc = usbTxBuf.data]
    /\ usbMsgLen' = IF blkLen < MaxPkt THEN USB_NO_MSG ELSE usbMsgLen
    /\ UNCHANGED <<rxVars, usbTxLen, usbMsgPtr, usbMsgFlags, addrVars, appVars,
                   blkLen, line>>

\* ... and only then hand the block to the interrupt routine.
TxArm ==
    /\ Main("arm", "line")
    /\ usbTxLen' = blkLen + 4
    /\ UNCHANGED <<rxVars, usbTxBuf, msgVars, addrVars, appVars, blkLen, line>>

PollLine ==
    /\ Main("line", IF line = "idle" THEN "poll" ELSE "reset")
    /\ usbNewDeviceAddr' = IF line = "idle" THEN usbNewDeviceAddr ELSE 0
    /\ UNCHANGED <<rxVars, txVars, msgVars, usbDeviceAddr, usbConfiguration,
                   appVars, blkLen, line>>

PollReset ==
    /\ Main("reset", "poll")
    /\ usbDeviceAddr' = 0
    /\ line' = IF line = "polled" THEN "seen" ELSE line
    /\ UNCHANGED <<rxVars, txVars, msgVars, usbNewDeviceAddr, usbConfiguration,
                   appVars, blkLen>>

\* usbPoll but for the calls into the application, and usbPoll.
PollDriver ==
    \/ PollRxLen \/ RxBadSetup \/ RxSetup \/ RxAbort \/ RxIgnoredOut \/ RxRelease
    \/ PollTxLen \/ TxBuild \/ TxCopy \/ TxCrc \/ TxArm \/ PollLine \/ PollReset

usbPoll ==
    \/ PollDriver
    \/ \E reply \in ReplyLens(RxPacket.req) : RxRequest(reply)
    \/ \E rval \in WriteResults(usbRxLen - 3) : RxWrite(rval)

-----------------------------------------------------------------------------
\* A byte: the transfer it belongs to, and its position.
Byte == Nat \X Nat

RxTypeOK ==
    /\ usbRxBuf \in [0..1 -> Packet]
    /\ usbInputBufOffset \in 0..1
    /\ usbRxLen \in {0} \cup 4..11
    /\ usbRxToken \in {0, USBPID_SETUP, USBPID_OUT}
    /\ usbCurrentTok \in {0, USBPID_SETUP, USBPID_OUT}

TxTypeOK ==
    /\ usbTxLen \in {USBPID_NAK, USBPID_STALL} \cup 4..12
    /\ usbTxBuf \in [pid : {0, USBPID_DATA0, USBPID_DATA1},
                    data : Seq(Byte), crc : Seq(Byte)]

MsgTypeOK ==
    /\ usbMsgPtr \in [xfer : 0..MaxXfers, off : Nat]
    /\ usbMsgLen \in 0..255
    /\ usbMsgFlags \in BOOLEAN
    /\ blkLen \in 0..MaxPkt

AddrTypeOK ==
    /\ usbDeviceAddr \in 0..127 /\ usbNewDeviceAddr \in 0..127
    /\ usbConfiguration \in 0..127

AppTypeOK ==
    /\ served \in Packet /\ promised \in 0..255 /\ appVerdict \in {0, 1, 255}

Labels == {"poll", "rx", "abort", "setup", "rxdone", "tx", "build", "copy",
           "crc", "arm", "line", "reset"}

DevTypeOK ==
    /\ RxTypeOK /\ TxTypeOK /\ MsgTypeOK /\ AddrTypeOK /\ AppTypeOK
    /\ pc \in Labels /\ line \in Lines
=============================================================================
