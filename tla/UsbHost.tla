------------------------------ MODULE UsbHost -------------------------------
(***************************************************************************)
(* The V-USB driver on a bus: the host runs control transfers on endpoint  *)
(* 0, gives them up or resets the bus when it likes, and talks to other    *)
(* devices in between.  The host is not in this repository; it follows the *)
(* USB 1.1 protocol that usbdrv.c is written against.  A bus action is one *)
(* packet (with the answer the interrupt routine gives to it), so steps of *)
(* usbPoll fall between any two packets of a transfer.                     *)
(***************************************************************************)
EXTENDS UsbDrv

CONSTANTS
    Others,             \* addresses at which the host talks to other devices
    MaxResets,          \* bound on the number of bus resets
    MaxLoss,            \* bound on the number of packets lost on the bus
    RetryAfterAddress   \* TRUE: a host that gives up SET_ADDRESS may go on
                        \* without resetting the bus

ASSUME HostAssumption ==
    /\ Others \subseteq 0..127
    /\ MaxResets \in Nat /\ MaxLoss \in Nat /\ RetryAfterAddress \in BOOLEAN

VARIABLES
    hPhase,     \* what the host sends next
    hXfer,      \* number of control transfers started
    hReq,       \* the request of the latest
    hGot,       \* bytes received in its data stage
    hSent,      \* number of bytes sent in its data stage and acknowledged
    hTog,       \* packet identifier of the next data packet
    hAddr,      \* address at which the host talks to the device
    hOutcome,   \* how the latest transfer ended, "pending" until it has
    hGaveUp,    \* history: the host has aborted a transfer
    resets,
    losses      \* number of the transfer in which each lost packet was sent

hostVars == <<hPhase, hXfer, hReq, hGot, hSent, hTog, hAddr, hOutcome,
              hGaveUp>>
vars == <<devVars, hostVars, resets, losses>>

\* Phases at a transaction boundary, and the two between a token and its data.
Stages == {"setup", "in", "statusOut", "out", "statusIn"}
Phases == Stages \cup {"idle", "setupData", "statusOutData", "outData", "reset"}

HostInit ==
    /\ hPhase = "idle" /\ hXfer = 0 /\ hReq = NoRequest
    /\ hGot = <<>> /\ hSent = 0 /\ hTog = USBPID_DATA0
    /\ hAddr = 0 /\ hOutcome = "none" /\ hGaveUp = FALSE
    /\ resets = 0 /\ losses = <<>>

Init == DevInit /\ HostInit

\* Only the interrupt routine and the host take part in a bus action.
BusOnly == UNCHANGED <<msgVars, appVars, pc, blkLen, line, resets>>
DeviceDeaf == UNCHANGED <<rxVars, txVars, addrVars>>

\* One more packet is lost.
Lose == Len(losses) < MaxLoss /\ losses' = Append(losses, hXfer)

\* A packet to the device arrives or is lost.
Deliver(isr) ==
    \/ isr /\ UNCHANGED losses
    \/ Lose /\ DeviceDeaf

Flip(pid) == IF pid = USBPID_DATA0 THEN USBPID_DATA1 ELSE USBPID_DATA0

-----------------------------------------------------------------------------
HostStart(rq) ==
    /\ hPhase = "idle" /\ hXfer < MaxXfers
    /\ hPhase' = "setup" /\ hXfer' = hXfer + 1 /\ hReq' = rq
    /\ hGot' = <<>> /\ hSent' = 0 /\ hTog' = USBPID_DATA0
    /\ hOutcome' = "pending"
    /\ DeviceDeaf /\ BusOnly /\ UNCHANGED <<hAddr, hGaveUp, losses>>

\* SETUP and OUT tokens; the data packet follows.
HostToken ==
    /\ hPhase \in {"setup", "out", "statusOut"}
    /\ hPhase' = CASE hPhase = "setup" -> "setupData"
                   [] hPhase = "out" -> "outData"
                   [] hPhase = "statusOut" -> "statusOutData"
    /\ Deliver(IsrToken(IF hPhase = "setup" THEN USBPID_SETUP ELSE USBPID_OUT,
                        hAddr))
    /\ BusOnly
    /\ UNCHANGED <<hXfer, hReq, hGot, hSent, hTog, hAddr, hOutcome, hGaveUp>>

ChunkLen == IF hReq.wLength - hSent > MaxPkt THEN MaxPkt ELSE hReq.wLength - hSent

HostDataPacket ==
    CASE hPhase = "setupData" ->
           [len |-> 8, xfer |-> hXfer, off |-> 0, req |-> hReq]
      [] hPhase = "outData" ->
           [len |-> ChunkLen, xfer |-> hXfer, off |-> hSent, req |-> NoRequest]
      [] OTHER -> Junk(0)

\* The stage that follows the SETUP packet, or the latest data packet.
AfterSetup == IF hReq.wLength = 0 THEN "statusIn" ELSE hReq.dir
AfterOut(sent) == IF sent = hReq.wLength THEN "statusIn" ELSE "out"
AfterIn(got, len) ==
    IF len < MaxPkt \/ Len(got) >= hReq.wLength THEN "statusOut" ELSE "in"

\* The data packet after a token: an ACK moves the transfer on, anything else
\* makes the host repeat the transaction.
HostData ==
    /\ hPhase \in {"setupData", "outData", "statusOutData"}
    /\ \E answer \in {Silent, Shake(USBPID_ACK), Shake(USBPID_NAK)} :
         /\ \/ IsrData(HostDataPacket, answer) /\ UNCHANGED losses
            \/ /\ Lose /\ answer = Silent
               /\ \/ DeviceDeaf
                  \/ \E a \in {Shake(USBPID_ACK), Shake(USBPID_NAK)} :
                       IsrData(HostDataPacket, a)
         /\ \/ /\ answer.pid # USBPID_ACK
               /\ hPhase' = CASE hPhase = "setupData" -> "setup"
                              [] hPhase = "outData" -> "out"
                              [] hPhase = "statusOutData" -> "statusOut"
               /\ UNCHANGED <<hSent, hTog, hOutcome>>
            \/ /\ answer.pid = USBPID_ACK /\ hPhase = "setupData"
               /\ hPhase' = AfterSetup /\ hTog' = USBPID_DATA1
               /\ UNCHANGED <<hSent, hOutcome>>
            \/ /\ answer.pid = USBPID_ACK /\ hPhase = "outData"
               /\ hSent' = hSent + ChunkLen
               /\ hPhase' = AfterOut(hSent')
               /\ hTog' = IF hPhase' = "out" THEN Flip(hTog) ELSE USBPID_DATA1
               /\ UNCHANGED hOutcome
            \/ /\ answer.pid = USBPID_ACK /\ hPhase = "statusOutData"
               /\ hPhase' = "idle" /\ hOutcome' = "ok"
               /\ UNCHANGED <<hSent, hTog>>
    /\ BusOnly
    /\ UNCHANGED <<hXfer, hReq, hGot, hAddr, hGaveUp>>

(* An IN transaction.  A data packet with the other packet identifier than   *)
(* the expected one is taken for a repetition: acknowledged and dropped.     *)
HostIn ==
    /\ hPhase \in {"in", "statusIn"}
    /\ \E answer \in {Silent, Shake(USBPID_NAK), Shake(USBPID_STALL),
                      [pid |-> usbTxBuf.pid, data |-> usbTxBuf.data]} :
         /\ \/ IsrIn(hAddr, answer, TRUE) /\ UNCHANGED losses
            \/ /\ Lose /\ answer = Silent
               /\ \/ DeviceDeaf
                  \/ \E a \in {Shake(USBPID_NAK), Shake(USBPID_STALL),
                               [pid |-> usbTxBuf.pid, data |-> usbTxBuf.data]} :
                       IsrIn(hAddr, a, FALSE)
         /\ \/ /\ answer.pid \in {0, USBPID_NAK, Flip(hTog)}
               /\ UNCHANGED <<hPhase, hGot, hTog, hAddr, hOutcome>>
            \/ /\ answer.pid = USBPID_STALL
               /\ hPhase' = "idle" /\ hOutcome' = "stall"
               /\ UNCHANGED <<hGot, hTog, hAddr>>
            \/ /\ answer.pid = hTog /\ hPhase = "in"
               /\ hGot' = hGot \o answer.data
               /\ hPhase' = AfterIn(hGot', Len(answer.data))
               /\ hTog' = Flip(hTog)
               /\ UNCHANGED <<hAddr, hOutcome>>
            \/ /\ answer.pid = hTog /\ hPhase = "statusIn"
               /\ hPhase' = "idle"
               /\ hOutcome' = IF answer.data = <<>> THEN "ok" ELSE "error"
               /\ hAddr' = IF hReq.bRequest = "SET_ADDRESS" THEN hReq.value ELSE hAddr
               /\ UNCHANGED <<hGot, hTog>>
    /\ BusOnly
    /\ UNCHANGED <<hXfer, hReq, hSent, hGaveUp>>

\* The host gives a transfer up: the next one starts with a SETUP.
HostAbort ==
    /\ hPhase \in Stages
    /\ hReq.bRequest = "SET_ADDRESS" => RetryAfterAddress
    /\ hPhase' = "idle" /\ hOutcome' = "aborted" /\ hGaveUp' = TRUE
    /\ DeviceDeaf /\ BusOnly
    /\ UNCHANGED <<hXfer, hReq, hGot, hSent, hTog, hAddr, losses>>

(* Traffic of another device: a token, then data for it.  A data packet       *)
(* whose token the device missed looks like one of its own.                  *)
HostForeign ==
    /\ hPhase \in Stages \cup {"idle"} /\ Others # {}
    /\ \/ \E addr \in Others \ {hAddr} : Deliver(IsrToken(USBPID_OUT, addr))
       \/ usbCurrentTok = 0 /\ IsrData(Junk(8), Silent) /\ UNCHANGED losses
       \/ /\ usbCurrentTok # 0 /\ Lose
          /\ \E rq \in Requests, a \in {Shake(USBPID_ACK), Shake(USBPID_NAK)} :
               IsrData([Junk(8) EXCEPT !.req = rq], a)
    /\ BusOnly
    /\ UNCHANGED hostVars

\* A bus reset: SE0 until usbPoll has run from beginning to end.
HostReset ==
    /\ hPhase \in Stages \cup {"idle"} /\ resets < MaxResets
    /\ resets' = resets + 1
    /\ line' = "reset" /\ hPhase' = "reset"
    /\ hOutcome' = IF hPhase = "idle" THEN hOutcome ELSE "aborted"
    /\ DeviceDeaf
    /\ UNCHANGED <<msgVars, appVars, pc, blkLen, hXfer, hReq, hGot, hSent, hTog,
                   hAddr, hGaveUp, losses>>

HostEndReset ==
    /\ hPhase = "reset" /\ line = "seen"
    /\ line' = "idle" /\ hPhase' = "idle" /\ hAddr' = 0
    /\ DeviceDeaf
    /\ UNCHANGED <<msgVars, appVars, pc, blkLen, hXfer, hReq, hGot, hSent, hTog,
                   hOutcome, hGaveUp, resets, losses>>

\* What a host that wants its transfer to finish keeps doing.
HostProgress == HostToken \/ HostData \/ HostIn \/ HostEndReset

Host == \/ \E rq \in Requests : HostStart(rq)
        \/ HostProgress \/ HostAbort \/ HostForeign \/ HostReset

Next == \/ usbPoll /\ UNCHANGED <<hostVars, resets, losses>>
        \/ Host

Spec == Init /\ [][Next]_vars
FairSpec == Spec /\ WF_vars(usbPoll /\ UNCHANGED <<hostVars, resets, losses>>)
                 /\ WF_vars(HostProgress)

-----------------------------------------------------------------------------
LossTypeOK == losses \in Seq(0..MaxXfers) /\ Len(losses) <= MaxLoss

TypeOK ==
    /\ DevTypeOK
    /\ hPhase \in Phases /\ hXfer \in 0..MaxXfers
    /\ hReq \in Requests \cup {NoRequest}
    /\ hSent \in 0..254 /\ hTog \in {USBPID_DATA0, USBPID_DATA1}
    /\ hAddr \in 0..127
    /\ hOutcome \in {"none", "pending", "ok", "stall", "error", "aborted"}
    /\ hGaveUp \in BOOLEAN
    /\ resets \in 0..MaxResets
    /\ LossTypeOK

(* From the moment the interrupt routine announces a packet (usbRxLen) until *)
(* usbPoll releases it, nothing changes the packet or its token, whatever    *)
(* arrives on the bus: usbProcessRx never works on a torn packet.            *)
RxStable == [][usbRxLen # 0 => UNCHANGED <<RxPacket, usbRxToken>>]_vars

(* What an IN token would fetch now is a finished block: data, CRC and       *)
(* announced length belong together, and it is a reply to the request that   *)
(* was processed last, not the rest of a transfer the host gave up.          *)
TxReady == usbRxLen = 0 /\ ~IsHandshake(usbTxLen)
TxWhole ==
    TxReady => /\ usbTxBuf.crc = usbTxBuf.data
               /\ usbTxLen = Len(usbTxBuf.data) + 4
               /\ \A i \in DOMAIN usbTxBuf.data : usbTxBuf.data[i][1] = served.xfer

\* The first n bytes that belong to control transfer x.
Payload(x, n) == [i \in 1..n |-> <<x, i>>]

(* The driver assumes a bus without errors (asmcommon.inc, before handleIn1):*)
(* a transfer in which a packet is lost may go wrong.  What is claimed of a  *)
(* transfer is claimed when every loss was in an earlier one, so the driver  *)
(* must recover with the next SETUP.                                         *)
AfterLosses == \A i \in DOMAIN losses : losses[i] < hXfer

(* Control-in: the host receives the bytes of the reply to its own request,  *)
(* in order, none missing or doubled, and when it goes to the status stage   *)
(* it has all that usbProcessRx promised.                                    *)
ControlIn ==
    AfterLosses =>
      /\ hPhase \in {"in", "statusOut", "statusOutData"} =>
           hGot = Payload(hXfer, Len(hGot))
      /\ hPhase \in {"statusOut", "statusOutData"} =>
           served.xfer = hXfer /\ Len(hGot) = promised

(* Control-out: a transfer that succeeds has delivered every                 *)
(* byte of its data stage to usbFunctionWrite exactly once and in order, if  *)
(* the application asked for the data, and usbFunctionWrite did not fail.    *)
ControlOut ==
    (AfterLosses /\ hOutcome = "ok" /\ hReq.dir = "out") =>
      /\ served.xfer = hXfer
      /\ promised = USB_NO_MSG =>
           appGot = Payload(hXfer, hReq.wLength) /\ appVerdict # 255

(* Without losses the host and the device agree on the device's address      *)
(* whenever the bus is not in reset.                                         *)
AddrAgree == (losses = <<>> /\ line = "idle") => usbDeviceAddr = hAddr

(* The comment of 2006-03-11 in asmcommon.inc: after a transfer that the     *)
(* host saw to its end the receive buffer is free, so that the next SETUP,   *)
(* which a device must not refuse, is not answered with a NAK.               *)
SetupWelcome ==
    (AfterLosses /\ hPhase = "idle" /\ hOutcome \in {"ok", "stall"}) => usbRxLen = 0

(* Every transfer comes to an end (success, STALL, abort or reset), with a   *)
(* main loop that keeps calling usbPoll and a host that keeps trying.        *)
TransferEnds == hPhase # "idle" ~> hPhase = "idle"

(* The comment of usbNewDeviceAddr: "device ID which should be set after     *)
(* status phase".  Outside a reset the address changes only when the status  *)
(* stage of SET_ADDRESS is answered.                                         *)
AddrAfterStatus ==
    [][usbDeviceAddr' # usbDeviceAddr =>
         \/ line # "idle"
         \/ hPhase = "statusIn" /\ hReq.bRequest = "SET_ADDRESS"]_vars

(* The driver on the bus implements the control pipe of ControlPipe.         *)
Pipe == INSTANCE ControlPipe WITH
          NoMsg <- USB_NO_MSG, xfer <- hXfer, request <- hReq,
          outcome <- hOutcome, toHost <- hGot, serving <- served.xfer,
          offer <- promised, toDevice <- appGot, verdict <- appVerdict
PipeSpec == Pipe!Spec
=============================================================================
