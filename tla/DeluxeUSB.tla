----------------------------- MODULE DeluxeUSB ------------------------------
(***************************************************************************)
(* The DeluxeUSB firmware: its usbFunctionSetup and usbFunctionWrite in    *)
(* place of the general application of UsbDrv, the LED shift registers,    *)
(* the animation of the main loop, and the watchdog reset that takes the   *)
(* device through a suspended bus.                                         *)
(*                                                                         *)
(* A LED position of the chain stands for the LEDs of one report byte.     *)
(***************************************************************************)
EXTENDS UsbHost, Integers

CONSTANTS
    ReportLen,  \* sizeof(reportBuffer): report ID and LED bytes (5)
    AutoHold,   \* ticks without animation after a report (12)
    AutoWrap,   \* ticks after which the animation lights a LED (40)
    MaxTicks,   \* bound on the number of animation ticks
    MaxWdt      \* bound on the number of watchdog resets

ASSUME DeluxeAssumption ==
    /\ ReportLen \in 2..MaxPkt
    /\ AutoHold \in 1..12 /\ AutoWrap \in 1..40
    /\ MaxTicks \in Nat /\ MaxWdt \in Nat

VARIABLES
    reportBuffer, offset,
    leds,           \* the outputs of the '595 chain, nearest LED first
    LedOn, LedOO,   \* TRUE: not zero
    AutoT,
    ticks, wdts,
    suspended,      \* external: the host has suspended the bus
    power,          \* "run", or "down": in sleep mode after a watchdog reset
    reported,       \* history: bytes of reportBuffer in the reply under way
    lastSet         \* history: last SET_REPORT transfer that succeeded

ledVars == <<leds, LedOn, LedOO, AutoT>>
wdtVars == <<ticks, wdts, suspended, power>>
deluxe == <<reportBuffer, offset, ledVars, wdtVars, reported, lastSet>>
allVars == <<vars, deluxe>>

\* Bytes: cleared memory, the one LED of the animation; reports of odd
\* transfers have LEDs on, those of even ones have none.
Dark == <<0, 0>>
OneLed == <<0, 1>>
Lit(b) == b = OneLed \/ b[1] % 2 = 1
ReportBytes == 1..ReportLen
LedBytes == 1..(ReportLen - 1)

DeluxeInit ==
    /\ Init
    /\ reportBuffer = [i \in ReportBytes |-> Dark] /\ offset = 0
    /\ leds = [i \in LedBytes |-> Dark] /\ LedOn = FALSE /\ LedOO = FALSE
    /\ AutoT = 0 /\ ticks = 0 /\ wdts = 0 /\ power = "run" /\ suspended = FALSE
    /\ reported = <<>> /\ lastSet = 0

\* OutLedState: shift out the LED bytes of a buffer and strobe them.
OutLedState(buf) ==
    /\ leds' = [i \in LedBytes |-> buf[i + 1]]
    /\ LedOO' = (\E i \in LedBytes : Lit(buf[i + 1]))
    /\ LedOn' = LedOO'

OutLedOff ==
    /\ leds' = [i \in LedBytes |-> Dark] /\ LedOO' = FALSE /\ LedOn' = FALSE

\* value 0 of a class request stands for GET_REPORT and SET_REPORT.
IsReport(rq) == rq.bRequest = "FUNCTION" /\ rq.value = 0

\* Mutant: SET_REPORT takes the data to follow the report ID.
usbFunctionSetupSkipsId ==
    LET rq == RxPacket.req IN
    /\ RxRequest(IF IsReport(rq) /\ rq.dir = "out" THEN USB_NO_MSG
                 ELSE IF IsReport(rq) THEN ReportLen
                 ELSE IF rq.bRequest = "FUNCTION" THEN 0 ELSE StdReplyLen[rq.bRequest])
    /\ offset' = IF IsReport(rq) /\ rq.dir = "out" THEN 1 ELSE offset
    /\ UNCHANGED ledVars

usbFunctionSetup ==
    LET rq == RxPacket.req IN
    \/ /\ IsReport(rq) /\ rq.dir = "in"
       /\ RxRequest(ReportLen)
       /\ IF AutoT < 0 THEN OutLedState(reportBuffer) ELSE UNCHANGED <<leds, LedOn, LedOO>>
       /\ AutoT' = AutoHold
       /\ UNCHANGED offset
    \/ /\ IsReport(rq) /\ rq.dir = "out"
       /\ RxRequest(USB_NO_MSG)
       /\ offset' = 0
       /\ UNCHANGED ledVars
    \/ /\ rq.bRequest = "FUNCTION" /\ ~IsReport(rq)
       /\ RxRequest(0)
       /\ UNCHANGED <<offset, ledVars>>
    \/ /\ rq.bRequest # "FUNCTION"
       /\ RxRequest(StdReplyLen[rq.bRequest])
       /\ UNCHANGED <<offset, ledVars>>

SetupStep ==
    /\ usbFunctionSetup
    /\ reported' = <<>>
    /\ UNCHANGED <<reportBuffer, wdtVars, lastSet>>

\* Mutant: the last byte of the report does not fit.
usbFunctionWriteShort ==
    LET len == usbRxLen - 3
        space == ReportLen - 1 - offset
        n == IF len > space THEN space ELSE len
        data == PacketBytes(RxPacket, len)
    IN  /\ reportBuffer' = [i \in ReportBytes |->
             IF i \in offset + 1 .. offset + n THEN data[i - offset]
             ELSE reportBuffer[i]]
        /\ offset' = offset + n
        /\ OutLedState(reportBuffer') /\ AutoT' = AutoHold
        /\ RxWrite(1)

\* Mutant: the end of a report is not told to the driver.
usbFunctionWriteNoEnd ==
    /\ reportBuffer' = [i \in ReportBytes |->
         IF i <= usbRxLen - 3 THEN PacketBytes(RxPacket, usbRxLen - 3)[i]
         ELSE reportBuffer[i]]
    /\ offset' = ReportLen
    /\ OutLedState(reportBuffer') /\ AutoT' = AutoHold
    /\ RxWrite(0)

\* usbFunctionWrite: take what still fits, ignore the rest.
usbFunctionWrite ==
    LET len == usbRxLen - 3
        space == ReportLen - offset
        n == IF len > space THEN space ELSE len
        data == PacketBytes(RxPacket, len)
    IN  /\ reportBuffer' = [i \in ReportBytes |->
             IF i \in offset + 1 .. offset + n THEN data[i - offset]
             ELSE reportBuffer[i]]
        /\ offset' = offset + n
        /\ \/ /\ space = n
              /\ OutLedState(reportBuffer')
              /\ AutoT' = AutoHold
              /\ RxWrite(1)
           \/ /\ space # n
              /\ RxWrite(0)
              /\ UNCHANGED ledVars

WriteStep == usbFunctionWrite /\ UNCHANGED <<wdtVars, reported, lastSet>>

\* Mutant: the animation does not note the LED it lights.
AutoPlayUnnoted ==
    LET t == AutoT - 1
        wrap == t = -AutoWrap IN
    /\ pc = "poll" /\ power = "run" /\ line = "idle" /\ ~suspended
    /\ ticks < MaxTicks /\ ticks' = ticks + 1
    /\ AutoT' = IF wrap THEN 0 ELSE t
    /\ leds' = IF t >= 0 THEN leds ELSE
         [i \in LedBytes |->
           IF i > 1 THEN leds[i - 1] ELSE IF wrap THEN OneLed ELSE Dark]
    /\ UNCHANGED <<vars, reportBuffer, offset, LedOn, LedOO, wdts, suspended, power,
                   reported, lastSet>>

\* Mutant: the animation goes on while AutoT counts down.
AutoPlayAtOnce ==
    LET t == AutoT - 1
        wrap == t = -AutoWrap IN
    /\ pc = "poll" /\ power = "run" /\ line = "idle" /\ ~suspended
    /\ ticks < MaxTicks /\ ticks' = ticks + 1
    /\ AutoT' = IF wrap THEN 0 ELSE t
    /\ LedOO' = (LedOO \/ wrap) /\ LedOn' = LedOO'
    /\ leds' = [i \in LedBytes |->
         IF i > 1 THEN leds[i - 1] ELSE IF wrap THEN OneLed ELSE Dark]
    /\ UNCHANGED <<vars, reportBuffer, offset, wdts, suspended, power, reported, lastSet>>

(* Every 256 ms of bus time the main loop calls AutoPlay between two calls of*)
(* usbPoll: count down, then shift the chain by one position.                *)
AutoPlay ==
    /\ pc = "poll" /\ power = "run" /\ line = "idle" /\ ~suspended
    /\ ticks < MaxTicks /\ ticks' = ticks + 1
    /\ LET t == AutoT - 1
           wrap == t = -AutoWrap IN
       /\ AutoT' = IF wrap THEN 0 ELSE t
       /\ IF t >= 0 THEN UNCHANGED <<leds, LedOn, LedOO>>
          ELSE /\ LedOO' = (LedOO \/ wrap)
               /\ leds' = [i \in LedBytes |->
                    IF i > 1 THEN leds[i - 1] ELSE IF wrap THEN OneLed ELSE Dark]
               /\ LedOn' = LedOO'
    /\ UNCHANGED <<vars, reportBuffer, offset, wdts, suspended, power, reported, lastSet>>

-----------------------------------------------------------------------------
(* The host suspends the idle bus: no more SOF, the main loop stops feeding  *)
(* the watchdog.                                                             *)
Suspend ==
    /\ hPhase = "idle" /\ ~suspended /\ power = "run"
    /\ suspended' = TRUE
    /\ UNCHANGED <<vars, reportBuffer, offset, ledVars, ticks, wdts, power, reported, lastSet>>

(* The watchdog resets the controller: RAM is cleared, registers survive;    *)
(* main switches the LEDs off, if they are on, and powers down.              *)
WatchdogReset ==
    /\ suspended /\ power = "run" /\ wdts < MaxWdt
    /\ wdts' = wdts + 1 /\ power' = "down"
    /\ usbRxBuf' = [h \in 0..1 |-> Junk(0)] /\ usbInputBufOffset' = 0
    /\ usbRxLen' = 0 /\ usbRxToken' = 0 /\ usbCurrentTok' = 0
    /\ usbTxLen' = USBPID_NAK
    /\ usbTxBuf' = [pid |-> 0, data |-> <<>>, crc |-> <<>>]
    /\ usbMsgPtr' = [xfer |-> 0, off |-> 0]
    /\ usbMsgLen' = USB_NO_MSG /\ usbMsgFlags' = FALSE
    /\ usbDeviceAddr' = 0 /\ usbNewDeviceAddr' = 0 /\ usbConfiguration' = 0
    /\ pc' = "poll" /\ blkLen' = 0 /\ UNCHANGED line
    /\ served' = Junk(0) /\ promised' = USB_NO_MSG
    /\ appGot' = <<>> /\ appVerdict' = 0
    /\ reportBuffer' = [i \in ReportBytes |-> Dark] /\ UNCHANGED offset
    /\ IF LedOn THEN OutLedOff ELSE UNCHANGED <<leds, LedOn, LedOO>>
    /\ lastSet' = 0
    /\ UNCHANGED <<reported, AutoT, hostVars, resets, losses, ticks, suspended>>

(* A bus reset ends the suspension and wakes the controller, which goes on   *)
(* with its initialisation; the model's host resets the device it woke.      *)
Wake ==
    /\ suspended /\ suspended' = FALSE
    /\ hPhase' = "reset" /\ line' = "reset"
    /\ power' = "run"
    /\ IF power = "down" THEN OutLedOff /\ AutoT' = 0 ELSE UNCHANGED ledVars
    /\ UNCHANGED <<rxVars, txVars, msgVars, addrVars, appVars, pc, blkLen, hXfer,
                   hReq, hGot, hSent, hTog, hAddr, hOutcome, hGaveUp, resets, losses,
                   reportBuffer, offset, ticks, wdts, reported, lastSet>>

\* The driver's own steps; the history variable keeps what is copied out.
DriverStep ==
    /\ power = "run" /\ PollDriver
    /\ UNCHANGED <<hostVars, resets, losses>>
    /\ reported' = IF pc = "copy" /\ IsReport(served.req)
                   THEN reported \o [i \in 1..blkLen |-> reportBuffer[usbMsgPtr.off + i]]
                   ELSE reported
    /\ UNCHANGED <<reportBuffer, offset, ledVars, wdtVars, lastSet>>

AppStep == /\ power = "run" /\ (SetupStep \/ WriteStep)
           /\ UNCHANGED <<hostVars, resets, losses>>

HostStep ==
    /\ ~suspended /\ Host
    /\ lastSet' = IF hOutcome' = "ok" /\ hOutcome # "ok" /\ IsReport(hReq)
                     /\ hReq.dir = "out" THEN hXfer ELSE lastSet
    /\ UNCHANGED <<reportBuffer, offset, ledVars, wdtVars, reported>>

DeluxeNext == DriverStep \/ AppStep \/ AutoPlay \/ HostStep
              \/ Suspend \/ WatchdogReset \/ Wake

DeluxeSpec == DeluxeInit /\ [][DeluxeNext]_allVars

-----------------------------------------------------------------------------
(* What the buffer holds after a lost packet is anybody's guess: no token    *)
(* clears usbCurrentTok, and a SETUP packet can pass for report data.  The   *)
(* next SET_REPORT that the host completes without a loss puts that right.   *)
Recovered == \A i \in DOMAIN losses : losses[i] < lastSet

(* The LEDs show no mixture, from the first SET_REPORT to end well after the *)
(* last loss: what is in the chain comes from one report of the host, whole  *)
(* but for the shifting of the animation, and not from half a report.        *)
LedsWhole ==
    Recovered =>
    \E x \in 0..MaxXfers, shift \in 0..(ReportLen - 1) :
      \A i \in LedBytes :
        IF x > 0 /\ i > shift THEN leds[i] = <<x, i - shift + 1>>
        ELSE leds[i] \in {Dark, OneLed}

(* "no auto-animation for ca. 3 seconds": from the end of a SET_REPORT until *)
(* the hold time is over the LEDs show exactly that report, whatever was lost*)
(* in the transfers before.                                                  *)
ReportHeld ==
    (AfterLosses /\ hOutcome = "ok" /\ hReq.dir = "out" /\ IsReport(hReq)
       /\ AutoT > 0 /\ power = "run") =>
      leds = [i \in LedBytes |-> <<hXfer, i + 1>>]

(* A GET_REPORT that succeeds without a loss returns the whole of the reply. *)
(* If nothing was lost since the last SET_REPORT that succeeded, the reply is*)
(* one report, and none older than that one.                                 *)
ReadBack ==
    (AfterLosses /\ hOutcome = "ok" /\ hReq.dir = "in" /\ IsReport(hReq)) =>
      /\ hGot = Payload(hXfer, Len(reported))
      /\ Recovered =>
           \E x \in lastSet..MaxXfers :
             \A i \in DOMAIN reported : reported[i] = IF x = 0 THEN Dark ELSE <<x, i>>

(* "needed for USB standby mode": in power-down no LED draws current.        *)
StandbyDark == power = "down" => \A i \in LedBytes : ~Lit(leds[i])

(* The firmware keeps the contract of usbdrv.h: all it does, except being    *)
(* reset by the watchdog, the general application of UsbHost may do.         *)
AppContract == [][Next \/ WatchdogReset \/ Wake]_vars
=============================================================================
