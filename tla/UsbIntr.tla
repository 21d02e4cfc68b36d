------------------------------ MODULE UsbIntr -------------------------------
(***************************************************************************)
(* The interrupt-in endpoint 1 of the V-USB driver: usbSetInterrupt, called*)
(* by the main program, against handleIn1 of the interrupt routine, which  *)
(* may run between any two of its steps.  Messages are numbered 1, 2, ... .*)
(***************************************************************************)
EXTENDS UsbPid, Sequences

CONSTANT MaxMsgs    \* bound on the number of messages

ASSUME IntrAssumption == MaxMsgs \in Nat \ {0}

MsgLen == 8     \* a message is one full packet

VARIABLES
    asks,       \* the program calls usbSetInterrupt only after
                \* usbInterruptIsReady() returned true
    usbTxLen1,  \* usbTxStatus1.len: a handshake, or packet length + 4
    pid,        \* usbTxStatus1.buffer[0]
    held, crc,  \* message in the buffer, message the CRC was computed for
    step,       \* step of usbSetInterrupt, "idle" outside of it
    msg,        \* the message it was called with
    expects,    \* packet identifier the host expects
    got,        \* history: messages the host accepted
    dropped,    \* history: messages sent that it took for a repetition
    overtaken   \* history: messages waiting at a SET_INTERFACE

drv == <<usbTxLen1, pid, held, crc>>
host == <<expects, got, dropped, overtaken>>
intrVars == <<asks, drv, step, msg, host>>

\* usbInit and usbResetDataToggling: the first packet is a DATA0.
IntrInit ==
    /\ asks \in BOOLEAN
    /\ usbTxLen1 = USBPID_NAK /\ pid = USBPID_DATA1 /\ held = 0 /\ crc = 0
    /\ step = "idle" /\ msg = 0
    /\ expects = USBPID_DATA0 /\ got = <<>> /\ dropped = {} /\ overtaken = {}

usbInterruptIsReady == IsHandshake(usbTxLen1)

Call == /\ step = "idle" /\ msg < MaxMsgs
        /\ asks => usbInterruptIsReady
        /\ msg' = msg + 1 /\ step' = "test"
        /\ UNCHANGED <<asks, drv, host>>

\* The buffer is tested once ...
TestEmpty == /\ step = "test"
             /\ step' = IF IsHandshake(usbTxLen1) THEN "toggle" ELSE "retract"
             /\ UNCHANGED <<asks, drv, msg, host>>

\* Mutant: the length is announced before the data is there.
ToggleTokenArms == /\ step = "toggle" /\ step' = "copy"
                   /\ pid' = Toggle(pid) /\ usbTxLen1' = MsgLen + 4
                   /\ UNCHANGED <<asks, held, crc, msg, host>>

\* Mutant: every message has the same packet identifier.
ToggleTokenSame == /\ step = "toggle" /\ step' = "copy"
                   /\ UNCHANGED <<asks, drv, msg, host>>

\* ... and toggled if it was empty, or retracted if it was not.
ToggleToken == /\ step = "toggle" /\ step' = "copy"
               /\ pid' = Toggle(pid)
               /\ UNCHANGED <<asks, usbTxLen1, held, crc, msg, host>>

\* Mutant: the buffer is filled while it can be sent.
RetractNothing == /\ step = "retract" /\ step' = "copy"
                  /\ UNCHANGED <<asks, drv, msg, host>>

Retract == /\ step = "retract" /\ step' = "copy"
           /\ usbTxLen1' = USBPID_NAK
           /\ UNCHANGED <<asks, pid, held, crc, msg, host>>

Copy == /\ step = "copy" /\ step' = "crc"
        /\ held' = msg
        /\ UNCHANGED <<asks, usbTxLen1, pid, crc, msg, host>>

AppendCrc == /\ step = "crc" /\ step' = "arm"
             /\ crc' = held
             /\ UNCHANGED <<asks, usbTxLen1, pid, held, msg, host>>

Arm == /\ step = "arm" /\ step' = "idle"
       /\ usbTxLen1' = MsgLen + 4
       /\ UNCHANGED <<asks, pid, held, crc, msg, host>>

usbSetInterrupt == TestEmpty \/ ToggleToken \/ Retract \/ Copy \/ AppendCrc \/ Arm

(* An IN token for endpoint 1, when there is a packet to send.  The host     *)
(* acknowledges it; a packet with the identifier of the one before counts as *)
(* a repetition and is dropped.                                              *)
HandleIn1 ==
    /\ ~IsHandshake(usbTxLen1)
    /\ usbTxLen1' = USBPID_NAK
    /\ IF pid = expects
         THEN /\ got' = Append(got, held) /\ expects' = Toggle(expects)
              /\ UNCHANGED dropped
         ELSE dropped' = dropped \cup {held} /\ UNCHANGED <<got, expects>>
    /\ UNCHANGED <<asks, pid, held, crc, step, msg, overtaken>>

\* Mutant: the driver does not reset its toggle.
SetInterfaceKeepsToggle ==
    /\ step = "idle"
    /\ expects' = USBPID_DATA0
    /\ overtaken' = IF IsHandshake(usbTxLen1) THEN overtaken ELSE overtaken \cup {held}
    /\ UNCHANGED <<asks, drv, step, msg, got, dropped>>

(* SET_INTERFACE, handled by usbPoll between two calls of usbSetInterrupt:    *)
(* usbResetDataToggling on one side, DATA0 expected next on the other.       *)
SetInterface ==
    /\ step = "idle"
    /\ pid' = USBPID_DATA1 /\ expects' = USBPID_DATA0
    /\ overtaken' = IF IsHandshake(usbTxLen1) THEN overtaken ELSE overtaken \cup {held}
    /\ UNCHANGED <<asks, usbTxLen1, held, crc, step, msg, got, dropped>>

IntrNext == Call \/ usbSetInterrupt \/ HandleIn1 \/ SetInterface
IntrSpec == IntrInit /\ [][IntrNext]_intrVars
             /\ WF_intrVars(usbSetInterrupt) /\ WF_intrVars(HandleIn1)

-----------------------------------------------------------------------------
IntrTypeOK ==
    /\ asks \in BOOLEAN
    /\ usbTxLen1 \in {USBPID_NAK, MsgLen + 4}
    /\ pid \in {USBPID_DATA0, USBPID_DATA1} /\ expects \in {USBPID_DATA0, USBPID_DATA1}
    /\ held \in 0..MaxMsgs /\ crc \in 0..MaxMsgs /\ msg \in 0..MaxMsgs
    /\ step \in {"idle", "test", "toggle", "retract", "copy", "crc", "arm"}
    /\ got \in Seq(1..MaxMsgs)
    /\ dropped \subseteq 1..MaxMsgs /\ overtaken \subseteq 1..MaxMsgs

(* "avoid sending outdated (overwritten) interrupt data": what an IN token   *)
(* would fetch is the last message set, whole, with its own CRC.             *)
MessageWhole == ~IsHandshake(usbTxLen1) =>
           /\ held = crc /\ held # 0
           /\ step \notin {"test", "retract"} => held = msg

(* The host accepts messages in the order they were set, none of them twice. *)
InOrder == \A i, j \in DOMAIN got : i < j => got[i] < got[j]

(* A program that asks usbInterruptIsReady first has no message dropped by   *)
(* the host as a repetition, but one that waits during a SET_INTERFACE.      *)
AskedArrive == asks => dropped \subseteq overtaken

(* ... and every message it sets reaches the host or is such a one.          *)
LastArrives ==
    \A m \in 1..MaxMsgs :
      (asks /\ msg = m) ~> (m \in overtaken \/ \E i \in DOMAIN got : got[i] = m)
=============================================================================
