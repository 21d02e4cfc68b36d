--------------------------- MODULE DloPluginProofs --------------------------
(***************************************************************************)
(* The plugins' handles and timers are accounted for, for any number of    *)
(* channels, addresses, starts, dialogs and faults.  HeldOnce speaks of    *)
(* the time between two calls of the program's thread; PhaseInv says for   *)
(* each step of a call what is held then.  The timer procedure reads       *)
(* usbHandle and writes none of it, so its steps do not matter here.       *)
(***************************************************************************)
EXTENDS DloPlugin, TLAPS

Started == IF inited THEN 1 ELSE 0
Agree == handles = Held + orphans

\* After the timer has been killed in a call that is to close the device:
\* DLO_UsbPrn has one timer less than handles until it has closed one.
PhaseInv ==
    /\ apc = "idle" => ~again /\ HeldOnce
    /\ apc = "open" => /\ handles = orphans
                       /\ plugin = "DeluxeUSB" => IF again THEN timers = Started ELSE inited /\ timers = 0
                       /\ plugin = "UsbPrn" => timers = handles
    /\ apc = "dark" => plugin = "DeluxeUSB" /\ ~again /\ inited /\ Agree /\ timers = 0
    /\ apc = "event" => /\ ~again /\ Agree
                        /\ plugin = "DeluxeUSB" => inited /\ timers = 0
                        /\ plugin = "UsbPrn" => timers + 1 = handles
    /\ apc = "kill" => /\ Agree
                       /\ plugin = "DeluxeUSB" => ~again /\ ~inited /\ timers = 1
                       /\ plugin = "UsbPrn" => usbHandle /\ timers = handles
                       /\ plugin = "Parallel" => ~inited /\ timers <= 1
    /\ apc = "close" => /\ Agree
                        /\ plugin = "DeluxeUSB" => timers = Started /\ (~again => ~inited)
                        /\ plugin = "UsbPrn" => usbHandle /\ timers + 1 = handles
    /\ apc = "clear" => /\ handles = orphans
                        /\ plugin = "DeluxeUSB" => ~again /\ ~inited /\ timers = 0
                        /\ plugin = "UsbPrn" => timers = handles

Types ==
    /\ plugin \in {"DeluxeUSB", "UsbPrn", "Parallel"}
    /\ apc \in {"idle", "open", "dark", "event", "kill", "close", "clear"}
    /\ handles \in Nat /\ orphans \in Nat /\ timers \in Nat
    /\ plugin = "Parallel" => ~usbHandle /\ ~again /\ apc \in {"idle", "kill"}

HeldInv == Types /\ PhaseInv

LEMMA HeldInit == Init => HeldInv
  BY PluginAssumption DEF Init, HeldInv, Types, PhaseInv, HeldOnce, Held

\* What the timer procedure, the device and data for a channel leave alone.
Holdings == <<plugin, apc, usbHandle, again, inited, handles, orphans, timers>>

LEMMA HoldingsKept == ASSUME HeldInv, UNCHANGED Holdings PROVE HeldInv'
  BY DEF HeldInv, Holdings, Types, PhaseInv, HeldOnce, Held, Started, Agree

LEMMA KeptSteps ==
    ASSUME \/ \E ch \in (1..Rows) \X Lamps, val \in BOOLEAN : DLO_datain(ch, val)
           \/ SaveAddr \/ Timer \/ Light \/ Animate \/ Suspend \/ Unplug \/ Plug
           \/ UNCHANGED vars
    PROVE  UNCHANGED Holdings
  <1> USE DEF Holdings, globals, program, held
  <1>1. CASE \E ch \in (1..Rows) \X Lamps, val \in BOOLEAN : DLO_datain(ch, val)
    BY <1>1 DEF DLO_datain
  <1>2. CASE SaveAddr
    BY <1>2 DEF SaveAddr
  <1>3. CASE Timer
    BY <1>3 DEF Timer, TimerProc, Copy, Check, OutPortState, OutPortState_UsbPrn, Out32, Data, Others
  <1>4. CASE Light \/ Animate \/ Suspend
    BY <1>4 DEF Light, Animate, Suspend, Host
  <1>5. CASE Unplug \/ Plug
    BY <1>5 DEF Unplug, Plug, Host
  <1>6. CASE UNCHANGED vars
    BY <1>6 DEF vars
  <1> QED
    BY <1>1, <1>2, <1>3, <1>4, <1>5, <1>6

\* The beginning of a call.
LEMMA CallStep ==
    ASSUME HeldInv,
           \/ DLO_init \/ DLO_init_Parallel \/ DLO_done \/ DLO_done_UsbPrn
           \/ ConfigDlgProc \/ ConfigDlgProc_UsbPrn
    PROVE  HeldInv'
  <1> USE DEF HeldInv, Types, PhaseInv, HeldOnce, Held, Started, Agree, globals, program, held
  <1>1. CASE DLO_init
    BY <1>1 DEF DLO_init, Usb
  <1>2. CASE DLO_init_Parallel
    BY <1>2 DEF DLO_init_Parallel, Usb
  <1>3. CASE DLO_done
    BY <1>3 DEF DLO_done
  <1>4. CASE DLO_done_UsbPrn
    BY <1>4 DEF DLO_done_UsbPrn, Leave
  <1>5. CASE ConfigDlgProc
    BY <1>5 DEF ConfigDlgProc
  <1>6. CASE ConfigDlgProc_UsbPrn
    BY <1>6 DEF ConfigDlgProc_UsbPrn, Leave
  <1> QED
    BY <1>1, <1>2, <1>3, <1>4, <1>5, <1>6

\* The steps of a call.
LEMMA ProgramStep == ASSUME HeldInv, Program PROVE HeldInv'
  <1> USE DEF HeldInv, Types, PhaseInv, HeldOnce, Held, Started, Agree, globals, program, held
  <1>1. CASE Open
    BY <1>1 DEF Open, OpenUsbHid
  <1>2. CASE Open_UsbPrn
    <2>1. /\ plugin = "UsbPrn" /\ apc = "open" /\ ~again'
          /\ UNCHANGED <<plugin, timers, orphans, inited>>
      BY <1>2 DEF Open_UsbPrn
    <2>2. CASE usbHandle' /\ apc' = "event" /\ handles' = handles + 1
      BY <2>1, <2>2
    <2>3. CASE ~usbHandle' /\ apc' = "idle" /\ handles' = handles
      BY <2>1, <2>3
    <2> QED
      BY <1>2, <2>2, <2>3 DEF Open_UsbPrn, OpenUsbPort
  <1>3. CASE DarkAtStart
    BY <1>3 DEF DarkAtStart
  <1>4. CASE timeSetEvent
    BY <1>4 DEF timeSetEvent
  <1>5. CASE KillTimer
    BY <1>5 DEF KillTimer, Usb
  <1>6. CASE CloseUsb
    BY <1>6 DEF CloseUsb
  <1>7. CASE ClearUsb
    BY <1>7 DEF ClearUsb
  <1> QED
    BY <1>1, <1>2, <1>3, <1>4, <1>5, <1>6, <1>7 DEF Program

LEMMA HeldStep == HeldInv /\ [Next]_vars => HeldInv'
  <1> SUFFICES ASSUME HeldInv, [Next]_vars PROVE HeldInv'
    OBVIOUS
  <1> QED
    BY HoldingsKept, KeptSteps, CallStep, ProgramStep DEF Next

\* What is held in every step of a call, and the types of what is held.
THEOREM HeldInvariant == Spec => []HeldInv
  BY HeldInit, HeldStep, PTL DEF Spec

\* Between two calls the handles held are the one of usbHandle and those that
\* a start has overwritten, and the timers are those of the plugin's starts.
THEOREM PluginHeldOnce == Spec => []HeldOnce
  <1>1. HeldInv => HeldOnce
    BY DEF HeldInv, PhaseInv, HeldOnce
  <1> QED
    BY <1>1, HeldInvariant, PTL
=============================================================================
