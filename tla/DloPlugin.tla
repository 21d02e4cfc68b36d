----------------------------- MODULE DloPlugin ------------------------------
(***************************************************************************)
(* The output plugins of a light program: DLO_DeluxeUSB.c over the         *)
(* firmware of Mux2, DLO_UsbPrn.c over a printer adapter, DLO_Parallel.c   *)
(* over a port.  Two threads: the program's, which calls the exported      *)
(* functions and runs the dialog, and the one of the multimedia timer,     *)
(* which compares the state of the channels with the one it sent last.     *)
(* They share globals without a lock, and a killed timer procedure may     *)
(* still be under way.  A channel is <<row, lamp>>; the eight channels of  *)
(* the smaller plugins are handled as rows, too.                           *)
(***************************************************************************)
EXTENDS Mux2, FiniteSets

CONSTANTS
    Plugins,  \* subset of {"DeluxeUSB", "UsbPrn", "Parallel"}
    Addrs,    \* port addresses
    Bounds    \* how often: data | reopen | start | fault

ASSUME PluginAssumption ==
    /\ Plugins \subseteq {"DeluxeUSB", "UsbPrn", "Parallel"} /\ Addrs # {}
    /\ Bounds \in [{"data", "reopen", "start", "fault"} -> Nat]

VARIABLES
    plugin,
    PortState,
    NewState,  \* static variable of the timer procedure
    tpc,       \* timer procedure: idle | copy | check | write | data
    usbHandle, CurAddr,
    timers,    \* timer events set and not killed
    port,      \* the address the timer procedure has read, of DLO_Parallel
    inited,    \* external: between DLO_init and DLO_done
    apc,       \* program: idle | open | dark | event | kill | close | clear
    again,     \* the dialog re-opens the device
    handles,   \* external: handles held on the device
    orphans,   \* history: handles that DLO_init has found in usbHandle
    plugged, reaches, \* external: the device is there; usbHandle was opened on it
    latch,     \* external: outputs of the adapter, and of the port at an address
    lost,      \* history: what was sent last did not arrive or is not there any more
    left       \* of the bounds

globals == <<usbHandle, CurAddr, timers>>
program == <<plugin, inited, again>>
timer == <<NewState, tpc, port>>
held == <<handles, orphans>>
device == <<plugged, latch>>
vars == <<PortState, globals, program, apc, timer, held, reaches, device, lost, left, mux>>

Init ==
    /\ plugin \in Plugins /\ MuxInit
    /\ PortState = Dark /\ NewState = Dark /\ usbHandle = FALSE /\ CurAddr \in Addrs
    /\ timers = 0 /\ apc = "idle" /\ again = FALSE /\ tpc = "idle" /\ inited = FALSE
    /\ port = CurAddr /\ handles = 0 /\ orphans = 0 /\ plugged = TRUE /\ reaches = FALSE
    /\ latch = [a \in Addrs |-> Dark] /\ lost = FALSE /\ left = Bounds

Use(what) == left[what] > 0 /\ left' = [left EXCEPT ![what] = @ - 1]
\* Something fails that is in order.
FaultIf(inOrder) == IF inOrder THEN Use("fault") ELSE UNCHANGED left
Usb == plugin # "Parallel"
Held == IF usbHandle THEN 1 ELSE 0

(***************************************************************************)
(* The program's thread.                                                   *)
(***************************************************************************)
DLO_datain(ch, val) ==
    /\ apc = "idle" /\ Use("data")
    /\ val <=> (ch[2] \notin PortState[ch[1]])
    /\ PortState' = [PortState EXCEPT ![ch[1]] = IF val THEN @ \cup {ch[2]} ELSE @ \ {ch[2]}]
    /\ UNCHANGED <<globals, program, apc, timer, held, reaches, device, lost, mux>>

\* DLO_init of the USB plugins opens the device and forgets the handle that
\* usbHandle may hold, from the dialog; the one of DLO_Parallel loads a
\* library and, when that succeeds, sets the timer.
DLO_init ==
    /\ apc = "idle" /\ ~inited /\ inited' = TRUE /\ Use("start")
    /\ Usb /\ apc' = "open" /\ orphans' = orphans + Held
    /\ UNCHANGED <<PortState, globals, plugin, again, timer, handles, reaches, device, lost, mux>>
DLO_init_Parallel ==
    /\ apc = "idle" /\ ~inited /\ inited' = TRUE /\ Use("start")
    /\ ~Usb /\ timers' \in {timers, timers + 1}
    /\ UNCHANGED <<PortState, usbHandle, CurAddr, plugin, again, apc, timer, held, reaches,
                   device, lost, mux>>

\* The device, when it is there and lets itself be opened; whatever else was
\* opened on the way is closed.
OpenUsbHid ==
    \/ plugged /\ usbHandle' = TRUE /\ handles' = handles + 1 /\ reaches' = TRUE /\ UNCHANGED left
    \/ usbHandle' = FALSE /\ reaches' = FALSE /\ UNCHANGED handles /\ FaultIf(plugged)

\* A printer adapter is not shared for writing: it refuses a second handle,
\* but not when the first dates from before it was unplugged.
OpenUsbPort ==
    \/ /\ plugged /\ UNCHANGED left
       /\ usbHandle' = TRUE /\ handles' = handles + 1 /\ reaches' = TRUE
    \/ /\ usbHandle' = FALSE /\ reaches' = FALSE /\ UNCHANGED handles
       /\ FaultIf(plugged /\ handles = 0)

\* The device is opened; DLO_UsbPrn sets the timer only when there is one.
Open ==
    /\ plugin = "DeluxeUSB" /\ apc = "open" /\ OpenUsbHid
    /\ apc' = (IF again THEN "idle" ELSE "dark") /\ again' = FALSE
    /\ UNCHANGED <<PortState, CurAddr, timers, orphans, plugin, inited, timer, device, lost, mux>>
Open_UsbPrn ==
    /\ plugin = "UsbPrn" /\ apc = "open" /\ OpenUsbPort
    /\ apc' = (IF usbHandle' THEN "event" ELSE "idle") /\ again' = FALSE
    /\ UNCHANGED <<PortState, CurAddr, timers, orphans, plugin, inited, timer, device, lost, mux>>

\* OutPortState(0): at the start all lamps are switched off, after what the
\* timer procedure has on the way to the device.  It may fail unnoticed.
DarkAtStart ==
    /\ apc = "dark" /\ apc' = "event"
    /\ \/ usbHandle /\ reaches /\ tpc # "data" /\ usbFunctionWrite(Dark)
          /\ lost' = (NewState # Dark) /\ UNCHANGED left
       \/ FaultIf(usbHandle /\ reaches) /\ UNCHANGED <<mux, lost>>
    /\ UNCHANGED <<PortState, globals, program, timer, held, reaches, device>>

timeSetEvent ==
    /\ apc = "event" /\ apc' = "idle" /\ timers' = timers + 1
    /\ UNCHANGED <<PortState, usbHandle, CurAddr, program, timer, held, reaches, device, lost,
                   left, mux>>

\* DLO_done: the timer is killed, the handle closed and forgotten.
\* DLO_UsbPrn has nothing to do without a device.
DLO_done ==
    /\ apc = "idle" /\ plugin # "UsbPrn" /\ inited /\ inited' = FALSE /\ apc' = "kill"
    /\ UNCHANGED <<PortState, globals, plugin, again, timer, held, reaches, device, lost, left, mux>>
Leave == apc' = IF usbHandle THEN "kill" ELSE IF again' THEN "open" ELSE "idle"
DLO_done_UsbPrn ==
    /\ apc = "idle" /\ plugin = "UsbPrn" /\ inited /\ inited' = FALSE /\ UNCHANGED again /\ Leave
    /\ UNCHANGED <<PortState, globals, plugin, timer, held, reaches, device, lost, left, mux>>

KillTimer ==
    /\ apc = "kill" /\ timers' = (IF timers > 0 THEN timers - 1 ELSE 0)
    /\ apc' = IF Usb THEN "close" ELSE "idle"
    /\ UNCHANGED <<PortState, usbHandle, CurAddr, program, timer, held, reaches, device, lost, left, mux>>

\* Mutant: the re-open forgets the handle it has.
CloseUsbForgets ==
    /\ apc = "close" /\ handles' = (IF usbHandle /\ ~again THEN handles - 1 ELSE handles)
    /\ reaches' = FALSE /\ apc' = (IF again /\ plugin = "DeluxeUSB" THEN "open" ELSE "clear")
    /\ UNCHANGED <<PortState, globals, program, timer, orphans, device, lost, left, mux>>

CloseUsb ==
    /\ apc = "close" /\ handles' = (IF usbHandle THEN handles - 1 ELSE handles)
    /\ reaches' = FALSE /\ apc' = (IF again /\ plugin = "DeluxeUSB" THEN "open" ELSE "clear")
    /\ UNCHANGED <<PortState, globals, program, timer, orphans, device, lost, left, mux>>

ClearUsb ==
    /\ apc = "clear" /\ usbHandle' = FALSE /\ apc' = IF again THEN "open" ELSE "idle"
    /\ UNCHANGED <<PortState, CurAddr, timers, program, timer, held, reaches, device, lost, left, mux>>

\* The dialog, whether the plugin has been started or not: DLO_DeluxeUSB
\* closes and re-opens under the running timer, DLO_UsbPrn calls DLO_done
\* and DLO_init, DLO_Parallel stores an address.
ConfigDlgProc ==
    /\ apc = "idle" /\ plugin = "DeluxeUSB" /\ Use("reopen")
    /\ again' = TRUE /\ apc' = "close"
    /\ UNCHANGED <<PortState, globals, plugin, inited, timer, held, reaches, device, lost, mux>>
ConfigDlgProc_UsbPrn ==
    /\ apc = "idle" /\ plugin = "UsbPrn" /\ Use("reopen")
    /\ again' = TRUE /\ Leave
    /\ UNCHANGED <<PortState, globals, plugin, inited, timer, held, reaches, device, lost, mux>>
SaveAddr ==
    /\ apc = "idle" /\ plugin = "Parallel" /\ Use("reopen")
    /\ CurAddr' \in Addrs /\ lost' = (lost \/ CurAddr' # CurAddr)
    /\ UNCHANGED <<PortState, usbHandle, timers, program, apc, timer, held, reaches, device, mux>>

(***************************************************************************)
(* The timer's thread.                                                     *)
(***************************************************************************)
Others == <<PortState, globals, program, apc, held, reaches, plugged>>

\* if (NewState != PortState)
TimerProc ==
    /\ tpc = "idle" /\ timers > 0 /\ NewState # PortState /\ tpc' = "copy"
    /\ UNCHANGED <<Others, NewState, port, latch, lost, left, mux>>

\* OutPortState(NewState = PortState): PortState is read a second time.
Copy ==
    /\ tpc = "copy" /\ NewState' = PortState /\ tpc' = "check"
    /\ UNCHANGED <<Others, port, latch, lost, left, mux>>

\* if (usbHandle): without one the state is dropped.  DLO_Parallel reads the
\* address.
Check ==
    /\ tpc = "check"
    /\ IF Usb /\ ~usbHandle THEN tpc' = "idle" /\ lost' = TRUE ELSE tpc' = "write" /\ UNCHANGED lost
    /\ port' = IF Usb THEN port ELSE CurAddr
    /\ UNCHANGED <<Others, NewState, latch, left, mux>>

Arrives == latch' = [latch EXCEPT ![port] = NewState] /\ lost' = (port # CurAddr)
Misses == lost' = TRUE /\ UNCHANGED latch

\* HidD_SetFeature reaches the device with its SETUP packet.
OutPortState ==
    /\ tpc = "write" /\ plugin = "DeluxeUSB"
    /\ \/ reaches /\ tpc' = "data" /\ UNCHANGED <<latch, lost, left>>
       \/ tpc' = "idle" /\ Misses /\ FaultIf(reaches)
    /\ UNCHANGED <<Others, NewState, port, mux>>

\* WriteFile writes, or after 10 ms the write is given up and the device
\* reset.
OutPortState_UsbPrn ==
    /\ tpc = "write" /\ plugin = "UsbPrn" /\ tpc' = "idle"
    /\ \/ reaches /\ Arrives /\ UNCHANGED left
       \/ Misses /\ FaultIf(reaches)
    /\ UNCHANGED <<Others, NewState, port, mux>>

Out32 ==
    /\ tpc = "write" /\ plugin = "Parallel" /\ tpc' = "idle" /\ Arrives
    /\ UNCHANGED <<Others, NewState, port, left, mux>>

\* Mutant: the state is noted as sent after it has been sent, and read anew.
DataNotes ==
    /\ tpc = "data" /\ tpc' = "idle" /\ NewState' = PortState
    /\ IF reaches THEN usbFunctionWrite(NewState) /\ lost' = FALSE ELSE lost' = TRUE /\ UNCHANGED mux
    /\ UNCHANGED <<Others, port, latch, left>>

\* The data packet arrives, unless the device has gone or the handle has
\* been closed.
Data ==
    /\ tpc = "data" /\ tpc' = "idle"
    /\ IF reaches THEN usbFunctionWrite(NewState) /\ lost' = FALSE ELSE lost' = TRUE /\ UNCHANGED mux
    /\ UNCHANGED <<Others, NewState, port, latch, left>>

(***************************************************************************)
(* The devices.                                                            *)
(***************************************************************************)
Host == <<PortState, globals, program, apc, timer, held>>
Firmware == plugin = "DeluxeUSB" /\ plugged
Light == Firmware /\ DoMux /\ UNCHANGED <<Host, device, reaches, lost, left>>
Animate == Firmware /\ AutoPlay /\ UNCHANGED <<Host, device, reaches, lost, left>>

\* The bus is suspended and resumed: the device comes up without an address.
Suspend ==
    Firmware /\ main /\ Use("fault") /\ lost' = TRUE /\ reaches' = FALSE /\ UNCHANGED <<Host, device>>

Unplug ==
    /\ Usb /\ plugged /\ Use("fault") /\ plugged' = FALSE /\ reaches' = FALSE /\ lost' = TRUE
    /\ reportBuffer' = NoLamps /\ AutoT' = 0 /\ MuxK' = 0 /\ lamps' = Dark
    /\ latch' = [a \in Addrs |-> Dark]
    /\ UNCHANGED Host
Plug ==
    /\ Usb /\ ~plugged /\ plugged' = TRUE
    /\ UNCHANGED <<Host, reaches, latch, lost, left, mux>>

Program ==
    Open \/ Open_UsbPrn \/ DarkAtStart \/ timeSetEvent \/ KillTimer \/ CloseUsb \/ ClearUsb
Timer ==
    TimerProc \/ Copy \/ Check \/ OutPortState \/ OutPortState_UsbPrn \/ Out32 \/ Data
Next ==
    \/ \E ch \in (1..Rows) \X Lamps, val \in BOOLEAN : DLO_datain(ch, val)
    \/ DLO_init \/ DLO_init_Parallel \/ DLO_done \/ DLO_done_UsbPrn
    \/ ConfigDlgProc \/ ConfigDlgProc_UsbPrn \/ SaveAddr \/ Program \/ Timer
    \/ Light \/ Animate \/ Suspend \/ Unplug \/ Plug

\* A call that has begun ends, the timer runs, the device gets its frames.
Spec == Init /\ [][Next]_vars /\ WF_vars(Program) /\ WF_vars(Timer) /\ WF_vars(Light)

(***************************************************************************)
(* Properties.                                                             *)
(***************************************************************************)
\* However starts, ends and dialogs follow each other, and whichever of them
\* fail to open the device: between calls usbHandle and the handles held on
\* the device agree, but for handles of the dialog that a start has found
\* and overwritten; DLO_DeluxeUSB has its one timer exactly while it is
\* started, DLO_UsbPrn one timer with each handle, DLO_Parallel one at most.
HeldOnce ==
    apc = "idle" =>
        /\ handles = Held + orphans
        /\ plugin = "DeluxeUSB" => timers = IF inited THEN 1 ELSE 0
        /\ plugin = "UsbPrn" => timers = handles
        /\ plugin = "Parallel" => timers <= IF inited THEN 1 ELSE 0

\* What one sees settles to what the program set last, while the plugin
\* runs and the state it sent last was not lost: every change is seen by
\* the timer, although PortState is read twice and written in between.
Shown ==
    IF plugin = "DeluxeUSB" THEN lamps = PortState ELSE latch[CurAddr] = PortState
Settles == <>[](timers > 0 /\ ~lost => Shown)
=============================================================================
