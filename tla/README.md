# A verification development for the USB repository

The repository collects code around USB: a HID and a libusb experiment written
in Factor (`src/windows`, `src/linux`, `src/usb-test`), and under `src/doc` the
projects they build on: the DeluxeUSB LED boxes with the V-USB software driver,
the usb2lpt5 adapter, hid_listen, the parapin parallel port library, DiscoLitez
plugins, and pyusb. This directory models the parts with behaviour that is hard
to test. Everything is plain TLA+, checked with TLC and, where a theorem is
listed, proved with TLAPS.

## Inventory

| Part | State it keeps | Operations | Talks to | Model |
|---|---|---|---|---|
| V-USB driver, endpoint 0 (`usbdrv.c`, `asmcommon.inc`, `usbdrvasm165.inc`) | two halves of the receive buffer, `usbRxLen`, `usbCurrentTok`, `usbTxLen`, `usbTxBuf`, `usbMsgPtr/Len/Flags`, addresses | the interrupt routine (SETUP, OUT, IN tokens, data), `usbPoll` and what it calls | interrupt and main loop share memory; the host by packets; the application by calls | `UsbPid`, `UsbDrv`, `UsbHost`, `ControlPipe` |
| V-USB driver, interrupt-in endpoint | `usbTxStatus1` | `usbSetInterrupt`, `handleIn1`, `usbResetDataToggling` | the same interrupt routine | `UsbPid`, `UsbIntr` |
| DeluxeUSB firmware (`DeluxeUSB.c`) | `reportBuffer`, `offset`, `LedOn`, `LedOO`, `AutoT`, the '595 chain | `usbFunctionSetup`, `usbFunctionWrite`, `AutoPlay`, `main` after a reset | called by the driver; watchdog; suspend | `DeluxeUSB` |
| HID I/O in Factor (`windows/hid/hid.factor`) | the `hds` tuple: handle, OVERLAPPED, `devreadpending`, buffers | `hid-open`, `hid-close`, `hid-read`, `hid-write` | overlapped I/O of Windows | `HidIo` |
| HID enumeration in Factor (same file) | loop index, `devcount`, open handle, result vector | `hid-enumerate`, `hid-find-devices`, `hid-get-name` | SetupDi and HidD calls | `HidEnum` |
| DeluxeUSBmux2 firmware (`DeluxeUSBmux2.c`) | `reportBuffer`, `AutoT`, `MuxK`, the lit row | `usbFunctionWrite`, `AutoPlay`, multiplexing, `main` after a reset | the same driver, byte for byte; the plugin | `Mux2` |
| Plugins `DLO_DeluxeUSB`, `DLO_UsbPrn`, `DLO_Parallel` | `PortState`, `NewState`, `usbHandle`, `CurAddr`, `TimerId` | `DLO_init`, `DLO_done`, `DLO_datain`, the dialog, the timer procedure | two threads share globals without a lock; the firmware above, a printer adapter, a port | `DloPlugin` |
| usb2lpt5 firmware (`usb2lpt5.c`) | the registers of an ECP port, `Fifo`, `PendingByte`, `gReplyLen`, `ExpectEP1OutToken`, `Feature` in EEPROM | registers, `ProcessInOut`, endpoint 1, requests, the transfers over the cable | host packets; a peripheral that moves at any time | `LptPort`, `Usb2Lpt`, `LptFifo` |
| hid_listen (`hid_listen.c`, `rawhid.c`) | the device node it holds, per-platform state of a read | open, read with timeout, close, the endless loop | devices that come, go and fail on Linux, Mac OS X and Windows | `RawHid` |
| parapin (`parapin.c`, its headers, `parapindriver.c`, `parapin_py.c`) | the masks of inputs and outputs; `parapin_dev`, use count; Python's `Pin` and `Port` | pins, directions, initialisation, the character device, the Python module | port latches; the outside pulls pins; other drivers | `Parapin`, `ParapinUse` |
| zena (`zena-0.4.3.c`) | channel, `nbytes`, packet under assembly, `exit_flag`, `packet_len_plus_2` | open, tune, flush, assemble, write, scan | a sniffer over libusb; SIGPIPE | `Zena` |
| libusb test program (`usb-test.factor`), Linux HID stub, hid-test, parapin Java and Ruby bindings, parashell, pyusb, libusb example, documents | | | | not modelled |

Where the difficulty lies:

* The interrupt routine preempts `usbPoll` between any two accesses to shared
  memory, and neither side ever waits for the other: ownership of a buffer is
  in one length byte (`usbRxLen`, `usbTxLen`, `usbTxLen1`).
* The host aborts, resets, repeats. The driver is written for a bus without
  errors and says so (`asmcommon.inc:164-171`), so the question is what survives
  an error.
* A watchdog reset in the middle of everything is the normal way into suspend.
* In `hid.factor` an I/O request outlives the word that issued it; in `rawhid.c`
  a read does when it times out.
* The plugins' timer procedure runs while the dialog closes, opens and ends.
* Port registers are shared: parapin and usb2lpt5 read, modify and write whole
  registers while the cable changes under them.
* zena puts transfers together that may be late, fail or belong to the channel
  tuned before.

Per component, correct means: buffers are never torn, every byte of a transfer
arrives once and in order at the right end, a transfer ends, and the address is
the one the host uses (driver); the LEDs show one whole report and it can be read
back (firmware); messages are whole, in order, not repeated (interrupt
endpoint); a successful read has read something new, and handles and buffers
belong to one request at a time (HID I/O); a scan returns the right devices and
releases what it took, whatever fails (enumeration); timers and handles
that are those of the plugin's state, and lamps that settle to what was set
(plugins); no lost word, no misread command and no line driven against the peripheral (usb2lpt5); no leaked handle, reports
in order, and a device that stays is found (hid_listen); inputs never driven and
read true, outputs that keep their level, a port given back (parapin); whole
records on the right channel (zena).

## Modules

### UsbDrv: the driver

One action per access to state the interrupt routine shares. `pc` is the position
in `usbPoll`: `PollRxLen`, then `RxBadSetup`, `RxSetup`, `RxAbort`, `RxRequest`,
`RxIgnoredOut`, `RxWrite` (`usbProcessRx`), `RxRelease`; `PollTxLen`, `TxBuild`,
`TxCopy`, `TxCrc`, `TxArm` (`usbBuildTxBlock`); `PollLine`, `PollReset`.
`IsrToken`, `IsrData`, `IsrIn` are whole executions of the interrupt routine,
which runs with interrupts disabled; their guards are the tests of `handleData`
and `handleIn` in the order of the code.

Abstractions: a byte is a pair (transfer it belongs to, position), which is all
the properties ask of it; the CRC is the data it was computed from, so that "the
CRC fits" is an equality; a packet is a record in one half of `usbRxBuf`. A
reset of the bus lasts longer than a call of `usbPoll`; `line` keeps whether a
call has begun and ended during it. The configuration is that of
`firmware/usbconfig.h`. `wLength` is at most 254: beyond that 8-bit `usbMsgLen_t`
reserves values, and no request of the firmware goes there.

In `UsbDrv` the application is the most general one that `usbdrv.h` allows
(`ReplyLens`, `WriteResults`). `served`, `promised`, `appGot`, `appVerdict` are
history variables.

### UsbHost: the driver on a bus

The host (external) runs control transfers as USB 1.1 prescribes: SETUP, data
stage with toggles, status stage, repetition after NAK or silence. It may abort a
transfer between any two transactions, reset the bus and talk to other devices.
Up to `MaxLoss` packets are lost: a token, a data packet, an answer, or the token
of another device's data. `losses` remembers in which transfer.

### ControlPipe: what the driver promises

Transfers without packets: numbered, served in order, data moved in chunks in
order, success only when all of it has arrived. `PipeSpec` in `UsbHost` is the
refinement.

### DeluxeUSB: the firmware

Extends `UsbHost`; `usbFunctionSetup` and `usbFunctionWrite` replace the general
application, and `AppContract` says that they are an instance of it. `AutoPlay`
runs between two calls of `usbPoll`. `Suspend`, `WatchdogReset`, `Wake`: the host
stops the bus (`suspended`), the main loop no longer feeds the watchdog, RAM is
cleared but `LedOn` survives in a register, the LEDs go dark, a bus reset wakes the
device. `reported` is a history variable: what has been copied out of
`reportBuffer` for the reply under way, over all its packets.

What the properties say of a bus that loses packets is what the code can keep. No
token clears `usbCurrentTok` and `usbFunctionWrite` does not look at toggles, so
after a single lost packet a SETUP packet can pass for the data of a report: a bus
reset, another device on the bus or a reply that fills its last packet is enough.
`ReportHeld` and the first half of `ReadBack` therefore speak of transfers that
lost nothing (`AfterLosses`), whatever was lost before; `LedsWhole` and the second
half of `ReadBack` of the time since a SET_REPORT that began after the last loss
has ended well (`Recovered`), since that report overwrites the buffer and the LEDs.

### UsbIntr: the interrupt endpoint

`usbSetInterrupt` step by step against `HandleIn1`; SET_INTERFACE resets the
toggle. `asks` tells programs that call `usbInterruptIsReady` first from those
that do not (`usb2lpt5.c:719`). `held` is the message in `usbTxStatus1`. The packet
identifiers and the test for a handshake are in `UsbPid`, which both endpoints
extend.

### HidIo: HID reads and writes in Factor

`hidOpen`, `hidClose`, `hidRead`, `hidWrite` with their failure branches; each is
one step, since its second system call (`CancelIo`, `CloseHandle`) only marks or
closes and a request may complete later either way. Windows (external) is
modelled from its use here: an OVERLAPPED has a status that starting a request
sets to pending and completing it sets to the result; `CancelIo` marks requests,
which complete later, aborted or not; a handle survives the device but reaches
it no more. `hid-close` closes only when `CancelIo` has succeeded, and `CancelIo`
fails only for what is no open handle: then nothing changes. `hid-open`
overwrites `devhandle` without a test, so a device may be opened twice, and the first
handle is never closed; nothing is claimed of that. `use` tells a reading program from
one that also writes. The one assumption on programs: one that only reads does
not open a device again while it is open with a read pending, since the code then
has two requests and one flag. `seen` keeps the two latest reports the program was
given.

### HidEnum: finding devices in Factor

One action per call of Windows in the loops of `hid-enumerate` and
`hid-find-devices`; the two share the actions, and differ in the attributes they
compare (`Attributes`), what they keep (`Preparsed`, `Caps`) and the limit
(`Limit`). What fails is a property of the interface (`devices`), and an interface
may be unplugged between any two calls (`gone`), which makes `CreateFile` and the
calls on an open handle fail. Locals that a later turn overwrites without reading
(`length`, `sz`, `devdetail`) are left out. `hid-get-name` opens and closes a device
between two scans.

### LptPort, Usb2Lpt, LptFifo: the usb2lpt5 firmware

`LptPort` has the registers as a record of sets of bits; `out0` to `out407` and
`in0` to `in407` are the functions of that name, `setbyte` and `getbyte` with
`afterget` the two tables. `Usb2Lpt` runs them: a step is one iteration of
`ProcessInOut` (`DoIn`, `DoHalf`, `DoOut`), of `waitbit`, or of the main loop
(`SppXfer`, `EcpXfer`, `SaveFeature`); packets, repeated packets, requests and the
peripheral come between any two. `profile` selects what the program on the host
does. `Restart` clears memory and keeps the `Feature` byte. `LptFifo` is the
abstract queue, and `FifoQueue` the refinement: the contents between `fifor` and
`fifow` are its queue, the word `GetFifo` returned last is its `last`, so that a step
which loses or repeats a word is none of its steps, and `epoch` changes with each
write to ECR and with a restart, the only steps that may empty it at once. A word has
nine bits; the ninth tells data from addresses. ECP output drives it on AF, ECP
input takes it from BSY; SPP output has the data lines only, and a register is read as
eight bits: `Arriving` says what arrives of a word. `spoilt` exempts what the code
does not maintain: after
register 404 has set the drivers by hand, and, for the simulated open
collectors, after a FIFO or EPP cycle has changed `PORTD` alone. `Bits` takes a byte
apart with the table `Weight` of the eight powers of two. `usbFunctionSetup`'s
reset of the toggle for SET_FEATURE (lines 620-622) is not modelled: the driver
in the repository answers standard requests itself and hands over class and vendor
requests only (`usbdrv.c:446-451`), so it is not reached.

### Mux2 and DloPlugin: lamps behind a plugin

`DloPlugin` has one action per access of either thread to a shared global. The
timer procedure reads `PortState` (`TimerProc`), reads it again and notes it
(`Copy`), tests `usbHandle` (`Check`) and writes (`OutPortState`, then `Data` when
the report reaches the firmware of `Mux2`; `DLO_Parallel` reads `CurAddr` in
`Check` and writes the port in `Out32`); starts, ends and the dialog are `Open`,
`DarkAtStart` (`OutPortState(0)`, which may fail), `timeSetEvent`, `KillTimer`,
`CloseUsb`, `ClearUsb` in the orders of the three plugins. The dialog may be opened
at any time, before `DLO_init` as well; `DLO_init` then overwrites the handle it has
left, and `orphans` counts those. `timeSetEvent` is taken to succeed. The device is
unplugged, suspended or refuses. `lost` remembers that the state sent last did not
arrive, or that the lamps were switched off by a second `DLO_init` while `NewState`, a
static variable, still holds the state before: the code neither notices nor repairs
either.

### RawHid: hid_listen

Three programs, as the three systems compile them, one action per call that may
fail: the loop over `/dev/hidraw*`, which closes a rejected candidate in its next
round (`linux_open`, `linux_ioctl`, `linux_malloc`); the HID manager of Mac OS X with
its callbacks (`darwin_open`, `darwin_malloc`); the SetupDi loop of Windows, where each
failure has a `CloseHandle` of its own and, from `HidP_GetCaps` on, frees the
preparsed data (`windows_open`, `HidD_GetAttributes`, `HidD_GetPreparsedData`,
`HidP_GetCaps`, `windows_malloc`), and its overlapped read. Devices are plugged,
unplugged and fail at any step; one on Windows may differ in the usage page
("other") or in the usage alone ("alike"). `infos` counts the device lists of
Windows: a failed attempt destroys its list, a successful one keeps it. `managers`
counts the HID managers of Mac OS X: no path closes or releases one. A removal
between the open and the registration of `unplug_callback` is taken to be delivered
when the callback is there.

### Parapin and ParapinUse

`Parapin` is the library: functions on the record of latches and masks. A pin is
a bit of the three registers side by side, as in `parapin.h`; inverted pins and
open collectors are in `Levels`, `INB`, `Flip`. `ParapinUse` has the two ways to
use it: processes at the character device, with kernels before and from 2.6, and
the Python module with its `Pin` and `Port` objects, where a pulse spends time
between two levels. Calls do not overlap, as the kernel lock and Python's own
lock see to, and pins are pulled at any time. A call, which takes microseconds,
sees the outside unchanged.

### Zena

`setup_libusb_access`, `SendChannel`, `Flush`, `Loop`, then `UsbHex` or the assembly of
`zena_get_packet`. A transfer is a record that knows its packet, part and channel.
`Damaged` packets fail the checksum test: their records carry the value
`packet_len_plus_2` had before. The missing return statement of
`zena_set_channel` may end the program at any flush (`Undefined`). `mark` remembers
that the program has missed a part of a packet, or that a packet of the channel left
behind was still on the air when the flush ended, until there was silence. The
second is the bug the comment at `zena-0.4.3.c:656-660` describes: such a packet
is written with the new channel, and `Captured` exempts it.

## Runs

| Run | Bounds | Shows |
|---|---|---|
| `usb_host` | 3 transfers, packets of 2 bytes, replies of 0 to 4 bytes, 1 reset, aborts, foreign tokens, no loss | buffers whole (`RxStable`, `TxWhole`), bytes once and in order (`ControlIn`, `ControlOut`), same address on both sides (`AddrAgree`), no refused SETUP (`SetupWelcome`), every transfer ends (`TransferEnds`), implements `ControlPipe` (`PipeSpec`) |
| `usb_host_retry` | 2 transfers, SET_ADDRESS may be given up without reset | violation of `AddrAfterStatus` |
| `deluxe_usb` | 2 transfers of GET_REPORT, SET_REPORT (3 bytes) and another class request, aborts, 1 loss, 1 bus reset, 3 ticks with a hold of 2 and a wrap at 2, 1 watchdog reset | `LedsWhole`, `ReportHeld`, `ReadBack`, `StandbyDark`, `AppContract` |
| `usb_intr` | 4 messages | `MessageWhole`, `InOrder`, `AskedArrive`, `LastArrives` |
| `usb2lpt` | FIFO of 2; 3 programs over all registers; commands of 5 bytes in packets of up to 3; 4 words each way | `DataDirection`, `Handshake`, `StreamParsed`, `FifoQueue` (refinement), `FifoDrains` |
| `dlo_plugin` | 3 plugins, 2 rows of 1 lamp, 2 addresses, 2 changes, 1 dialog, 2 starts, 1 fault | `HeldOnce`, `Settles` |
| `hid_io` | 3 opens by programs that only read, 1 by programs that also write, 3 reports, 2 outstanding requests, a ring of 2 | `ReportsFresh`, `OneRequest`, `ReadEnds` |
| `hid_io_write` | 1 open, 2 reports | violation of `ReadSucceeds` |
| `hid_enum` | up to 3 interfaces of 6 kinds, `DEV_NUM` 1, any number of calls | `FoundRight`, `NothingHeld`, `CallEnds` |
| `raw_hid` | 3 systems, nodes 0 to 2, 3 plugs, 3 reports, 1 failure without a cause, managers counted up to 2 | `NothingLeaks`, `ReportsInOrder`, `ListensAgain` |
| `parapin` | 2 data pins, 1 status pin, 1 inverted control pin and the two mode bits; 2 processes, 2 opens, both kernels; Python with 4 masks and pulses of up to 2 levels | `InputsFree`, `InputsTrue`, `LevelsKept`, `PortReturned` |
| `zena` | 2 channels, 4 sets of options, 2 packets of 1 or 3 transfers, the first of which may be damaged, 1 fault | `Captured`, `Leaves` |

Type invariants are proved (`UsbHost`, `UsbIntr`, `HidEnum`, `HidIo`, `Usb2Lpt`, `Zena`)
or part of the proved invariants (`Parapin`, `DloPlugin`, `DeluxeUSB`, `RawHid`); the runs spend their time on the
properties above.

Why the bounds are enough. `MaxPkt` 2 with lengths 0 to 4 gives no packet, a
partial one, full ones, and a full last one with and without the empty packet
after it, as 8 does with the real lengths. Three transfers are the least in
which one is given up, one runs over its remains and one comes after; state of a
transfer is overwritten by the next SETUP, so nothing reaches further. One loss
gives every single error, in the first transfer with the second one to show the
recovery; the theorems have no bound on losses.
Each tick of `AutoPlay` counts the hold down or moves the chain by one; with a hold
of 2 the first tick after a report must leave the chain alone, and the third
moves it. In `hid_io` the second open meets the late completions of the first, and
the third opens a device that is open. In `hid_enum` a limit of 1 with 3 interfaces
gives scans that end early, exactly at the end, and not at all. A FIFO of 2
words is empty, half full and full, and wraps at every second word; 4 words pass
it twice. Packets of 1 to 3 bytes cut every command before, in and after, and 5
bytes are two commands and a half. In `dlo_plugin` one dialog and a second start
each meet a timer procedure at every step, and the dialog comes before, between
and after them. In `raw_hid` node 0 is there because
the code tests `fd > 0`, and three nodes make a round with a device before and
after a failing one. In `parapin` one pin of each kind, and two of the data
port, is what an operation can mistake for another. In `zena` a packet of one
and one of three transfers is what the assembly distinguishes, and a third
channel would be tuned as the second is.

The runs of `usb2lpt`, `dlo_plugin` and `zena` do not check deadlock: their programs
stop when the bounds are used up or the program has ended.

Fairness. `FairSpec` of `UsbHost`: weak fairness of `usbPoll`, which the endless
loop of `main` calls, and of a host that wants its transfer to end. Nothing is
assumed of aborts, resets or other devices. `UsbIntr`: the steps of
`usbSetInterrupt` run to their end, and the host polls endpoint 1. `HidEnum`: the
words are straight-line calls, so a call that has begun goes on. `HidIo`:
the program goes on calling `hid-read` and Windows completes what it can.
`Usb2Lpt`: the main loop goes on, and the peripheral follows the handshake of
IEEE 1284. `DloPlugin`: a call that has begun ends, the periodic timer fires, the
device gets its start-of-frame packets. `RawHid` and `Zena`: the program goes on;
nothing is assumed of the devices or SIGPIPE. Transfers and calls that fail
without a cause are finitely many (`MaxFaults`), and zena needs that: a transfer that
cannot be submitted leaves `nbytes` at 64, and while that goes on the flush
(`zena-0.4.3.c:291-296`) never ends, whatever `exit_flag` says.
`TransferEnds` is checked without losses only: the driver never repeats a lost
IN packet (`asmcommon.inc:164`), and such a transfer ends only when the host gives
it up.

## What the violations show

1. `usb_host_retry`: the interrupt routine loads the address with every data
   packet (`usbdrvasm165.inc:436-441`). A SET_ADDRESS given up before its status
   stage takes effect in the data stage of a later request; "should be set after
   status phase" (`usbdrv.c:27`) does not hold. A host that resets the bus after
   a failed SET_ADDRESS, as hosts do, never sees it.
2. `hid_io_write`: reads and writes share an OVERLAPPED; the completion of a write
   passes for that of the read.

Other places where the code and its documents part, found while modelling. The
models follow the code, and the properties are stated around them:

* A SET_REPORT shorter than the report leaves `usbFunctionWrite` at 0 for ever
  (`DeluxeUSB.c:140`), against `usbdrv.h:255-256`; its status stage is answered with
  NAK until the host gives up. The host of `deluxe_usb` sends whole reports.
* Without `usbInterruptIsReady` it is not always "the message already buffered"
  (`usbdrv.h:229-230`) that is lost: a message fetched between the test in
  `usbdrv.c:232` and the arming makes the new one repeat its identifier.
* `hid-find-devices` tests the limit after counting, with `DEV_NUM < devcount`
  (`hid.factor:396`): it returns one device more than `hid.factor:397` says.
* parapin claims the port exclusively (`parapin-linux.h:105-109`), but from Linux
  2.6 on a second open is not refused; when it fails it sets `parapin_dev` to
  NULL, and the first process's close no longer returns the port.
  `PortReturned` exempts this case.
* zena tests the checksum bit with `& 80`, decimal, which is bits 4 and 6
  (`zena-0.4.3.c:406`); records of packets that fail the test are written with the
  length of an earlier packet (`zena-0.4.3.c:753`), which `Captured` exempts; and
  `zena_set_channel` promises a result (line 247) and returns none.
* `OpenUsbHid` says "Use CloseHandle() to free the handle returned"
  (`DLO_DeluxeUSB.c:21`), but `DLO_init` overwrites `usbHandle` (line 148), which the
  dialog may have filled before: that handle is never closed. `HeldOnce` counts it
  apart.
* rawhid: the HID manager created and opened at `rawhid.c:305` and 335 is never
  closed, on any path; `NothingLeaks` does not claim it.
* usb2lpt5: requests 0x40/0x90 return 0, so the data stage that the comments at
  lines 654 and 668 promise to `usbFunctionRead` and `usbFunctionWrite` never comes.

## Proofs

The last part of `UsbHostProofs` is about the interrupt endpoint. It proves, for
every number of messages, that `IntrInv` is inductive. Besides types it says at which step the buffer, the CRC and the
packet identifier may differ, how the driver's toggle relates to the host's, and
that accepted messages are older than the waiting one; the invariants of the run
follow. Messages set by a program that asks need the fact that its buffer stays
empty from the call to `Arm`, since only `HandleIn1` touches it and finds a
handshake.

The rest of `UsbHostProofs` covers endpoint 0, its host and the firmware, in six
layers. None
bounds packets, requests, losses, resets or transfers; what a layer assumes of
the constants is named.

* Lemmas on the interrupt routine and on each step of `usbPoll`, independent of the
  host; the bus actions compose them. `DriverInv` is type correctness and the
  state of the transmit block at each `pc` (from `TxBuild` to `TxArm` the length is a
  handshake; outside, an armed block has its CRC, its length and bytes of the
  request in `served`). `TxWhole` alone is not inductive: it says nothing about a
  block under construction. `RxStable` is an action property: the interrupt routine
  writes only its own half while `usbRxLen` is not 0.
* `PipeInv` (`TransferInvariant`) adds both ends of a transfer. Either the host's
  SETUP still waits in the buffer (`Accepted`) or `usbProcessRx` has taken it up
  (`InService`), and then the bytes the host has, the toggle it expects, the block
  that is built or armed and what is left of the reply fit together (`Chain`), or,
  in a data stage to the device, what `usbFunctionWrite` has been given and what
  waits for it (`Writing`, `WriteInv`). It speaks of transfers whose losses are all
  earlier ones, so that it also proves that the driver recovers with the next
  SETUP. `ControlIn`, `ControlOut` and `SetupWelcome` follow.
* `AddrInv` says when the addresses of host and device may differ: after the answer
  in the status stage of SET_ADDRESS the host has taken the new one, and in a bus
  reset. `AddrAgree` and `AddrAfterStatus` need a host that does not go on after
  giving up a SET_ADDRESS (`~RetryAfterAddress`; the run `usb_host_retry` shows why)
  and SET_ADDRESS requests without a reply (`AddressHasNoReply`, USB 1.1).
* `PipeWithoutLosses` maps each step to a step of `ControlPipe` or a stutter, as long
  as nothing has been lost; `PipeImplemented` is the case of a bus that loses
  nothing. `RepliesAskedFor` says that GET requests of the host have direction "in":
  with the other direction the driver would reply to a control-out transfer.
* `DeluxeInv` carries the same invariants over to the firmware, its watchdog reset
  and the suspended bus. What a reset clears must not be needed after it:
  `ControlOut` is not part of `DeluxeInv`, since a reset clears the history it speaks
  of, and `PowerInv` places the reset between two transfers. `ContractInv` ties
  `offset` to the bytes given to `usbFunctionWrite`; `ReplyInv` has the reply add up.
  From it every step of the firmware is one of the general application
  (`AppContract`), provided that no SET_REPORT is shorter than the report
  (`WholeReports`): a shorter one leaves `usbFunctionWrite` at 0 for ever, as the
  section above says.
* `ReportInv` is about the data. It has three strengths, for what may have been lost.
  Always: the copy for GET_REPORT is a beginning of the buffer, which does not change
  meanwhile (`GetInv`). When the transfer in service lost nothing and began after
  every loss (`Trusted`): the first packet of a SET_REPORT carries all of it
  (`TakenInv`; a report is no longer than a packet, as `DeluxeAssumption` says:
  5 bytes, and packets of 8), buffer and LEDs then hold that report, and at the end
  the host's view is the firmware's (`OutcomeInv`). When `Recovered`: the buffer is a
  whole report not older than the last one set (`BufferInv`) and the chain is one
  report shifted (`LightInv`). The last is inductive only with the middle one: the
  step in which a SET_REPORT ends well is where it starts to hold. `Recovered`
  implies `Trusted` (`RecoveredAfter`), because transfers are served in order.
  `LedsShowOneReport`, `ReportIsHeld` and `ReadBackWhole` follow, with no hypothesis
  on losses. `StandbyDark` needs nothing of this.

`Usb2LptProofs` proves four properties of usb2lpt5 for any `FIFOSIZE`, any program,
any packets and any cable, from the assumptions of the modules alone.
`LptInvariant` has the types and `Directed`: wherever the program has not set the
drivers by hand, they follow bit 5 of DCR and the simulated open collectors.
Each register function is shown to keep it and to be such a move of the queue as
`FifoMove` lists; the tables `setbyte` and `afterget` and the actions compose them
(`RegistersStep`). The queue: `FifoOK` says that the bits empty and
full of ECR are what the indices make them, without which equal indices could
mean either; `Contents`, a sequence over arithmetic modulo `FIFOSIZE`, is then
cleared, or a word is taken at one end, put in at the other, or both
(`FifoIsQueue`, the refinement). `Handshake` says little of a
word on its way, so `WordsInv` follows it: in `OutInv` the words of the program are
those handed over so far (`g`), then the one on the lines, then the FIFO (`Flow`),
then the one in the command under way, and the peripheral has what arrives of `g`
(`Arriving`); `InInv` has the same in the other direction, with
the word the peripheral offers; `HostInv` has the drivers as the two programs need
them.

The fourth is `StreamParsed`, an induction over data. `Parse`, the reference
parser of a stream of bytes, is a recursive function. That every such function
exists and what it returns (`ParseIs`) is proved by induction over the length;
`SetInduction` states induction for sets of numbers, from the well-foundedness of
`<` on Nat (`WFMin` of the library), so that no theorem with an operator as
parameter is needed. `ParseAppend` then says what one more byte adds: it ends
a command or leaves one half read. `StreamInv` has the bytes received as those read so far
followed by what is left of the packet; the commands executed, and the half
command that waits in `PendingByte`, are the parse of the first (`Reads`), and the
toggle bits of the two sides agree, so that a packet repeated after a lost answer
is not taken again. `StreamParsed` alone says nothing in the middle of a packet.

`HidEnumProofs` proves all safety properties of `HidEnum`. `EnumInv` adds to them
what a turn knows of its interface at each call (`TurnOK`), that exactly the handle
of this turn is open (`HandleOK`), that the results come from turns that are over
(`FoundOK`) and that no wanted interface among those has been passed over
(`NoneMissed`). `FoundRight` is not inductive: it speaks of the end of a scan only.
`PreparsedOK` needs the order of the snapshot, since a block leaked in an earlier
turn must not be on this turn's interface.

`HidIoProofs` proves the safety properties of `HidIo`. `IoInv` ties handles,
OVERLAPPEDs and requests together: the current handle, if open, and the current
OVERLAPPED are those of the last open, handles overwritten earlier may still be
open, requests live on OVERLAPPEDs that exist, and a reader has a request on the
current OVERLAPPED only while its status is pending. `FreshInv` adds the order of
the reports: the ring of the open handle, the buffer of a read that is complete
but not collected, and the reports the program has had ascend in this order
(`Within`). `ReportsFresh` alone does not survive a completion.

`RawHidProofs` proves `NothingLeaks` for any nodes and faults: `HandleInv` says for
each call of an attempt what is open, whether the preparsed data are held, and that
Windows holds one list more than it has returned devices. Between two candidates
only the descriptor of the round before is open, on Linux only.
`OrderInv` is the order of the reports, for any number of them: on Linux and Mac
OS X what was printed and what the system queues are all reports, on Mac OS X
followed by the removal of a device that is gone (`PosixOrder`); on Windows, where
a read that timed out may take its report with it, what was printed comes before
the read under way and that before the queue (`WindowsOrder`).

`DloPluginProofs` proves `HeldOnce`: `PhaseInv` says for each step of a call, and
for each plugin, how the handles held, the ones overwritten and the timers relate to
`usbHandle`; the timer procedure changes none of them.

`ZenaProofs` proves `Captured` for any channels, packets and faults. The property
speaks of records already written; `CaptureInv` says what is still to come. The
transfers in the queue of the sniffer, followed by those still on the air, are
consecutive parts of consecutive packets (`InARow`); while `mark` is not "on", that
is while no part of a packet is missing, in the loop they are of the channel the
program is tuned to, what they begin with continues the packet under assembly
(`Begun`, `Before`), or begins one if there is none (`Beginning`), and without a
scan or a filter the record written last ends right before it. The
flush that follows each change of channel makes this true again: it ends when
the queue is empty, and `mark` is then "on" if the air still holds the rest of a
packet or one of another channel.

`ParapinProofs` proves the four properties of `ParapinUse` for any pins, masks and
processes. Writing the control register latches exactly the value written
(`WriteControl`, with the inversion), every operation on it adds the switchable
inputs (`Safe`), and reading `LP_INPUT_MODE` back gives the latch, so that only a
change of direction changes it (`SameMode`); a change of direction is not ignored
because the mode bits are outputs of the library since it was initialised
(`Ready`). From the invariant an input reads as its level; the integer that the Python
function `pin_is_set` returns is the whole word, since `Py_BuildValue("b")` of Python 2
makes an integer of the C `int` without cutting it. `LevelsKept` rests on
`LevelInv`: a call rewrites a whole register with what it reads, and what it reads
is what the outputs latch except for pins pulled low (`Same`), provided the data
port is driven while it has outputs (`Driven`) and no pin but the mode bits is
input and output at once (`Apart`). `PortReturned` rests on `ReturnInv`: while a
process has the device the remembered interrupt bit is the one found at the open,
and it stays an output, so that the release can write it; the assumption that
`None` is no process is needed here.

## What is only model-checked

* Liveness: `TransferEnds`, `LastArrives`, `ReadEnds`, `CallEnds`, `FifoDrains`,
  `Settles`, `ListensAgain`, `Leaves`. Fairness needs ENABLED, which is out of the
  prover's reach, so what needs it is not proved.
* `PipeSpec` after a loss is not claimed at all: the driver has no recovery within a
  transfer.

No project module declares a RECURSIVE operator: recursion is in recursive
functions, about which the provers can reason.

## What is not modelled and why

* Timing inside the interrupt routine (bit sampling, stuffing, the clock trim of
  `tuneOscillator`): cycle counts, outside of TLA+'s reach.
* usb2lpt5: the LED (lines 490-510), the memory requests A1 to A3, descriptors.
  `gReplyBuf` has 64 bytes and `gReplyLen` no limit, as line 602 admits; the model
  counts it and claims nothing.
* hid_listen: `rawhid_status`, `rawhid_write` and the list functions, which the
  program does not call; the contents of reports; what the kernel does to a
  buffer on the stack when a cancelled read completes into it.
* Plugins: the texts of the dialogs, the registry, the port tests of
  `DLO_Parallel`, and `FreeLibrary` under a running timer procedure.
* parapin: insertion and removal of the module, interrupt handlers, what
  `disable_irq` does beyond the port's enable bit (nothing undoes it), reference
  counts of the Python objects, the Java and Ruby bindings, the examples.
* zena: time stamps, messages, the kernel driver that is not attached again.
* The movement of Factor byte arrays by the garbage collector while Windows holds
  a pointer to them: it depends on the Factor runtime, which is not in the
  repository.
* pyusb is a vendored copy of a third-party library in Python, and its back ends
  declare native libraries; the libusb test program (`usb-test.factor`), the
  libusb example, parashell and the bindings are straight sequences of calls; the
  Linux HID stub does not parse and hid-test is empty; documents, drivers and
  schematics hold no code.

## Plan

Done: the core driver, the firmware, usb2lpt5 and the other components are
modelled and checked, and every safety property of a passing run is proved. What
would add most next:

* `ResourceManager` (pyusb `core.py:107-264`): handle, claimed interfaces, active
   configuration and endpoint cache under several threads and its lock.
