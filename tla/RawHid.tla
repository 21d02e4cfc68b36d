------------------------------- MODULE RawHid -------------------------------
(***************************************************************************)
(* rawhid.c and hid_listen.c: a program that waits for a HID device with   *)
(* debug output, opens the first one it finds, prints its reports until it *)
(* is unplugged and waits again; on Linux, Mac OS X and Windows.  Devices  *)
(* come and go between any two steps of the program and calls of the       *)
(* system fail, at most MaxFaults times where nothing but the system is to *)
(* blame.  A report is its number since the open.  Left out: the text of   *)
(* the reports, rawhid_status and rawhid_write (hid_listen calls neither), *)
(* the vendor and the product (hid_listen asks for any), and memory but    *)
(* for what happens when there is none.                                    *)
(***************************************************************************)
EXTENDS Integers, Sequences, FiniteSets

CONSTANTS
    Platforms,  \* subset of {"linux", "darwin", "windows"}
    Nodes,      \* the system's names for devices, numbers in order
    MaxPlugs, MaxReports, MaxFaults, \* bounds
    MaxManagers \* HID managers are counted up to here

ASSUME HidAssumption ==
    /\ Platforms \subseteq {"linux", "darwin", "windows"}
    /\ Nodes \subseteq Nat /\ IsFiniteSet(Nodes)
    /\ MaxPlugs \in Nat /\ MaxReports \in Nat /\ MaxFaults \in Nat /\ MaxManagers \in Nat

VARIABLES
    platform,
    present,  \* external: what is plugged at each node
    queue,    \* external: reports the system holds, and on Mac OS X Gone
    pc,       \* wait | open, attributes, preparsed, caps, memory | read, pending, cancel
    list,     \* nodes still to be tried
    fd,       \* the handle variable: node it was opened on
    open,     \* external: nodes the program has open
    hid_data, \* Windows: what the preparsed data tell of the device, or None
    infos,    \* external: device information lists held, of Windows
    managers, \* external: HID managers held, of Mac OS X
    io,       \* external: Idle | Pending | the report that completed the read
    got,      \* reports returned by rawhid_read since the open
    sent,     \* history: reports sent since the open
    opens,    \* history: attempts that returned a device
    plugs, faults

lists == <<infos, managers, opens>>
vars == <<platform, present, queue, pc, list, fd, open, hid_data, lists, io, got, sent, plugs, faults>>
world == <<platform, present, plugs>>
session == <<queue, io, got, sent>>

None == "none"  \* nothing is plugged
NoNode == -1
Idle == 0
Pending == -1
Gone == 0       \* in the queue: the removal callback
First(s) == CHOOSE n \in s : \A k \in s : n <= k
Listens(n) == present[n] = "listen"
Plugged == {n \in Nodes : present[n] # None}

\* With debug output, with another usage page, with another usage only.
Kinds == {"listen", "other", "alike"}

Init ==
    /\ platform \in Platforms
    /\ present = [n \in Nodes |-> None] /\ queue = <<>>
    /\ pc = "wait" /\ list = {} /\ fd = NoNode /\ open = {} /\ io = Idle
    /\ hid_data = None /\ infos = 0 /\ managers = 0 /\ opens = 0
    /\ got = <<>> /\ sent = 0 /\ plugs = 0 /\ faults = 0

Fault == faults < MaxFaults /\ faults' = faults + 1
NoFault == UNCHANGED faults

(***************************************************************************)
(* Opening.                                                                *)
(***************************************************************************)
\* A new attempt: on Linux every name is tried, elsewhere the system lists
\* what is plugged now.  Without a list the program waits a second.  Windows
\* hands out a list, Mac OS X a HID manager, which is not given back.
OneMore == IF managers < MaxManagers THEN managers + 1 ELSE managers
Start ==
    /\ pc = "wait"
    /\ \/ /\ NoFault /\ pc' = "open" /\ fd' = NoNode
          /\ list' = IF platform = "linux" THEN Nodes
                     ELSE IF platform = "windows" THEN Plugged
                     ELSE {n \in Nodes : Listens(n)}
          /\ infos' = IF platform = "windows" THEN infos + 1 ELSE infos
          /\ managers' = IF platform = "darwin" THEN OneMore ELSE managers
       \/ /\ platform # "linux" /\ Fault /\ UNCHANGED <<pc, list, fd, infos>>
          /\ \/ UNCHANGED managers
             \/ platform = "darwin" /\ managers' = OneMore
    /\ UNCHANGED <<world, session, open, hid_data, opens>>

\* An attempt that returns NULL, or the device: a device that has gone since
\* is removed on Mac OS X when the callback is there.
Failed == pc' = "wait" /\ UNCHANGED <<session, opens>>
Opened ==
    /\ pc' = "read" /\ opens' = opens + 1
    /\ queue' = (IF platform = "darwin" /\ present[fd] = None THEN <<Gone>> ELSE <<>>)
    /\ io' = Idle /\ got' = <<>> /\ sent' = 0
\* The attempt goes on.
On(step) == pc' = step /\ UNCHANGED <<session, opens>>
Skip(n) == list' = list \ {n} /\ On("open")
Blame(n) == IF Listens(n) THEN Fault ELSE NoFault
Close == open' = open \ {fd}

\* The loop over /dev/hidraw: the descriptor of the round before is closed
\* first, even when it has been closed already; stat and open.
linux_open ==
    /\ platform = "linux" /\ pc = "open" /\ list # {}
    /\ LET n == First(list)
           rest == open \ {fd}
       IN  \/ present[n] = None /\ Skip(n) /\ open' = rest /\ NoFault /\ UNCHANGED fd
           \/ present[n] # None /\ Skip(n) /\ open' = rest /\ fd' = NoNode /\ Blame(n)
           \/ /\ present[n] # None /\ list' = list \ {n} /\ On("attributes")
              /\ open' = rest \cup {n} /\ fd' = n /\ NoFault
    /\ UNCHANGED <<world, hid_data, infos, managers>>

\* The ioctls and the signature: what fails or differs is left open.
linux_ioctl ==
    /\ platform = "linux" /\ pc = "attributes"
    /\ \/ Listens(fd) /\ NoFault /\ On("memory")
       \/ Blame(fd) /\ On("open")
    /\ UNCHANGED <<world, list, fd, open, hid_data, infos, managers>>

linux_malloc ==
    /\ platform = "linux" /\ pc = "memory"
    /\ \/ Opened /\ NoFault /\ UNCHANGED open
       \/ Failed /\ Fault /\ Close
    /\ UNCHANGED <<world, list, fd, hid_data, infos, managers>>

\* The loop over the device interfaces: the details of the interface, then
\* CreateFile.
windows_open ==
    /\ platform = "windows" /\ pc = "open" /\ list # {}
    /\ LET n == First(list)
       IN  \/ Skip(n) /\ Blame(n) /\ UNCHANGED <<fd, open>>
           \/ Skip(n) /\ Blame(n) /\ fd' = NoNode /\ UNCHANGED open
           \/ /\ present[n] # None /\ list' = list \ {n} /\ On("attributes")
              /\ open' = open \cup {n} /\ fd' = n /\ NoFault
    /\ UNCHANGED <<world, hid_data, infos, managers>>

HidD_GetAttributes ==
    /\ platform = "windows" /\ pc = "attributes"
    /\ \/ present[fd] # None /\ NoFault /\ On("preparsed") /\ UNCHANGED open
       \/ Blame(fd) /\ On("open") /\ Close
    /\ UNCHANGED <<world, list, fd, hid_data, infos, managers>>

HidD_GetPreparsedData ==
    /\ platform = "windows" /\ pc = "preparsed"
    /\ \/ /\ present[fd] # None /\ NoFault /\ On("caps") /\ hid_data' = present[fd]
          /\ UNCHANGED open
       \/ Blame(fd) /\ On("open") /\ Close /\ UNCHANGED hid_data
    /\ UNCHANGED <<world, list, fd, infos, managers>>

\* Mutant: a device with another usage keeps its handle.
HidP_GetCapsLeaks ==
    /\ platform = "windows" /\ pc = "caps" /\ hid_data' = None
    /\ \/ Fault /\ On("open") /\ Close
       \/ hid_data = "other" /\ NoFault /\ On("open") /\ Close
       \/ hid_data = "other" /\ NoFault /\ On("open") /\ UNCHANGED open
       \/ hid_data = "listen" /\ NoFault /\ On("memory") /\ UNCHANGED open
    /\ UNCHANGED <<world, list, fd, infos, managers>>

\* HidP_GetCaps fails, the usage page differs, the usage differs, or this is
\* the device: the preparsed data are freed on each of the ways.
HidP_GetCaps ==
    /\ platform = "windows" /\ pc = "caps" /\ hid_data' = None
    /\ \/ Fault /\ On("open") /\ Close
       \/ hid_data = "other" /\ NoFault /\ On("open") /\ Close
       \/ hid_data = "alike" /\ NoFault /\ On("open") /\ Close
       \/ hid_data = "listen" /\ NoFault /\ On("memory") /\ UNCHANGED open
    /\ UNCHANGED <<world, list, fd, infos, managers>>

windows_malloc ==
    /\ platform = "windows" /\ pc = "memory"
    /\ \/ Opened /\ NoFault /\ UNCHANGED open
       \/ On("open") /\ Fault /\ Close
    /\ UNCHANGED <<world, list, fd, hid_data, infos, managers>>

\* The set of matching devices has no order: its first element is any.  A
\* device that cannot be opened, or for which there is no memory, ends the
\* attempt.
darwin_open ==
    /\ platform = "darwin" /\ pc = "open" /\ list # {}
    /\ \E n \in list :
        \/ Listens(n) /\ NoFault /\ On("memory") /\ fd' = n /\ open' = open \cup {n}
        \/ Blame(n) /\ Failed /\ UNCHANGED <<fd, open>>
    /\ UNCHANGED <<world, list, hid_data, infos, managers>>

darwin_malloc ==
    /\ platform = "darwin" /\ pc = "memory"
    /\ \/ Opened /\ NoFault /\ UNCHANGED open
       \/ Failed /\ Fault /\ Close
    /\ UNCHANGED <<world, list, fd, hid_data, infos, managers>>

\* Nothing was found: NULL.  Linux closes the last descriptor it tried,
\* Windows gives its list back.
NotFound ==
    /\ pc = "open" /\ list = {} /\ Failed /\ NoFault
    /\ IF platform = "linux" THEN Close ELSE UNCHANGED open
    /\ infos' = IF platform = "windows" THEN infos - 1 ELSE infos
    /\ UNCHANGED <<world, list, fd, hid_data, managers>>

(***************************************************************************)
(* Reading and closing.  A read that times out returns 0 and is repeated.  *)
(***************************************************************************)
Return(report) == got' = Append(got, report) /\ pc' = "read"

rawhid_close == Close /\ pc' = "wait"

\* Mutant: an I/O error is retried like an interrupted read.
linux_readRetries ==
    /\ platform = "linux" /\ pc = "read"
    /\ \/ queue # <<>> /\ Return(Head(queue)) /\ queue' = Tail(queue)
       \/ queue = <<>> /\ ~Listens(fd) /\ UNCHANGED <<pc, queue, got>>
    /\ UNCHANGED <<world, list, fd, open, hid_data, lists, io, sent, faults>>

\* read blocks; what was queued before the unplugging is still read.
linux_read ==
    /\ platform = "linux" /\ pc = "read"
    /\ \/ queue # <<>> /\ Return(Head(queue)) /\ queue' = Tail(queue) /\ UNCHANGED open
       \/ queue = <<>> /\ ~Listens(fd) /\ rawhid_close /\ UNCHANGED <<queue, got>>
    /\ UNCHANGED <<world, list, fd, hid_data, lists, io, sent, faults>>

\* Mutant: the run loop is run until nothing is left, as rawhid_status does.
darwin_readDrains ==
    /\ platform = "darwin" /\ pc = "read" /\ queue # <<>>
    /\ LET reports == SelectSeq(queue, LAMBDA e : e # Gone)
       IN  IF reports = <<>> THEN rawhid_close /\ UNCHANGED got
           ELSE Return(reports[Len(reports)]) /\ UNCHANGED open
    /\ queue' = <<>>
    /\ UNCHANGED <<world, list, fd, hid_data, lists, io, sent, faults>>

\* One turn of the run loop calls one callback, input_callback or
\* unplug_callback, and the read returns at once.
darwin_read ==
    /\ platform = "darwin" /\ pc = "read" /\ queue # <<>>
    /\ queue' = Tail(queue)
    /\ IF Head(queue) = Gone THEN rawhid_close /\ UNCHANGED got
       ELSE Return(Head(queue)) /\ UNCHANGED open
    /\ UNCHANGED <<world, list, fd, hid_data, lists, io, sent, faults>>

\* ReadFile: a report, an error, or a read that is pending.  CreateEvent
\* may fail.
windows_read ==
    /\ platform = "windows" /\ pc = "read"
    /\ \/ /\ NoFault /\ Listens(fd) /\ queue # <<>>
          /\ Return(Head(queue)) /\ queue' = Tail(queue) /\ UNCHANGED <<open, io>>
       \/ /\ NoFault /\ Listens(fd) /\ queue = <<>>
          /\ io' = Pending /\ pc' = "pending" /\ UNCHANGED <<open, queue, got>>
       \/ /\ IF Listens(fd) THEN Fault ELSE NoFault
          /\ rawhid_close /\ UNCHANGED <<queue, io, got>>
    /\ UNCHANGED <<world, list, fd, hid_data, lists, sent>>

\* WaitForSingleObject: the event is signalled, or 200 ms have passed.
windows_wait ==
    /\ pc = "pending"
    /\ \/ io # Pending /\ Return(io) /\ io' = Idle /\ UNCHANGED open
       \/ io = Pending /\ ~Listens(fd) /\ rawhid_close /\ io' = Idle /\ UNCHANGED got
       \/ io = Pending /\ pc' = "cancel" /\ UNCHANGED <<open, io, got>>
    /\ UNCHANGED <<world, list, fd, hid_data, lists, queue, sent, faults>>

\* CancelIo: a read that completed since the timeout is given up with it.
windows_cancel ==
    /\ pc = "cancel" /\ io' = Idle /\ pc' = "read"
    /\ UNCHANGED <<world, list, fd, open, hid_data, lists, queue, got, sent, faults>>

(***************************************************************************)
(* The system (external).  A name is not used again while it is open.      *)
(***************************************************************************)
Plug(n) ==
    /\ present[n] = None /\ n \notin open /\ plugs < MaxPlugs /\ plugs' = plugs + 1
    /\ \E kind \in Kinds : present' = [present EXCEPT ![n] = kind]
    /\ UNCHANGED <<platform, session, pc, list, fd, open, hid_data, lists, faults>>

Listening == pc \in {"read", "pending", "cancel"}

Unplug(n) ==
    /\ present[n] # None /\ present' = [present EXCEPT ![n] = None]
    /\ queue' = IF platform = "darwin" /\ Listening /\ fd = n THEN Append(queue, Gone) ELSE queue
    /\ UNCHANGED <<platform, plugs, pc, list, fd, open, hid_data, lists, io, got, sent, faults>>

Report ==
    /\ Listening /\ Listens(fd) /\ sent < MaxReports /\ sent' = sent + 1
    /\ IF io = Pending THEN io' = sent + 1 /\ UNCHANGED queue
       ELSE queue' = Append(queue, sent + 1) /\ UNCHANGED io
    /\ UNCHANGED <<world, pc, list, fd, open, hid_data, lists, got, faults>>

Program ==
    \/ Start \/ linux_open \/ linux_ioctl \/ linux_malloc
    \/ windows_open \/ HidD_GetAttributes \/ HidD_GetPreparsedData \/ HidP_GetCaps
    \/ windows_malloc \/ darwin_open \/ darwin_malloc \/ NotFound
    \/ linux_read \/ darwin_read \/ windows_read \/ windows_wait \/ windows_cancel
Next == Program \/ Report \/ \E n \in Nodes : Plug(n) \/ Unplug(n)

Spec == Init /\ [][Next]_vars
\* The program runs.
FairSpec == Spec /\ WF_vars(Program)

(***************************************************************************)
(* Properties.                                                             *)
(***************************************************************************)
\* Whatever fails while the devices are tried, and whichever of them go away
\* in between, an attempt that returns NULL has given back every handle, the
\* preparsed data and the list of devices, and one that succeeds has nothing
\* open but the device it returns: the program tries again every second, for
\* ever.  A success keeps its list on Windows, one for each; nothing is said
\* of the managers, of which each attempt on Mac OS X keeps one.
NothingLeaks ==
    /\ pc = "wait" => open = {}
    /\ Listening => open = {fd}
    /\ pc = "wait" \/ Listening =>
        hid_data = None /\ (platform = "windows" => infos = opens)

\* Reports are printed in the order they were sent, none twice; on Linux and
\* Mac OS X none is skipped either, whatever is unplugged meanwhile: what was
\* printed and what the system holds are all the reports, and the removal
\* comes after them.
ReportsInOrder ==
    /\ \A i, j \in DOMAIN got : i < j => got[i] < got[j]
    /\ platform # "windows" =>
        \E end \in {<<>>, <<Gone>>} : got \o queue = [k \in 1..sent |-> k] \o end

\* When a device with debug output stays plugged, the program ends up
\* listening to a device that is there, however often others were unplugged.
ListensAgain ==
    \A n \in Nodes : <>[]Listens(n) => <>[](Listening /\ Listens(fd))
=============================================================================
