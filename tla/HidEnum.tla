------------------------------- MODULE HidEnum -------------------------------
(***************************************************************************)
(* hid.factor: hid-enumerate, hid-find-devices and hid-get-name.  The      *)
(* first two scan a snapshot of the HID interfaces, one interface per turn *)
(* of their loop; devices go away between any two calls of Windows.        *)
(* What Windows answers for an interface is given by its kind (external).  *)
(***************************************************************************)
EXTENDS Integers, Sequences, FiniteSets

CONSTANTS
    DEV_NUM,     \* 10 in the code
    MaxDevices   \* bound on the number of interfaces

ASSUME EnumAssumption == DEV_NUM \in Nat /\ MaxDevices \in Nat \ {0}

Scans == {"hid-enumerate", "hid-find-devices"}

\* "match": the vendor and product asked for, and usage 1 of page FF00;
\* "other": neither; the rest match, but a call fails.
Kinds == {"match", "other", "noDetail", "noOpen", "noPreparsed", "noCaps"}

VARIABLES
    devices,      \* kind of each interface of the system
    gone,         \* interfaces whose device is unplugged
    word,         \* the scan called last, or "none"
    all,          \* hid-enumerate: vid and pid are zero
    pc,           \* position in a word, "idle" outside
    devinfo,      \* the interfaces in the snapshot, or None
    index,
    devhandle,    \* interface that is open; None and Invalid are not open
    count,        \* count of hid-enumerate, devcount of hid-find-devices
    detailvector, \* results
    handles,      \* bag of handles: how many are open on each interface
    preparsed     \* preparsed data of this scan not freed, for each interface

system == <<devices, gone>>
scan == <<word, all, devinfo, index, count, detailvector>>
vars == <<system, pc, scan, devhandle, handles, preparsed>>

None == 0
Invalid == -1
Interfaces == 1..Len(devices)
Entry == [index : 0..MaxDevices, device : 1..MaxDevices, caps : BOOLEAN]

Init ==
    /\ devices \in UNION {[1..n -> Kinds] : n \in 1..MaxDevices}
    /\ gone = {} /\ pc = "idle"
    /\ word = "none" /\ all = FALSE
    /\ devinfo = <<>> /\ index = 0 /\ devhandle = None /\ count = 0
    /\ detailvector = <<>>
    /\ handles = [d \in Interfaces |-> 0] /\ preparsed = [d \in Interfaces |-> 0]

-----------------------------------------------------------------------------
Held(bag, d) == [bag EXCEPT ![d] = @ + 1]
Freed(bag, d) == [bag EXCEPT ![d] = @ - 1]

\* The interface of this turn, and whether its device still answers.
Device == devinfo[index + 1]
Answers(d) == d \notin gone

\* SetupDiGetClassDevs: the interfaces that are present, in their order.
Present == Interfaces \ gone
Snapshots ==
    {s \in UNION {[1..n -> Present] : n \in 0..Len(devices)} :
       /\ \A i, j \in DOMAIN s : i < j => s[i] < s[j]
       /\ \A d \in Present : \E i \in DOMAIN s : s[i] = d}

Call ==
    /\ pc = "idle"
    /\ word' \in Scans /\ all' \in BOOLEAN /\ (all' => word' = "hid-enumerate")
    /\ devinfo' \in Snapshots /\ index' = 0 /\ count' = 0 /\ detailvector' = <<>>
    /\ devhandle' = None /\ pc' = "Enum"
    /\ preparsed' = [d \in Interfaces |-> 0]
    /\ UNCHANGED <<system, handles>>

\* SetupDiEnumDeviceInterfaces; its failure ends the loop after this turn.
Enum ==
    /\ pc = "Enum"
    /\ pc' = IF index < Len(devinfo) THEN "Detail" ELSE "Turn"
    /\ UNCHANGED <<system, scan, devhandle, handles, preparsed>>

\* Mutant: "continue" goes back to SetupDiEnumDeviceInterfaces.
DetailRetries ==
    /\ pc = "Detail"
    /\ pc' = IF devices[Device] = "noDetail" THEN "Enum" ELSE "Open"
    /\ UNCHANGED <<system, scan, devhandle, handles, preparsed>>

Detail ==
    /\ pc = "Detail"
    /\ pc' = IF devices[Device] = "noDetail" THEN "Turn" ELSE "Open"
    /\ UNCHANGED <<system, scan, devhandle, handles, preparsed>>

Open ==
    /\ pc = "Open"
    /\ \/ /\ Answers(Device) /\ devices[Device] # "noOpen"
          /\ devhandle' = Device /\ handles' = Held(handles, Device)
          /\ pc' = IF word = "hid-enumerate" THEN "Attributes" ELSE "Preparsed"
       \/ /\ ~Answers(Device) \/ devices[Device] = "noOpen"
          /\ devhandle' = Invalid /\ pc' = "Turn" /\ UNCHANGED handles
    /\ UNCHANGED <<system, scan, preparsed>>

\* Attributes that cannot be read stay zero.
Attributes ==
    /\ pc = "Attributes"
    /\ pc' = IF all \/ (Answers(Device) /\ devices[Device] # "other")
             THEN "Preparsed" ELSE "Turn"
    /\ UNCHANGED <<system, scan, devhandle, handles, preparsed>>

\* hid-enumerate keeps a matching device also without its capabilities.
Push(caps) ==
    /\ detailvector' = Append(detailvector, [index |-> count, device |-> Device,
                                              caps |-> caps])
    /\ count' = count + 1

Skip == UNCHANGED <<detailvector, count>>

Preparsed ==
    /\ pc = "Preparsed"
    /\ \/ /\ Answers(Device) /\ devices[Device] # "noPreparsed"
          /\ preparsed' = Held(preparsed, Device) /\ pc' = "Caps" /\ Skip
       \/ /\ ~Answers(Device) \/ devices[Device] = "noPreparsed"
          /\ IF word = "hid-enumerate" THEN Push(FALSE) ELSE Skip
          /\ pc' = "Turn" /\ UNCHANGED preparsed
    /\ UNCHANGED <<system, word, all, devinfo, index, devhandle, handles>>

\* Mutant: the preparsed data of an interface that is not wanted is kept.
CapsFreesWanted ==
    /\ pc = "Caps"
    /\ \/ /\ devices[Device] \notin {"noCaps", "other"} \/ all
          /\ preparsed' = Freed(preparsed, Device) /\ Push(TRUE)
       \/ /\ devices[Device] \in {"noCaps", "other"} /\ ~all
          /\ IF word = "hid-enumerate" THEN Push(FALSE) ELSE Skip
          /\ UNCHANGED preparsed
    /\ pc' = "Turn"
    /\ UNCHANGED <<system, word, all, devinfo, index, devhandle, handles>>

\* HidP_GetCaps asks no device.  After its failure the data is not freed.
Caps ==
    /\ pc = "Caps"
    /\ \/ /\ devices[Device] # "noCaps"
          /\ preparsed' = Freed(preparsed, Device)
          /\ IF word = "hid-enumerate" \/ devices[Device] # "other"
             THEN Push(TRUE) ELSE Skip
       \/ /\ devices[Device] = "noCaps"
          /\ IF word = "hid-enumerate" THEN Push(FALSE) ELSE Skip
          /\ UNCHANGED preparsed
    /\ pc' = "Turn"
    /\ UNCHANGED <<system, word, all, devinfo, index, devhandle, handles>>

Close ==
    /\ handles' = IF devhandle \in Interfaces THEN Freed(handles, devhandle)
                  ELSE handles
    /\ devhandle' = None

\* Mutant: the limit is tested against the index.
LimitIndex == word = "hid-find-devices" /\ DEV_NUM < index + 1

\* The loop of hid-find-devices ends early when it has enough.
Limit == word = "hid-find-devices" /\ DEV_NUM < count

\* The end of a turn of the loop.
Turn ==
    /\ pc = "Turn"
    /\ Close
    /\ index' = index + 1
    /\ pc' = IF index >= Len(devinfo) \/ Limit THEN "Destroy" ELSE "Enum"
    /\ UNCHANGED <<system, word, all, devinfo, count, detailvector, preparsed>>

\* SetupDiDestroyDeviceInfoList.
Destroy ==
    /\ pc = "Destroy"
    /\ devinfo' = <<>> /\ pc' = "idle"
    /\ UNCHANGED <<system, word, all, index, count, detailvector, devhandle,
                   handles, preparsed>>

\* hid-get-name of a device that hid-enumerate has found.
GetName ==
    /\ pc = "idle"
    /\ word = "hid-enumerate"
    /\ \E i \in DOMAIN detailvector :
         LET d == detailvector[i].device IN
         IF Answers(d) THEN /\ devhandle' = d /\ handles' = Held(handles, d)
                            /\ pc' = "Name"
         ELSE devhandle' = Invalid /\ UNCHANGED <<handles, pc>>
    /\ UNCHANGED <<system, scan, preparsed>>

\* The string is read, or not, and the handle closed.
Name ==
    /\ pc = "Name"
    /\ Close /\ pc' = "idle"
    /\ UNCHANGED <<system, scan, preparsed>>

Unplug(d) ==
    /\ d \notin gone
    /\ gone' = gone \cup {d}
    /\ UNCHANGED <<devices, pc, scan, devhandle, handles, preparsed>>

Step == \/ Enum \/ Detail \/ Open \/ Attributes \/ Preparsed \/ Caps
        \/ Turn \/ Destroy \/ Name
Next == Call \/ GetName \/ Step \/ \E d \in Interfaces : Unplug(d)
Spec == Init /\ [][Next]_vars /\ WF_vars(Step)

-----------------------------------------------------------------------------
Labels == {"idle", "Enum", "Detail", "Open", "Attributes", "Preparsed", "Caps",
           "Turn", "Destroy", "Name"}

TypeOK ==
    /\ devices \in Seq(Kinds) /\ Len(devices) \in 1..MaxDevices
    /\ gone \subseteq Interfaces
    /\ word \in Scans \cup {"none"} /\ all \in BOOLEAN /\ pc \in Labels
    /\ devinfo \in Seq(Interfaces)
    /\ index \in 0..(MaxDevices + 1) /\ count \in 0..MaxDevices
    /\ devhandle \in Interfaces \cup {None, Invalid}
    /\ detailvector \in Seq(Entry)
    /\ handles \in [Interfaces -> 0..1]
    /\ preparsed \in [Interfaces -> 0..1]

\* What a scan is asked for.
Wanted(d) ==
    IF word = "hid-find-devices" THEN devices[d] = "match"
    ELSE devices[d] \notin {"noDetail", "noOpen"} /\ (all \/ devices[d] # "other")

Found == {detailvector[i].device : i \in DOMAIN detailvector}

(* A scan finds every device that is wanted and stays plugged in, and nothing *)
(* else, whatever fails for other devices and whichever are unplugged on the  *)
(* way; only a full hid-find-devices leaves some out.  Capabilities are       *)
(* missing only where a call failed.                                          *)
FoundRight ==
    pc = "idle" /\ word # "none" =>
      /\ \A d \in Found : Wanted(d)
      /\ \/ \A d \in Interfaces : Wanted(d) => d \in Found \cup gone
         \/ word = "hid-find-devices" /\ Len(detailvector) > DEV_NUM
      /\ \A i \in DOMAIN detailvector : LET e == detailvector[i] IN
           e.caps \/ e.device \in gone \/ devices[e.device] \in {"noPreparsed", "noCaps"}

(* The results are numbered from 0 in the order of the interfaces, each there *)
(* once, also in a second scan (devcount is a global).                        *)
Numbered ==
    \A i \in DOMAIN detailvector :
      /\ detailvector[i].index = i - 1
      /\ \A j \in 1..(i - 1) : detailvector[j].device < detailvector[i].device

(* Between two turns no handle is open; between two calls the list is freed   *)
(* too.  Preparsed data is left behind exactly where HidP_GetCaps failed.     *)
NothingHeld ==
    /\ pc \in {"idle", "Enum", "Destroy"} => \A d \in Interfaces : handles[d] = 0
    /\ pc = "idle" => devinfo = <<>>
    /\ pc # "Caps" =>
         \A d \in Interfaces : preparsed[d] > 0 => devices[d] = "noCaps"

(* A call returns, whatever fails.                                            *)
CallEnds == pc # "idle" ~> pc = "idle"
=============================================================================
