---------------------------- MODULE HidEnumProofs ----------------------------
(***************************************************************************)
(* The scans of hid.factor find the right devices, number them in order    *)
(* and free what they open, for any number of interfaces, any limit and    *)
(* any failures.                                                           *)
(***************************************************************************)
EXTENDS HidEnum, TLAPS

\* Positions inside a turn of the loop; the handle is open in the last three.
Inside == {"Detail", "Open", "Attributes", "Preparsed", "Caps"}

\* Interfaces whose turn is over: one more at the end of a turn.
Past == IF pc = "Turn" THEN index + 1 ELSE index

\* The snapshot is in order and misses only what has been unplugged.
SnapshotOK ==
    /\ Len(devinfo) <= Len(devices)
    /\ \A i, j \in DOMAIN devinfo : i < j => devinfo[i] < devinfo[j]
    /\ pc \notin {"idle", "Name"} =>
         \A d \in Interfaces : d \in gone \/ \E i \in DOMAIN devinfo : devinfo[i] = d

\* Where the loop is, and what the turn has found out about its interface.
TurnOK ==
    /\ pc \in Inside => index < Len(devinfo)
    /\ pc = "Enum" => index <= Len(devinfo)
    /\ pc = "Turn" => index <= Len(devinfo)
    /\ pc \in {"Open", "Attributes", "Preparsed", "Caps"} => devices[Device] # "noDetail"
    /\ pc \in {"Attributes", "Preparsed", "Caps"} => devices[Device] # "noOpen"
    /\ pc \in {"Preparsed", "Caps"} /\ word = "hid-enumerate" =>
         all \/ devices[Device] # "other"
    /\ pc = "Caps" => devices[Device] # "noPreparsed"
    /\ pc = "Attributes" => word = "hid-enumerate"
    /\ word = "none" => pc = "idle"
    /\ pc \in {"idle", "Name"} => devinfo = <<>>

\* One handle is open, that of this turn, from Open to the end of the turn.
HandleOK ==
    /\ \A d \in Interfaces : handles[d] =
         IF pc \in {"Attributes", "Preparsed", "Caps", "Turn", "Name"} /\ devhandle = d
         THEN 1 ELSE 0
    /\ pc \in {"Attributes", "Preparsed", "Caps"} => devhandle = Device
    /\ pc \in {"Enum", "Detail", "Open"} => devhandle = None

\* Preparsed data: that of this turn, or of an earlier one that failed.
PreparsedOK ==
    /\ pc = "Caps" => preparsed[Device] = 1
    /\ \A d \in Interfaces : preparsed[d] > 0 =>
         \/ devices[d] = "noCaps" /\ (pc \in Inside \cup {"Enum", "Turn"} =>
              \E i \in 1..Past : i <= Len(devinfo) /\ devinfo[i] = d)
         \/ pc = "Caps" /\ d = Device

\* The results so far come from the turns so far.
FoundOK ==
    /\ count = Len(detailvector)
    /\ word = "none" => detailvector = <<>>
    /\ pc \notin {"idle", "Name", "Destroy"} =>
         /\ count <= Past /\ count <= Len(devinfo)
         /\ \A d \in Found : \E i \in 1..Past : i <= Len(devinfo) /\ devinfo[i] = d
    /\ Found \subseteq Interfaces /\ \A d \in Found : Wanted(d)
    /\ \A i \in DOMAIN detailvector : LET e == detailvector[i] IN
         e.caps \/ e.device \in gone \/ devices[e.device] \in {"noPreparsed", "noCaps"}

\* None that is wanted has been passed over, except beyond the limit.
NoneMissed ==
    /\ pc \in Inside \cup {"Enum", "Turn"} =>
         \A i \in 1..Past : i <= Len(devinfo) /\ Wanted(devinfo[i])
                              => devinfo[i] \in Found \cup gone
    /\ pc \in {"Destroy", "Name", "idle"} /\ word # "none" =>
         \/ \A d \in Interfaces : Wanted(d) => d \in Found \cup gone
         \/ word = "hid-find-devices" /\ Len(detailvector) > DEV_NUM

EnumInv ==
    /\ TypeOK /\ SnapshotOK /\ TurnOK /\ HandleOK /\ PreparsedOK /\ FoundOK
    /\ Numbered /\ NoneMissed

-----------------------------------------------------------------------------
LEMMA DeviceType == EnumInv /\ pc \in Inside => Device \in Interfaces /\ index + 1 \in DOMAIN devinfo
  BY DEF EnumInv, TypeOK, TurnOK, Inside, Device, Interfaces

LEMMA InitInv == Init => EnumInv
  <1> SUFFICES ASSUME Init PROVE EnumInv
    OBVIOUS
  <1>1. devices \in Seq(Kinds) /\ Len(devices) \in 1..MaxDevices
    <2>1. PICK n \in 1..MaxDevices : devices \in [1..n -> Kinds]
      BY EnumAssumption DEF Init
    <2> QED
      BY <2>1, EnumAssumption
  <1>2. TypeOK
    <2>1. handles \in [Interfaces -> 0..1] /\ preparsed \in [Interfaces -> 0..1]
      BY DEF Init
    <2>2. devinfo \in Seq(Interfaces) /\ detailvector \in Seq(Entry)
      BY DEF Init
    <2>3. index \in 0..(MaxDevices + 1) /\ count \in 0..MaxDevices
      BY EnumAssumption DEF Init
    <2> QED
      BY <1>1, <2>1, <2>2, <2>3 DEF Init, TypeOK, Labels, None
  <1>3. SnapshotOK /\ TurnOK /\ Numbered
    BY <1>1 DEF Init, SnapshotOK, TurnOK, Numbered, Inside
  <1>4. HandleOK /\ PreparsedOK
    BY DEF Init, HandleOK, PreparsedOK, Interfaces
  <1>5. FoundOK /\ NoneMissed
    BY DEF Init, FoundOK, NoneMissed, Found, Inside
  <1> QED
    BY <1>2, <1>3, <1>4, <1>5 DEF EnumInv

LEMMA CallStep == EnumInv /\ Call => EnumInv'
  <1> SUFFICES ASSUME EnumInv, Call PROVE EnumInv'
    OBVIOUS
  <1> USE DEF Call, system
  <1>1. /\ devinfo' \in Seq(Interfaces) /\ Len(devinfo') <= Len(devices)
        /\ \A i, j \in DOMAIN devinfo' : i < j => devinfo'[i] < devinfo'[j]
        /\ \A d \in Interfaces : d \in gone \/ \E i \in DOMAIN devinfo' : devinfo'[i] = d
    <2>1. Len(devices) \in Nat
      BY EnumAssumption DEF EnumInv, TypeOK
    <2>2. PICK n \in 0..Len(devices) : devinfo' \in [1..n -> Present]
      BY DEF Snapshots
    <2>3. devinfo' \in Seq(Interfaces) /\ Len(devinfo') = n
      BY <2>1, <2>2 DEF Present
    <2> QED
      BY <2>1, <2>3 DEF Snapshots, Present
  <1>2. TypeOK'
    BY <1>1, EnumAssumption
      DEF EnumInv, TypeOK, Interfaces, Scans, Labels, None, Entry
  <1>3. SnapshotOK'
    BY <1>1 DEF SnapshotOK, Interfaces
  <1>4. TurnOK'
    BY <1>1 DEF TurnOK, Inside, Scans
  <1>5. HandleOK' /\ PreparsedOK'
    BY DEF EnumInv, HandleOK, PreparsedOK, Interfaces
  <1>6. FoundOK' /\ NoneMissed' /\ Numbered'
    BY <1>1 DEF FoundOK, NoneMissed, Numbered, Found, Past, Inside, Scans
  <1> QED
    BY <1>2, <1>3, <1>4, <1>5, <1>6 DEF EnumInv

-----------------------------------------------------------------------------
\* The part of the invariant about the results.
Results == FoundOK /\ Numbered /\ NoneMissed

\* A turn that ends without a result was not about a wanted interface, or its
\* device has gone, or there was no interface left.
LEMMA SkipStep ==
    ASSUME EnumInv, pc \in Inside \cup {"Enum"}, pc' = "Turn", Skip,
           UNCHANGED <<system, word, all, devinfo, index>>,
           \/ index = Len(devinfo)
           \/ ~Wanted(Device) \/ Device \in gone
    PROVE  Results'
  <1> USE DEF Skip, system
  <1>0. index \in Nat /\ Len(devinfo) \in Nat /\ index <= Len(devinfo)
    BY EnumAssumption DEF EnumInv, TypeOK, TurnOK, Inside
  <1>1. FoundOK'
    <2>1. Found' = Found /\ \A d \in Found : Wanted(d)' = Wanted(d)
      BY DEF Found, Wanted
    <2>2. Past = index /\ Past' = index + 1 /\ Interfaces' = Interfaces
      BY DEF Past, Inside, Interfaces
    <2>3. count <= Past' /\ count <= Len(devinfo) /\ word = word'
      BY <1>0, <2>2, EnumAssumption DEF EnumInv, TypeOK, FoundOK, Inside
    <2>4. \A d \in Found' : \E i \in 1..Past' : i <= Len(devinfo) /\ devinfo[i] = d
      BY <1>0, <2>1, <2>2 DEF EnumInv, FoundOK, Inside
    <2> QED
      BY <2>1, <2>2, <2>3, <2>4 DEF EnumInv, FoundOK
  <1>2. Numbered'
    BY DEF EnumInv, Numbered
  <1>3. NoneMissed'
    <2>1. SUFFICES ASSUME NEW i \in 1..(index + 1), i <= Len(devinfo), Wanted(devinfo[i])
                   PROVE  devinfo[i] \in Found \cup gone
      BY <1>0 DEF NoneMissed, Found, Wanted, Past, Inside
    <2>2. CASE i <= index
      BY <1>0, <2>1, <2>2 DEF EnumInv, NoneMissed, Past, Inside
    <2>3. CASE i = index + 1
      BY <1>0, <2>1, <2>3 DEF Device
    <2> QED
      BY <1>0, <2>2, <2>3
  <1> QED
    BY <1>1, <1>2, <1>3 DEF Results

\* A turn that ends with a result was about a wanted interface.
LEMMA PushStep ==
    ASSUME EnumInv, pc \in {"Preparsed", "Caps"}, pc' = "Turn",
           UNCHANGED <<system, word, all, devinfo, index>>,
           NEW caps \in BOOLEAN, Push(caps), Wanted(Device),
           caps \/ Device \in gone \/ devices[Device] \in {"noPreparsed", "noCaps"}
    PROVE  /\ Results'
           /\ count' \in 0..MaxDevices /\ detailvector' \in Seq(Entry)
  <1> DEFINE entry == [index |-> count, device |-> Device, caps |-> caps]
             n == Len(detailvector)
  <1>0. /\ index \in Nat /\ Len(devinfo) \in Nat /\ index < Len(devinfo)
        /\ Len(devinfo) <= MaxDevices
        /\ count \in Nat /\ count = n /\ count <= index /\ count + 1 <= Len(devinfo)
        /\ Device \in Interfaces /\ Interfaces \subseteq 1..MaxDevices
    <2>1. index \in Nat /\ Len(devinfo) \in Nat /\ index < Len(devinfo)
      BY EnumAssumption DEF EnumInv, TypeOK, TurnOK, Inside
    <2>2. Len(devinfo) <= MaxDevices /\ Interfaces \subseteq 1..MaxDevices
      BY <2>1, EnumAssumption DEF EnumInv, TypeOK, SnapshotOK, Interfaces
    <2>3. count \in Nat /\ count = n /\ count <= index
      BY EnumAssumption DEF EnumInv, TypeOK, FoundOK, Past
    <2>4. Device \in Interfaces
      BY DeviceType DEF Inside
    <2> QED
      BY <2>1, <2>2, <2>3, <2>4
  <1>1. entry \in Entry /\ detailvector \in Seq(Entry)
    BY <1>0, EnumAssumption DEF EnumInv, TypeOK, Entry
  <1>2. /\ detailvector' = Append(detailvector, entry) /\ count' = count + 1
        /\ detailvector' \in Seq(Entry) /\ Len(detailvector') = n + 1
        /\ \A i \in 1..n : detailvector'[i] = detailvector[i]
        /\ detailvector'[n + 1] = entry
        /\ DOMAIN detailvector' = 1..(n + 1) /\ DOMAIN detailvector = 1..n
    BY <1>0, <1>1 DEF Push
  <1> HIDE DEF entry, n
  <1>3. entry.index = count /\ entry.device = Device /\ entry.caps = caps
    BY DEF entry
  <1>4. Found' = Found \cup {Device} /\ n \in Nat
    BY <1>0, <1>2, <1>3 DEF Found
  <1>5. /\ \A d \in Found : \E i \in 1..index : devinfo[i] = d
        /\ \A d \in Found : d < Device
    <2>1. \A d \in Found : \E i \in 1..index : devinfo[i] = d
      BY <1>0 DEF EnumInv, FoundOK, Past, Inside
    <2>2. \A i \in 1..index : devinfo[i] < Device
      BY <1>0 DEF EnumInv, SnapshotOK, Device
    <2> QED
      BY <2>1, <2>2
  <1>6. FoundOK'
    <2>1. count' = Len(detailvector') /\ word' # "none"
      BY <1>0, <1>2 DEF EnumInv, TurnOK
    <2>2. count' <= Past' /\ count' <= Len(devinfo')
      BY <1>0, <1>2 DEF Past
    <2>3. \A d \in Found' : \E i \in 1..Past' : i <= Len(devinfo') /\ devinfo'[i] = d
      BY <1>0, <1>4, <1>5 DEF Past, Device
    <2>4. Found' \subseteq Interfaces' /\ \A d \in Found' : Wanted(d)'
      BY <1>0, <1>4 DEF EnumInv, FoundOK, Wanted, system, Interfaces
    <2>5. ASSUME NEW i \in DOMAIN detailvector' PROVE
            \/ detailvector'[i].caps \/ detailvector'[i].device \in gone'
            \/ devices'[detailvector'[i].device] \in {"noPreparsed", "noCaps"}
      <3>1. CASE i \in 1..n
        BY <1>2, <3>1 DEF EnumInv, FoundOK, system
      <3>2. CASE i = n + 1
        BY <1>2, <1>3, <3>2 DEF system
      <3> QED
        BY <1>2, <1>4, <3>1, <3>2
    <2> QED
      BY <2>1, <2>2, <2>3, <2>4, <2>5 DEF FoundOK
  <1>7. Numbered'
    <2>1. SUFFICES ASSUME NEW i \in 1..(n + 1)
                   PROVE  /\ detailvector'[i].index = i - 1
                          /\ \A j \in 1..(i - 1) :
                               detailvector'[j].device < detailvector'[i].device
      BY <1>2 DEF Numbered
    <2>2. CASE i \in 1..n
      BY <1>2, <1>4, <2>2 DEF EnumInv, Numbered
    <2>3. CASE i = n + 1
      <3>1. \A j \in 1..n : detailvector[j].device \in Found
        BY <1>2 DEF Found
      <3> QED
        BY <1>0, <1>2, <1>3, <1>4, <1>5, <2>3, <3>1 DEF n
    <2> QED
      BY <1>4, <2>2, <2>3
  <1>8. NoneMissed'
    <2>1. SUFFICES ASSUME NEW i \in 1..(index + 1), i <= Len(devinfo), Wanted(devinfo[i])
                   PROVE  devinfo[i] \in Found' \cup gone
      BY <1>0 DEF NoneMissed, Wanted, Past, Inside, system
    <2>2. CASE i <= index
      BY <1>0, <1>4, <2>1, <2>2 DEF EnumInv, NoneMissed, Past, Inside
    <2>3. CASE i = index + 1
      BY <1>4, <2>3 DEF Device
    <2> QED
      BY <1>0, <2>2, <2>3
  <1> QED
    BY <1>0, <1>2, <1>6, <1>7, <1>8, EnumAssumption DEF Results

-----------------------------------------------------------------------------
\* A step that leaves the results alone, within a turn or a call of Windows.
LEMMA EnumStep == EnumInv /\ Enum => EnumInv'
  <1> SUFFICES ASSUME EnumInv, Enum PROVE EnumInv'
    OBVIOUS
  <1> USE DEF Enum, system, scan
  <1>0. index \in Nat /\ Len(devinfo) \in Nat /\ index <= Len(devinfo)
    BY EnumAssumption DEF EnumInv, TypeOK, TurnOK
  <1>1. TypeOK'
    BY DEF EnumInv, TypeOK, Interfaces, Labels
  <1>2. SnapshotOK' /\ TurnOK' /\ HandleOK'
    BY <1>0 DEF EnumInv, SnapshotOK, TurnOK, HandleOK, Interfaces, Inside, Device, None
  <1>3. PreparsedOK'
    BY <1>0 DEF EnumInv, PreparsedOK, Past, Inside, Interfaces, Device
  <1>4. Results'
    <2>1. CASE index < Len(devinfo)
      BY <2>1 DEF EnumInv, Results, FoundOK, Numbered, NoneMissed, Found, Wanted, Past,
                   Inside, Interfaces
    <2>2. CASE index = Len(devinfo)
      BY <1>0, <2>2, SkipStep DEF Skip
    <2> QED
      BY <1>0, <2>1, <2>2
  <1> QED
    BY <1>1, <1>2, <1>3, <1>4 DEF EnumInv, Results

LEMMA DetailStep == EnumInv /\ Detail => EnumInv'
  <1> SUFFICES ASSUME EnumInv, Detail PROVE EnumInv'
    OBVIOUS
  <1> USE DEF Detail, system, scan
  <1>0. index \in Nat /\ Len(devinfo) \in Nat /\ index < Len(devinfo)
    BY EnumAssumption DEF EnumInv, TypeOK, TurnOK, Inside
  <1>1. TypeOK'
    BY DEF EnumInv, TypeOK, Interfaces, Labels
  <1>2. SnapshotOK' /\ TurnOK' /\ HandleOK'
    BY <1>0 DEF EnumInv, SnapshotOK, TurnOK, HandleOK, Interfaces, Inside, Device, None
  <1>3. PreparsedOK'
    BY <1>0 DEF EnumInv, PreparsedOK, Past, Inside, Interfaces, Device
  <1>4. Results'
    <2>1. CASE devices[Device] = "noDetail"
      <3>1. ~Wanted(Device)
        BY <2>1 DEF Wanted
      <3> QED
        BY <2>1, <3>1, SkipStep DEF Skip, Inside
    <2>2. CASE devices[Device] # "noDetail"
      BY <2>2 DEF EnumInv, Results, FoundOK, Numbered, NoneMissed, Found, Wanted, Past,
                   Inside, Interfaces
    <2> QED
      BY <2>1, <2>2
  <1> QED
    BY <1>1, <1>2, <1>3, <1>4 DEF EnumInv, Results

LEMMA OpenStep == EnumInv /\ Open => EnumInv'
  <1> SUFFICES ASSUME EnumInv, Open PROVE EnumInv'
    OBVIOUS
  <1> USE DEF Open, system, scan
  <1>0. /\ index \in Nat /\ Len(devinfo) \in Nat /\ index < Len(devinfo)
        /\ Device \in Interfaces
        /\ Device' = Device /\ Interfaces' = Interfaces
    BY EnumAssumption, DeviceType DEF EnumInv, TypeOK, TurnOK, Inside, Device, Interfaces
  <1>1. handles' \in [Interfaces -> 0..1] /\ HandleOK'
    <2>1. \A d \in Interfaces : handles[d] = 0
      BY DEF EnumInv, HandleOK
    <2>2. handles \in [Interfaces -> 0..1] /\ Invalid \notin Interfaces
      BY DEF EnumInv, TypeOK, Invalid, Interfaces
    <2> QED
      BY <1>0, <2>1, <2>2 DEF HandleOK, Held
  <1>2. TypeOK'
    BY <1>0, <1>1 DEF EnumInv, TypeOK, Labels
  <1>3. SnapshotOK' /\ TurnOK'
    BY <1>0 DEF EnumInv, SnapshotOK, TurnOK, TypeOK, Scans, Inside
  <1>4. PreparsedOK'
    BY <1>0 DEF EnumInv, PreparsedOK, Past, Inside
  <1>5. Results'
    <2>1. CASE pc' = "Turn"
      <3>1. ~Wanted(Device) \/ Device \in gone
        BY <2>1 DEF Wanted, Answers
      <3> QED
        BY <2>1, <3>1, SkipStep DEF Skip, Inside
    <2>2. CASE pc' # "Turn"
      BY <2>2 DEF EnumInv, Results, FoundOK, Numbered, NoneMissed, Found, Wanted, Past,
                   Inside, Interfaces
    <2> QED
      BY <2>1, <2>2
  <1> QED
    BY <1>2, <1>3, <1>1, <1>4, <1>5 DEF EnumInv, Results

LEMMA AttributesStep == EnumInv /\ Attributes => EnumInv'
  <1> SUFFICES ASSUME EnumInv, Attributes PROVE EnumInv'
    OBVIOUS
  <1> USE DEF Attributes, system, scan
  <1>0. /\ index \in Nat /\ Len(devinfo) \in Nat /\ index < Len(devinfo)
        /\ word = "hid-enumerate"
        /\ Device' = Device /\ Interfaces' = Interfaces
    BY EnumAssumption DEF EnumInv, TypeOK, TurnOK, Inside, Device, Interfaces
  <1>1. TypeOK'
    BY <1>0 DEF EnumInv, TypeOK, Labels
  <1>2. SnapshotOK' /\ TurnOK'
    BY <1>0 DEF EnumInv, SnapshotOK, TurnOK, Inside
  <1>3. HandleOK'
    BY <1>0 DEF EnumInv, HandleOK
  <1>4. PreparsedOK'
    BY <1>0 DEF EnumInv, PreparsedOK, Past, Inside
  <1>5. Results'
    <2>1. CASE pc' = "Turn"
      <3>1. ~Wanted(Device) \/ Device \in gone
        BY <1>0, <2>1 DEF Wanted, Answers
      <3> QED
        BY <2>1, <3>1, SkipStep DEF Skip, Inside
    <2>2. CASE pc' # "Turn"
      BY <2>2 DEF EnumInv, Results, FoundOK, Numbered, NoneMissed, Found, Wanted, Past,
                   Inside, Interfaces
    <2> QED
      BY <2>1, <2>2
  <1> QED
    BY <1>1, <1>2, <1>3, <1>4, <1>5 DEF EnumInv, Results

LEMMA PreparsedStep == EnumInv /\ Preparsed => EnumInv'
  <1> SUFFICES ASSUME EnumInv, Preparsed PROVE EnumInv'
    OBVIOUS
  <1> USE DEF Preparsed, system
  <1>0. /\ index \in Nat /\ Len(devinfo) \in Nat /\ index < Len(devinfo)
        /\ Device \in Interfaces /\ index + 1 \in DOMAIN devinfo
        /\ Device' = Device /\ Interfaces' = Interfaces
    BY EnumAssumption, DeviceType DEF EnumInv, TypeOK, TurnOK, Inside, Device, Interfaces
  <1>1. preparsed \in [Interfaces -> 0..1] /\ preparsed[Device] = 0
    <2>1. \A i \in 1..index : devinfo[i] # Device
      <3>1. \A i \in 1..index : devinfo[i] < Device
        BY <1>0 DEF EnumInv, SnapshotOK, Device
      <3>2. Device \in Int
        BY <1>0 DEF Interfaces
      <3> QED
        BY <3>1, <3>2
    <2>2. Past = index /\ pc # "Caps" /\ pc \in Inside
      BY DEF Past, Inside
    <2>3. ~(preparsed[Device] > 0)
      <3>1. SUFFICES ASSUME preparsed[Device] > 0 PROVE FALSE
        OBVIOUS
      <3>2. PICK i \in 1..Past : i <= Len(devinfo) /\ devinfo[i] = Device
        BY <1>0, <2>2, <3>1 DEF EnumInv, PreparsedOK
      <3> QED
        BY <2>1, <2>2, <3>2
    <2>4. preparsed \in [Interfaces -> 0..1]
      BY DEF EnumInv, TypeOK
    <2> QED
      BY <1>0, <2>3, <2>4
  <1>2. preparsed' \in [Interfaces -> 0..1] /\ PreparsedOK'
    <2>1. CASE pc' = "Caps" /\ preparsed' = Held(preparsed, Device)
      BY <1>0, <1>1, <2>1 DEF EnumInv, PreparsedOK, Past, Inside, Held
    <2>2. CASE pc' = "Turn" /\ preparsed' = preparsed
      BY <1>0, <1>1, <2>2 DEF EnumInv, PreparsedOK, Past, Inside
    <2> QED
      BY <2>1, <2>2
  <1>3. Results' /\ count' \in 0..MaxDevices /\ detailvector' \in Seq(Entry)
    <2>1. CASE pc' = "Caps"
      BY <2>1 DEF Skip, EnumInv, TypeOK, Results, FoundOK, Numbered, NoneMissed, Found,
                  Wanted, Past, Inside, Interfaces
    <2>2. CASE pc' = "Turn" /\ word = "hid-enumerate" /\ Push(FALSE)
      <3>1. Wanted(Device)
        BY <2>2 DEF EnumInv, TurnOK, Wanted
      <3>2. Device \in gone \/ devices[Device] \in {"noPreparsed", "noCaps"}
        BY <2>2 DEF Answers
      <3> QED
        BY <2>2, <3>1, <3>2, PushStep
    <2>3. CASE pc' = "Turn" /\ word # "hid-enumerate" /\ Skip
      <3>1. ~Wanted(Device) \/ Device \in gone
        BY <2>3 DEF Wanted, Answers, EnumInv, TypeOK, TurnOK, Scans
      <3> QED
        BY <2>3, <3>1, SkipStep DEF Inside, Skip, EnumInv, TypeOK
    <2> QED
      BY <2>1, <2>2, <2>3
  <1>4. TypeOK'
    BY <1>0, <1>2, <1>3 DEF EnumInv, TypeOK, Labels
  <1>5. SnapshotOK' /\ TurnOK'
    <2>1. UNCHANGED <<devices, gone, word, all, devinfo, index>> /\ pc' \in {"Caps", "Turn"}
      OBVIOUS
    <2>2. pc' = "Caps" => devices[Device] # "noPreparsed"
      OBVIOUS
    <2>3. SnapshotOK'
      BY <1>0, <2>1 DEF EnumInv, SnapshotOK
    <2>4. TurnOK'
      BY <1>0, <2>1, <2>2 DEF EnumInv, TurnOK, Inside
    <2> QED
      BY <2>3, <2>4
  <1>6. HandleOK'
    BY <1>0 DEF EnumInv, HandleOK
  <1> QED
    BY <1>2, <1>3, <1>4, <1>5, <1>6 DEF EnumInv, Results

LEMMA CapsStep == EnumInv /\ Caps => EnumInv'
  <1> SUFFICES ASSUME EnumInv, Caps PROVE EnumInv'
    OBVIOUS
  <1> USE DEF Caps, system
  <1>0. /\ index \in Nat /\ Len(devinfo) \in Nat /\ index < Len(devinfo)
        /\ Device \in Interfaces /\ devinfo[index + 1] = Device
        /\ Device' = Device /\ Interfaces' = Interfaces
    BY EnumAssumption, DeviceType DEF EnumInv, TypeOK, TurnOK, Inside, Device, Interfaces
  <1>1. preparsed \in [Interfaces -> 0..1]
    BY DEF EnumInv, TypeOK
  <1>2. preparsed' \in [Interfaces -> 0..1] /\ PreparsedOK'
    <2>1. CASE devices[Device] # "noCaps"
      <3>1. preparsed[Device] = 1
        BY DEF EnumInv, PreparsedOK
      <3>2. /\ preparsed' \in [Interfaces -> 0..1] /\ preparsed'[Device] = 0
            /\ \A d \in Interfaces \ {Device} : preparsed'[d] = preparsed[d]
        <4>1. preparsed' = Freed(preparsed, Device)
          BY <2>1
        <4>2. Freed(preparsed, Device) = [preparsed EXCEPT ![Device] = 0]
          BY <3>1 DEF Freed
        <4> QED
          BY <1>0, <1>1, <4>1, <4>2
      <3> QED
        BY <1>0, <3>2 DEF EnumInv, PreparsedOK, Past, Inside
    <2>2. CASE devices[Device] = "noCaps"
      BY <1>0, <1>1, <2>2 DEF EnumInv, PreparsedOK, Past, Inside
    <2> QED
      BY <2>1, <2>2
  <1>3. Results' /\ count' \in 0..MaxDevices /\ detailvector' \in Seq(Entry)
    <2>0. /\ word = "hid-enumerate" => Wanted(Device)
          /\ word # "hid-enumerate" => word = "hid-find-devices"
          /\ devices[Device] \in Kinds \ {"noDetail", "noOpen", "noPreparsed"}
      BY <1>0 DEF EnumInv, TypeOK, TurnOK, Wanted, Scans, Interfaces
    <2>1. CASE devices[Device] # "noCaps" /\ Push(TRUE)
                 /\ (word = "hid-enumerate" \/ devices[Device] # "other")
      <3>1. Wanted(Device)
        BY <2>0, <2>1 DEF Wanted, Kinds
      <3> QED
        BY <2>1, <3>1, PushStep
    <2>2. CASE devices[Device] = "noCaps" /\ Push(FALSE) /\ word = "hid-enumerate"
      BY <2>0, <2>2, PushStep
    <2>3. CASE Skip /\ word # "hid-enumerate" /\ devices[Device] \in {"noCaps", "other"}
      <3>1. ~Wanted(Device)
        BY <2>0, <2>3 DEF Wanted
      <3> QED
        BY <2>3, <3>1, SkipStep DEF Inside, Skip, EnumInv, TypeOK
    <2> QED
      BY <2>0, <2>1, <2>2, <2>3
  <1>4. TypeOK'
    BY <1>0, <1>2, <1>3 DEF EnumInv, TypeOK, Labels
  <1>5. SnapshotOK' /\ TurnOK'
    BY <1>0 DEF EnumInv, SnapshotOK, TurnOK, Inside
  <1>6. HandleOK'
    BY <1>0 DEF EnumInv, HandleOK
  <1> QED
    BY <1>2, <1>3, <1>4, <1>5, <1>6 DEF EnumInv, Results

LEMMA TurnStep == EnumInv /\ Turn => EnumInv'
  <1> SUFFICES ASSUME EnumInv, Turn PROVE EnumInv'
    OBVIOUS
  <1> USE DEF Turn, system
  <1>0. /\ index \in Nat /\ Len(devinfo) \in Nat /\ index <= Len(devinfo)
        /\ Interfaces' = Interfaces /\ count \in Nat
        /\ Len(devinfo) <= MaxDevices /\ None \notin Interfaces
    BY EnumAssumption DEF EnumInv, TypeOK, TurnOK, SnapshotOK, Interfaces, None
  <1>1. handles' \in [Interfaces -> 0..1] /\ \A d \in Interfaces : handles'[d] = 0
    <2>1. handles \in [Interfaces -> 0..1]
          /\ \A d \in Interfaces : handles[d] = IF devhandle = d THEN 1 ELSE 0
      BY DEF EnumInv, TypeOK, HandleOK
    <2> QED
      BY <2>1 DEF Close, Freed
  <1>2. TypeOK'
    BY <1>0, <1>1, EnumAssumption DEF EnumInv, TypeOK, Labels, Close
  <1>3. SnapshotOK' /\ TurnOK'
    BY <1>0 DEF EnumInv, SnapshotOK, TurnOK, Inside
  <1>4. HandleOK'
    BY <1>0, <1>1 DEF HandleOK, Close
  <1>5. PreparsedOK'
    BY <1>0 DEF EnumInv, PreparsedOK, Past, Inside
  <1>6. FoundOK' /\ Numbered'
    BY <1>0 DEF EnumInv, FoundOK, Numbered, Found, Wanted, Past
  <1>7. NoneMissed'
    <2>1. \A i \in 1..(index + 1) : i <= Len(devinfo) /\ Wanted(devinfo[i])
                                      => devinfo[i] \in Found \cup gone
      BY DEF EnumInv, NoneMissed, Past
    <2>2. CASE pc' = "Enum"
      BY <1>0, <2>1, <2>2 DEF NoneMissed, Found, Wanted, Past, Inside
    <2>3. CASE pc' = "Destroy" /\ index = Len(devinfo)
      <3>1. \A d \in Interfaces : Wanted(d) => d \in Found \cup gone
        BY <1>0, <2>1, <2>3 DEF EnumInv, SnapshotOK
      <3> QED
        BY <1>0, <2>3, <3>1 DEF NoneMissed, Found, Wanted, Inside
    <2>4. CASE pc' = "Destroy" /\ Limit
      <3>1. word = "hid-find-devices" /\ Len(detailvector) > DEV_NUM
        BY <1>0, <2>4, EnumAssumption DEF Limit, EnumInv, FoundOK
      <3> QED
        BY <2>4, <3>1 DEF NoneMissed, Inside
    <2> QED
      BY <1>0, <2>2, <2>3, <2>4
  <1> QED
    BY <1>2, <1>3, <1>4, <1>5, <1>6, <1>7 DEF EnumInv

LEMMA DestroyStep == EnumInv /\ Destroy => EnumInv'
  <1> SUFFICES ASSUME EnumInv, Destroy PROVE EnumInv'
    OBVIOUS
  <1> USE DEF Destroy, system
  <1>1. TypeOK'
    BY DEF EnumInv, TypeOK, Interfaces, Labels
  <1>2. SnapshotOK' /\ TurnOK' /\ HandleOK'
    BY EnumAssumption
      DEF EnumInv, TypeOK, SnapshotOK, TurnOK, HandleOK, Interfaces, Inside
  <1>3. PreparsedOK'
    BY DEF EnumInv, PreparsedOK, Interfaces, Inside
  <1>4. FoundOK' /\ Numbered' /\ NoneMissed'
    BY DEF EnumInv, FoundOK, Numbered, NoneMissed, Found, Wanted, Interfaces, Inside
  <1> QED
    BY <1>1, <1>2, <1>3, <1>4 DEF EnumInv

LEMMA GetNameStep == EnumInv /\ GetName => EnumInv'
  <1> SUFFICES ASSUME EnumInv, GetName PROVE EnumInv'
    OBVIOUS
  <1> USE DEF GetName, system, scan
  <1>0. /\ pc = "idle" /\ word = "hid-enumerate" /\ pc' \in {"idle", "Name"}
        /\ UNCHANGED <<system, scan, preparsed>> /\ Interfaces' = Interfaces
    BY DEF Interfaces
  <1>1. PICK i \in DOMAIN detailvector :
          LET d == detailvector[i].device IN
          IF Answers(d) THEN /\ devhandle' = d /\ handles' = Held(handles, d)
                             /\ pc' = "Name"
          ELSE devhandle' = Invalid /\ UNCHANGED <<handles, pc>>
    OBVIOUS
  <1>2. detailvector[i].device \in Interfaces
    BY DEF EnumInv, FoundOK, Found
  <1>3. handles' \in [Interfaces -> 0..1] /\ HandleOK'
        /\ devhandle' \in Interfaces \cup {Invalid}
    <2>1. handles \in [Interfaces -> 0..1] /\ \A d \in Interfaces : handles[d] = 0
      BY DEF EnumInv, TypeOK, HandleOK
    <2> QED
      BY <1>0, <1>1, <1>2, <2>1 DEF HandleOK, Held
  <1>4. TypeOK' /\ SnapshotOK' /\ TurnOK'
    BY <1>0, <1>3 DEF EnumInv, TypeOK, SnapshotOK, TurnOK, Labels, Inside
  <1>5. PreparsedOK' /\ FoundOK' /\ Numbered' /\ NoneMissed'
    BY <1>0 DEF EnumInv, PreparsedOK, FoundOK, Numbered, NoneMissed, Found, Wanted, Inside
  <1> QED
    BY <1>3, <1>4, <1>5 DEF EnumInv

LEMMA NameStep == EnumInv /\ Name => EnumInv'
  <1> SUFFICES ASSUME EnumInv, Name PROVE EnumInv'
    OBVIOUS
  <1> USE DEF Name, system, scan
  <1>0. Interfaces' = Interfaces /\ None \notin Interfaces
    BY DEF Interfaces, None
  <1>1. handles' \in [Interfaces -> 0..1] /\ \A d \in Interfaces : handles'[d] = 0
    <2>1. handles \in [Interfaces -> 0..1]
          /\ \A d \in Interfaces : handles[d] = IF devhandle = d THEN 1 ELSE 0
      BY DEF EnumInv, TypeOK, HandleOK
    <2> QED
      BY <2>1 DEF Close, Freed
  <1>2. TypeOK' /\ SnapshotOK' /\ TurnOK' /\ HandleOK'
    BY <1>0, <1>1
      DEF EnumInv, TypeOK, SnapshotOK, TurnOK, HandleOK, Labels, Inside, Close
  <1>3. PreparsedOK' /\ FoundOK' /\ Numbered' /\ NoneMissed'
    BY <1>0 DEF EnumInv, PreparsedOK, FoundOK, Numbered, NoneMissed, Found, Wanted, Inside
  <1> QED
    BY <1>2, <1>3 DEF EnumInv

LEMMA UnplugStep == ASSUME EnumInv, NEW d \in Interfaces, Unplug(d) PROVE EnumInv'
  <1> USE DEF Unplug, scan
  <1>0. Interfaces' = Interfaces /\ Device' = Device /\ Past' = Past /\ gone \subseteq gone'
    BY DEF Interfaces, Device, Past
  <1>1. TypeOK'
    BY <1>0 DEF EnumInv, TypeOK
  <1>2. SnapshotOK' /\ TurnOK' /\ HandleOK' /\ PreparsedOK'
    BY <1>0 DEF EnumInv, SnapshotOK, TurnOK, HandleOK, PreparsedOK
  <1>3. Found' = Found /\ \A i \in Interfaces : Wanted(i)' = Wanted(i)
    BY DEF Found, Wanted
  <1>4. \A i \in DOMAIN detailvector : detailvector[i].device \in Found
    BY DEF Found
  <1>5. FoundOK'
    BY <1>0, <1>3, <1>4 DEF EnumInv, FoundOK
  <1>6. Numbered'
    BY DEF EnumInv, Numbered
  <1>7. NoneMissed'
    <2>1. \A i \in DOMAIN devinfo : devinfo[i] \in Interfaces
      BY DEF EnumInv, TypeOK
    <2>2. index \in Nat /\ Len(devinfo) \in Nat /\ Past \in Nat
      BY EnumAssumption DEF EnumInv, TypeOK, Past
    <2>3. \A i \in 1..Past : i <= Len(devinfo) => i \in DOMAIN devinfo
      BY <2>2 DEF EnumInv, TypeOK
    <2> QED
      BY <1>0, <1>3, <2>1, <2>2, <2>3 DEF EnumInv, NoneMissed
  <1> QED
    BY <1>1, <1>2, <1>5, <1>6, <1>7 DEF EnumInv

LEMMA NextStep == EnumInv /\ [Next]_vars => EnumInv'
  <1> SUFFICES ASSUME EnumInv, [Next]_vars PROVE EnumInv'
    OBVIOUS
  <1>1. CASE UNCHANGED vars
    <2>1. /\ UNCHANGED <<devices, gone, pc, word, all, devinfo, index, count>>
          /\ UNCHANGED <<detailvector, devhandle, handles, preparsed>>
      BY <1>1 DEF vars, system, scan
    <2>2. Interfaces' = Interfaces /\ Device' = Device /\ Past' = Past /\ Found' = Found
      BY <2>1 DEF Interfaces, Device, Past, Found
    <2>3. TypeOK' /\ SnapshotOK' /\ TurnOK' /\ HandleOK' /\ PreparsedOK'
      BY <2>1, <2>2 DEF EnumInv, TypeOK, SnapshotOK, TurnOK, HandleOK, PreparsedOK
    <2>4. FoundOK' /\ Numbered' /\ NoneMissed'
      BY <2>1, <2>2 DEF EnumInv, FoundOK, Numbered, NoneMissed, Wanted
    <2> QED
      BY <2>3, <2>4 DEF EnumInv
  <1>2. CASE Next
    BY <1>2, CallStep, GetNameStep, EnumStep, DetailStep, OpenStep, AttributesStep,
       PreparsedStep, CapsStep, TurnStep, DestroyStep, NameStep, UnplugStep
      DEF Next, Step
  <1> QED
    BY <1>1, <1>2

LEMMA InvImplies == EnumInv => TypeOK /\ FoundRight /\ Numbered /\ NothingHeld
  <1> SUFFICES ASSUME EnumInv PROVE FoundRight /\ NothingHeld
    BY DEF EnumInv
  <1>1. FoundRight
    BY DEF EnumInv, FoundRight, FoundOK, NoneMissed
  <1>2. NothingHeld
    <2>1. pc \in {"idle", "Enum", "Destroy"} => \A d \in Interfaces : handles[d] = 0
      BY DEF EnumInv, HandleOK
    <2>2. pc # "Caps" =>
            \A d \in Interfaces : preparsed[d] > 0 => devices[d] = "noCaps"
      BY DEF EnumInv, PreparsedOK
    <2> QED
      BY <2>1, <2>2 DEF NothingHeld, EnumInv, TurnOK
  <1> QED
    BY <1>1, <1>2

\* The invariant of the scans: for any number of interfaces and any DEV_NUM.
THEOREM EnumInvariant == Spec => []EnumInv
  BY InitInv, NextStep, PTL DEF Spec

\* The loops of hid-enumerate and hid-find-devices keep their variables in range:
\* never more than one handle, nor more results than interfaces.
THEOREM EnumTypeOK == Spec => []TypeOK
  BY EnumInvariant, InvImplies, PTL

\* hid-enumerate returns every wanted device that stays plugged in and no other;
\* hid-find-devices may only leave some out when it is full.
THEOREM EnumFoundRight == Spec => []FoundRight
  BY EnumInvariant, InvImplies, PTL

\* The results are numbered in order, with no interface twice.
THEOREM EnumNumbered == Spec => []Numbered
  BY EnumInvariant, InvImplies, PTL

\* Handles and the device list are released on every path, preparsed data on every
\* path but the failure of HidP_GetCaps.
THEOREM EnumNothingHeld == Spec => []NothingHeld
  BY EnumInvariant, InvImplies, PTL
=============================================================================
