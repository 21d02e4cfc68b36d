---------------------------- MODULE RawHidProofs ----------------------------
(***************************************************************************)
(* hid_listen gives back what an attempt has opened and prints the reports *)
(* in order, for any set of device nodes and any number of plugs, reports  *)
(* and failures, on the three systems.  NothingLeaks speaks of the ends of *)
(* an attempt; HandleInv adds what is held at each step between: Linux has *)
(* at most the descriptor of the round before open, which the next round   *)
(* closes, the other systems have nothing open between two devices; while  *)
(* a device is tried its handle is the only one, the preparsed data live   *)
(* from one call to the next, and Windows has one list more than devices   *)
(* it has returned.                                                        *)
(***************************************************************************)
EXTENDS RawHid, SequenceTheorems, TLAPS

Trying == pc \in {"attributes", "preparsed", "caps", "memory"}
Attempt == pc = "open" \/ Trying

HandleInv ==
    /\ pc \in {"wait", "open", "attributes", "preparsed", "caps", "memory", "read", "pending", "cancel"}
    /\ platform \in {"linux", "darwin", "windows"}
    /\ infos \in Int /\ opens \in Int
    /\ pc = "wait" => open = {}
    /\ pc = "open" => open \subseteq (IF platform = "linux" THEN {fd} ELSE {})
    /\ Trying \/ Listening => open = {fd}
    /\ pc # "caps" => hid_data = None
    /\ platform = "windows" => infos = IF Attempt THEN opens + 1 ELSE opens
    /\ list \subseteq Nodes
    /\ platform = "darwin" /\ pc = "memory" => fd \in Nodes

LEMMA HandleInit == Init => HandleInv
  BY HidAssumption DEF Init, HandleInv, Trying, Attempt, Listening

\* The beginning and the end of an attempt.
LEMMA AttemptStep ==
    ASSUME HandleInv, Start \/ NotFound PROVE HandleInv'
  <1> USE DEF HandleInv, Trying, Attempt, Listening
  <1>1. CASE Start
    <2>1. UNCHANGED <<platform, open, hid_data, opens>> /\ pc = "wait"
      BY <1>1 DEF Start, world
    <2>2. \/ /\ pc' = "open" /\ list' \subseteq Nodes
             /\ infos' = IF platform = "windows" THEN infos + 1 ELSE infos
          \/ pc' = "wait" /\ UNCHANGED <<list, infos>>
      BY <1>1, <2>1 DEF Start, Plugged
    <2> QED
      BY <2>1, <2>2
  <1>2. CASE NotFound
    <2>1. UNCHANGED <<platform, hid_data, opens, list, fd>> /\ pc = "open" /\ pc' = "wait"
      BY <1>2 DEF NotFound, Failed, world
    <2>2. open' = {}
      BY <1>2, <2>1 DEF NotFound, Close
    <2>3. infos' = IF platform = "windows" THEN infos - 1 ELSE infos
      BY <1>2 DEF NotFound
    <2> QED
      BY <2>1, <2>2, <2>3
  <1> QED
    BY <1>1, <1>2

\* What every step between them leaves alone.
Between ==
    \/ linux_open \/ linux_ioctl \/ linux_malloc
    \/ windows_open \/ HidD_GetAttributes \/ HidD_GetPreparsedData \/ HidP_GetCaps
    \/ windows_malloc \/ darwin_open \/ darwin_malloc

LEMMA BetweenKept ==
    ASSUME HandleInv, Between
    PROVE  /\ UNCHANGED <<platform, infos>> /\ list' \subseteq Nodes
           /\ opens' = IF pc' = "read" THEN opens + 1 ELSE opens
  <1> USE DEF world, Opened, Failed, On, Skip
  <1>1. UNCHANGED <<platform, infos>>
    BY DEF Between, linux_open, linux_ioctl, linux_malloc, windows_open, HidD_GetAttributes,
           HidD_GetPreparsedData, HidP_GetCaps, windows_malloc, darwin_open, darwin_malloc
  <1>2. list' \subseteq list
    BY DEF Between, linux_open, linux_ioctl, linux_malloc, windows_open, HidD_GetAttributes,
           HidD_GetPreparsedData, HidP_GetCaps, windows_malloc, darwin_open, darwin_malloc
  <1>3. opens' = IF pc' = "read" THEN opens + 1 ELSE opens
    BY DEF Between, linux_open, linux_ioctl, linux_malloc, windows_open, HidD_GetAttributes,
           HidD_GetPreparsedData, HidP_GetCaps, windows_malloc, darwin_open, darwin_malloc
  <1> QED
    BY <1>1, <1>2, <1>3 DEF HandleInv

\* The loop of Linux.
LEMMA LinuxStep ==
    ASSUME HandleInv, linux_open \/ linux_ioctl \/ linux_malloc PROVE HandleInv'
  <1>1. /\ UNCHANGED <<platform, infos, hid_data>> /\ platform = "linux"
        /\ list' \subseteq Nodes /\ opens' \in Int
    BY BetweenKept DEF Between, linux_open, linux_ioctl, linux_malloc, HandleInv
  <1>2. hid_data = None /\ infos \in Int
    BY DEF HandleInv, linux_open, linux_ioctl, linux_malloc
  <1>3. CASE linux_open
    <2>1. open \ {fd} = {}
      BY <1>1, <1>3 DEF HandleInv, linux_open
    <2>2. PICK n : \/ pc' = "open" /\ open' = {}
                   \/ pc' = "attributes" /\ open' = {n} /\ fd' = n
      BY <1>3, <2>1 DEF linux_open, Skip, On
    <2> QED
      BY <1>1, <1>2, <2>2 DEF HandleInv, Trying, Attempt, Listening
  <1>4. CASE linux_ioctl
    <2>1. open = {fd} /\ UNCHANGED <<open, fd>> /\ pc' \in {"memory", "open"}
      BY <1>4 DEF HandleInv, Trying, linux_ioctl, On
    <2> QED
      BY <1>1, <1>2, <2>1 DEF HandleInv, Trying, Attempt, Listening
  <1>5. CASE linux_malloc
    <2>1. /\ open = {fd} /\ UNCHANGED fd
          /\ \/ pc' = "read" /\ open' = open
             \/ pc' = "wait" /\ open' = {}
      BY <1>5 DEF HandleInv, Trying, linux_malloc, Opened, Failed, Close
    <2> QED
      BY <1>1, <1>2, <2>1 DEF HandleInv, Trying, Attempt, Listening
  <1> QED
    BY <1>3, <1>4, <1>5

\* The loop of Windows: each way out of a device closes its handle.
LEMMA WindowsStep ==
    ASSUME HandleInv,
           \/ windows_open \/ HidD_GetAttributes \/ HidD_GetPreparsedData \/ HidP_GetCaps
           \/ windows_malloc
    PROVE  HandleInv'
  <1>1. /\ UNCHANGED <<platform, infos>> /\ platform = "windows" /\ list' \subseteq Nodes
        /\ opens' = IF pc' = "read" THEN opens + 1 ELSE opens
    BY BetweenKept DEF Between, windows_open, HidD_GetAttributes, HidD_GetPreparsedData,
                       HidP_GetCaps, windows_malloc
  <1>2. infos = opens + 1 /\ opens \in Int
    BY <1>1 DEF HandleInv, Attempt, Trying, windows_open, HidD_GetAttributes,
                HidD_GetPreparsedData, HidP_GetCaps, windows_malloc
  <1>3. CASE windows_open
    <2>1. open = {} /\ hid_data' = None
      BY <1>1, <1>3 DEF HandleInv, windows_open
    <2>2. PICK n : \/ pc' = "open" /\ open' = {}
                   \/ pc' = "attributes" /\ open' = {n} /\ fd' = n
      BY <1>3, <2>1 DEF windows_open, Skip, On
    <2> QED
      BY <1>1, <1>2, <2>1, <2>2 DEF HandleInv, Trying, Attempt, Listening
  <1>4. CASE HidD_GetAttributes \/ HidD_GetPreparsedData \/ HidP_GetCaps
    <2>1. open = {fd} /\ fd' = fd
      BY <1>4 DEF HandleInv, Trying, HidD_GetAttributes, HidD_GetPreparsedData, HidP_GetCaps
    <2>2. \/ pc' \in {"preparsed", "caps", "memory"} /\ open' = open
          \/ pc' = "open" /\ open' = {}
      BY <1>4, <2>1 DEF HidD_GetAttributes, HidD_GetPreparsedData, HidP_GetCaps, On, Close
    <2>3. pc' # "caps" => hid_data' = None
      BY <1>4 DEF HandleInv, HidD_GetAttributes, HidD_GetPreparsedData, HidP_GetCaps, On
    <2> QED
      BY <1>1, <1>2, <2>1, <2>2, <2>3 DEF HandleInv, Trying, Attempt, Listening
  <1>5. CASE windows_malloc
    <2>1. open = {fd} /\ UNCHANGED fd /\ hid_data' = None
      BY <1>5 DEF HandleInv, Trying, windows_malloc
    <2>2. \/ pc' = "read" /\ open' = open
          \/ pc' = "open" /\ open' = {}
      BY <1>5, <2>1 DEF windows_malloc, Opened, On, Close
    <2> QED
      BY <1>1, <1>2, <2>1, <2>2 DEF HandleInv, Trying, Attempt, Listening
  <1> QED
    BY <1>3, <1>4, <1>5

LEMMA DarwinStep ==
    ASSUME HandleInv, darwin_open \/ darwin_malloc PROVE HandleInv'
  <1>1. /\ UNCHANGED <<platform, infos, hid_data>> /\ platform = "darwin"
        /\ list' \subseteq Nodes /\ opens' \in Int /\ infos \in Int /\ hid_data = None
    BY BetweenKept DEF Between, darwin_open, darwin_malloc, HandleInv
  <1>2. CASE darwin_open
    <2>1. open = {}
      BY <1>1, <1>2 DEF HandleInv, darwin_open
    <2>2. \/ \E n \in list : pc' = "memory" /\ open' = {n} /\ fd' = n
          \/ pc' = "wait" /\ open' = {}
      BY <1>2, <2>1 DEF darwin_open, On, Failed
    <2> QED
      BY <1>1, <2>2 DEF HandleInv, Trying, Attempt, Listening
  <1>3. CASE darwin_malloc
    <2>1. /\ open = {fd} /\ UNCHANGED fd
          /\ \/ pc' = "read" /\ open' = open
             \/ pc' = "wait" /\ open' = {}
      BY <1>3 DEF HandleInv, Trying, darwin_malloc, Opened, Failed, Close
    <2> QED
      BY <1>1, <2>1 DEF HandleInv, Trying, Attempt, Listening
  <1> QED
    BY <1>2, <1>3

\* A step of the reading: a read that fails closes the handle.
LEMMA ReadStep ==
    ASSUME HandleInv, linux_read \/ darwin_read \/ windows_read \/ windows_wait \/ windows_cancel
    PROVE  HandleInv'
  <1> USE DEF HandleInv, Trying, Attempt, Listening
  <1>1. /\ UNCHANGED <<fd, platform, hid_data, infos, opens, list>> /\ open = {fd}
        /\ pc \in {"read", "pending", "cancel"}
    BY DEF lists, linux_read, darwin_read, windows_read, windows_wait, windows_cancel, world
  <1>2. \/ pc' \in {"read", "pending", "cancel"} /\ open' = open
        \/ pc' = "wait" /\ open' = open \ {fd}
    BY DEF linux_read, darwin_read, windows_read, windows_wait, windows_cancel, rawhid_close, Return, Close
  <1> QED
    BY <1>1, <1>2

\* Nothing the devices do opens or closes a handle.
LEMMA DeviceStep ==
    ASSUME HandleInv, Report \/ (\E n \in Nodes : Plug(n) \/ Unplug(n)) \/ UNCHANGED vars
    PROVE  HandleInv'
  BY DEF HandleInv, Trying, Attempt, Listening, Report, Plug, Unplug, vars, world, lists

LEMMA HandleStep == HandleInv /\ [Next]_vars => HandleInv'
  BY AttemptStep, LinuxStep, WindowsStep, DarwinStep, ReadStep, DeviceStep DEF Next, Program

\* The inductive invariant of the handles of hid_listen.
THEOREM HandleInvariant == Spec => []HandleInv
  BY HandleInit, HandleStep, PTL DEF Spec

\* Whatever fails while devices are tried, an attempt that returns NULL has
\* given back its handles, data and list, and a listening program has one
\* handle open and, on Windows, one list for each device it was returned.
THEOREM RawHidNothingLeaks == Spec => []NothingLeaks
  <1>1. HandleInv => NothingLeaks
    BY DEF HandleInv, NothingLeaks, Attempt, Trying, Listening
  <1> QED
    BY <1>1, HandleInvariant, PTL

(***************************************************************************)
(* The order of the reports.  On Linux and Mac OS X the system's queue     *)
(* holds exactly what was sent and not yet returned, on Mac OS X followed  *)
(* by the removal of a device that is no longer there.  On Windows a read  *)
(* may be given up with its report, so that only the order is left: what   *)
(* was returned comes before the read under way, and that before what the  *)
(* system holds.                                                           *)
(***************************************************************************)
Removed ==
    /\ platform = "darwin" /\ Len(queue) = sent - Len(got) + 1
    /\ queue[Len(queue)] = Gone
    /\ Listening => fd \in Nodes /\ present[fd] = None

PosixOrder ==
    /\ io = Idle /\ pc \notin {"pending", "cancel"}
    /\ Len(got) <= sent
    /\ \A i \in 1..Len(got) : got[i] = i
    /\ \A j \in 1..(sent - Len(got)) : queue[j] = Len(got) + j
    /\ Len(queue) = sent - Len(got) \/ Removed

Increasing(q) ==
    /\ \A i \in DOMAIN q : q[i] \in 1..sent
    /\ \A i, j \in DOMAIN q : i < j => q[i] < q[j]

WindowsOrder ==
    /\ io \in {Idle, Pending} \cup 1..sent
    /\ pc = "read" => io = Idle
    /\ pc \in {"pending", "cancel"} => io # Idle
    /\ io = Pending => queue = <<>>
    /\ Increasing(got) /\ Increasing(queue)
    /\ \A i \in DOMAIN got, j \in DOMAIN queue : got[i] < queue[j]
    /\ io > 0 => /\ \A i \in DOMAIN got : got[i] < io
                 /\ \A j \in DOMAIN queue : io < queue[j]

OrderInv ==
    /\ sent \in Nat /\ got \in Seq(Nat) /\ queue \in Seq(Nat)
    /\ present \in [Nodes -> Kinds \cup {None}]
    /\ platform = "windows" => WindowsOrder
    /\ platform # "windows" => PosixOrder

LEMMA OrderInit == Init => OrderInv
  <1> SUFFICES ASSUME Init PROVE OrderInv
    OBVIOUS
  <1>1. sent = 0 /\ got = <<>> /\ queue = <<>> /\ io = 0 /\ pc = "wait"
    BY DEF Init, Idle
  <1>2. present \in [Nodes -> Kinds \cup {None}]
    BY DEF Init
  <1>3. WindowsOrder
    BY <1>1 DEF WindowsOrder, Increasing, Idle, Pending
  <1>4. PosixOrder
    <2>1. Len(got) = 0 /\ Len(queue) = 0
      BY <1>1
    <2>2. 0 - 0 = 0 /\ 1..0 = {} /\ 0 <= 0
      OBVIOUS
    <2> QED
      BY <1>1, <2>1, <2>2 DEF PosixOrder, Idle
  <1> QED
    BY <1>1, <1>2, <1>3, <1>4 DEF OrderInv

\* A report goes to the read that waits for it, or to the queue.
LEMMA ReportOrder ==
    ASSUME HandleInv, OrderInv, Report
    PROVE  OrderInv'
  <1>1. sent' = sent + 1 /\ got' = got /\ platform' = platform /\ present' = present
        /\ pc' = pc /\ fd' = fd /\ sent \in Nat
    BY DEF Report, world, OrderInv
  <1>2. CASE io = Pending
    <2>1. io' = sent + 1 /\ queue' = queue
      BY <1>2 DEF Report
    <2>2. platform = "windows"
      BY <1>2 DEF OrderInv, PosixOrder, Pending, Idle
    <2>3. queue = <<>> /\ WindowsOrder
      BY <1>2, <2>2 DEF OrderInv, WindowsOrder
    <2>4. WindowsOrder'
      <3>1. io' \in 1..sent' /\ io' > 0 /\ io' # Idle /\ io' # Pending
        BY <1>1, <2>1 DEF Pending, Idle
      <3>2. \A i \in DOMAIN got : got[i] \in 1..sent /\ got[i] < io'
        BY <1>1, <2>1, <2>3 DEF WindowsOrder, Increasing
      <3>3. Increasing(got)'
        BY <1>1, <2>3 DEF WindowsOrder, Increasing
      <3>4. DOMAIN queue' = {}
        BY <2>1, <2>3
      <3>5. pc # "read"
        BY <1>2, <2>3 DEF WindowsOrder, Pending, Idle
      <3> QED
        BY <1>1, <3>1, <3>2, <3>3, <3>4, <3>5 DEF WindowsOrder, Increasing
    <2> QED
      BY <1>1, <2>1, <2>2, <2>4 DEF OrderInv
  <1>3. CASE io # Pending
    <2>1. io' = io /\ queue' = Append(queue, sent + 1)
      BY <1>3 DEF Report
    <2>2. queue \in Seq(Nat) /\ queue' \in Seq(Nat) /\ Len(queue') = Len(queue) + 1
          /\ DOMAIN queue' = 1..(Len(queue) + 1) /\ DOMAIN queue = 1..Len(queue)
          /\ queue'[Len(queue) + 1] = sent + 1
          /\ \A j \in 1..Len(queue) : queue'[j] = queue[j]
      BY <1>1, <2>1 DEF OrderInv
    <2>3. ASSUME platform = "windows" PROVE WindowsOrder'
      <3>1. WindowsOrder
        BY <2>3 DEF OrderInv
      <3>a. /\ \A i \in DOMAIN got : got[i] \in 1..sent
            /\ \A i \in 1..Len(queue) : queue[i] \in 1..sent
            /\ \A i, j \in DOMAIN got : i < j => got[i] < got[j]
            /\ \A i, j \in 1..Len(queue) : i < j => queue[i] < queue[j]
            /\ \A i \in DOMAIN got, j \in 1..Len(queue) : got[i] < queue[j]
        BY <2>2, <3>1 DEF WindowsOrder, Increasing
      <3>b. \A k \in 1..sent : k \in 1..(sent + 1) /\ k < sent + 1
        BY <1>1
      <3>c. \A j \in 1..(Len(queue) + 1) : j \in 1..Len(queue) \/ j = Len(queue) + 1
        BY <2>2
      <3>2. Increasing(got)' /\ Increasing(queue)'
        <4>1. Increasing(got)'
          BY <1>1, <3>a, <3>b DEF Increasing
        <4>2. \A j \in DOMAIN queue' : queue'[j] \in 1..sent'
          <5>1. ASSUME NEW j \in 1..Len(queue) PROVE queue'[j] \in 1..(sent + 1)
            <6>1. queue'[j] = queue[j] /\ queue[j] \in 1..sent
              BY <2>2, <3>a
            <6> QED
              BY <3>b, <6>1
          <5>2. queue'[Len(queue) + 1] \in 1..(sent + 1)
            BY <1>1, <2>2
          <5>3. \A j \in 1..(Len(queue) + 1) : queue'[j] \in 1..(sent + 1)
            BY <3>c, <5>1, <5>2
          <5> QED
            BY <1>1, <2>2, <5>3
        <4>3. ASSUME NEW i \in DOMAIN queue', NEW j \in DOMAIN queue', i < j
              PROVE  queue'[i] < queue'[j]
          <5>1. i \in 1..Len(queue)
            BY <2>2, <4>3
          <5> QED
            BY <2>2, <3>a, <3>b, <3>c, <4>3, <5>1
        <4> QED
          BY <4>1, <4>2, <4>3 DEF Increasing
      <3>3. \A i \in DOMAIN got, j \in DOMAIN queue' : got[i] < queue'[j]
        BY <2>2, <3>a, <3>b, <3>c
      <3> QED
        BY <1>1, <1>3, <2>1, <2>2, <3>1, <3>2, <3>3 DEF WindowsOrder, Pending, Idle
    <2>4. ASSUME platform # "windows" PROVE PosixOrder'
      <3>1. PosixOrder /\ Len(got) \in Nat
        BY <2>4 DEF OrderInv
      <3>2. present[fd] = "listen" /\ Listening
        BY DEF Report, Listens
      <3>3. Len(queue) = sent - Len(got)
        BY <3>1, <3>2 DEF PosixOrder, Removed, None
      <3>4. PICK n \in Nat, m \in Nat : n = Len(got) /\ m = sent
        BY <1>1, <3>1
      <3>5. n <= m /\ n <= m + 1 /\ Len(queue) = m - n /\ Len(queue') = (m + 1) - n
        BY <2>2, <3>1, <3>3, <3>4 DEF PosixOrder
      <3>6. \A j \in 1..(m - n) : queue[j] = n + j
        BY <3>1, <3>4 DEF PosixOrder
      <3>7. \A j \in 1..((m + 1) - n) : queue'[j] = n + j
        <4> SUFFICES ASSUME NEW j \in 1..((m + 1) - n) PROVE queue'[j] = n + j
          OBVIOUS
        <4>1. j \in 1..(m - n) \/ j = (m - n) + 1
          BY <3>5
        <4>2. CASE j \in 1..(m - n)
          BY <2>2, <3>5, <3>6, <4>2
        <4>3. CASE j = (m - n) + 1
          <5>1. queue'[j] = m + 1
            BY <2>2, <3>4, <3>5, <4>3
          <5>2. n + j = m + 1
            BY <4>3
          <5> QED
            BY <5>1, <5>2
        <4> QED
          BY <4>1, <4>2, <4>3
      <3> QED
        BY <1>1, <2>1, <3>1, <3>4, <3>5, <3>7 DEF PosixOrder
    <2> QED
      BY <1>1, <2>2, <2>3, <2>4 DEF OrderInv
  <1> QED
    BY <1>2, <1>3

\* What is plugged: a device that is open is not plugged again, and its
\* removal comes after every report.
LEMMA PlugOrder ==
    ASSUME HandleInv, OrderInv, NEW n \in Nodes, Plug(n) \/ Unplug(n)
    PROVE  OrderInv'
  <1>1. UNCHANGED <<platform, pc, fd, io, got, sent>>
    BY DEF Plug, Unplug, session
  <1>2. present' \in [Nodes -> Kinds \cup {None}]
    BY DEF Plug, Unplug, OrderInv
  <1>3. platform = "windows" => queue' = queue
    BY DEF Plug, Unplug, session
  <1>4. CASE queue' = queue
    <2>1. platform = "windows" => WindowsOrder'
      BY <1>1, <1>4 DEF OrderInv, WindowsOrder, Increasing
    <2>2. Removed => Removed'
      <3> SUFFICES ASSUME Removed, Listening' PROVE fd \in Nodes /\ present'[fd] = None
        BY <1>1, <1>4 DEF Removed
      <3>1. Listening /\ present[fd] = None /\ open = {fd} /\ fd \in Nodes
        BY <1>1 DEF Listening, Removed, HandleInv
      <3> QED
        BY <3>1 DEF Plug, Unplug, OrderInv
    <2>3. platform # "windows" => PosixOrder'
      BY <1>1, <1>4, <2>2 DEF OrderInv, PosixOrder
    <2> QED
      BY <1>1, <1>2, <1>4, <2>1, <2>3 DEF OrderInv
  <1>5. CASE queue' # queue
    <2>1. /\ platform = "darwin" /\ Listening /\ fd = n /\ queue' = Append(queue, Gone)
          /\ present[n] # None /\ present'[fd] = None
      BY <1>5 DEF Plug, Unplug, session, OrderInv
    <2>2. PosixOrder /\ Len(queue) = sent - Len(got)
      BY <2>1 DEF OrderInv, PosixOrder, Removed
    <2>3. queue \in Seq(Nat) /\ queue' \in Seq(Nat) /\ Len(queue') = Len(queue) + 1
          /\ queue'[Len(queue) + 1] = Gone
          /\ \A j \in 1..Len(queue) : queue'[j] = queue[j]
      BY <2>1 DEF OrderInv, Gone
    <2>4. Removed'
      BY <1>1, <2>1, <2>2, <2>3 DEF Removed
    <2>5. PosixOrder'
      BY <1>1, <2>2, <2>3, <2>4 DEF PosixOrder, OrderInv
    <2> QED
      BY <1>1, <1>2, <2>1, <2>3, <2>5 DEF OrderInv
  <1> QED
    BY <1>4, <1>5

\* A device that is opened starts with no report; otherwise an attempt leaves
\* the session before it alone.
LEMMA OpenOrder ==
    ASSUME HandleInv, OrderInv, Start \/ Between \/ NotFound PROVE OrderInv'
  <1>1. platform' = platform /\ present' = present
    BY DEF Start, Between, linux_open, linux_ioctl, linux_malloc, windows_open, HidD_GetAttributes,
           HidD_GetPreparsedData, HidP_GetCaps, windows_malloc, darwin_open, darwin_malloc,
           NotFound, world
  <1>2. \/ pc' \in {"wait", "open", "attributes", "preparsed", "caps", "memory"} /\ UNCHANGED session
        \/ Opened /\ pc = "memory" /\ fd' = fd
    BY DEF Start, Between, linux_open, linux_ioctl, linux_malloc, windows_open, HidD_GetAttributes,
           HidD_GetPreparsedData, HidP_GetCaps, windows_malloc, darwin_open, darwin_malloc,
           NotFound, Skip, Failed, On
  <1>3. CASE /\ pc' \in {"wait", "open", "attributes", "preparsed", "caps", "memory"}
             /\ UNCHANGED session
    <2>1. queue' = queue /\ io' = io /\ got' = got /\ sent' = sent /\ ~Listening'
          /\ pc' \notin {"read", "pending", "cancel"}
      BY <1>3 DEF session, Listening
    <2>2. platform = "windows" => WindowsOrder'
      BY <1>1, <2>1 DEF OrderInv, WindowsOrder, Increasing
    <2>3. platform # "windows" => PosixOrder'
      BY <1>1, <2>1 DEF OrderInv, PosixOrder, Removed
    <2> QED
      BY <1>1, <2>1, <2>2, <2>3 DEF OrderInv
  <1>4. CASE Opened /\ pc = "memory" /\ fd' = fd
    <2>1. /\ pc' = "read" /\ io' = Idle /\ got' = <<>> /\ sent' = 0
          /\ queue' = IF platform = "darwin" /\ present[fd] = None THEN <<Gone>> ELSE <<>>
      BY <1>4 DEF Opened
    <2>2. Len(<<>>) = 0 /\ 0 - 0 = 0 /\ 1..0 = {} /\ 0 <= 0 /\ 0 + 1 = 1
      OBVIOUS
    <2>3. CASE queue' = <<>>
      <3>1. WindowsOrder'
        BY <2>1, <2>3 DEF WindowsOrder, Increasing, Idle, Pending
      <3>2. PosixOrder'
        BY <2>1, <2>2, <2>3 DEF PosixOrder, Idle
      <3> QED
        BY <1>1, <2>1, <2>3, <3>1, <3>2 DEF OrderInv
    <2>4. CASE queue' = <<Gone>> /\ platform = "darwin" /\ present[fd] = None
      <3>1. fd \in Nodes
        BY <1>4, <2>4 DEF HandleInv
      <3>2. <<Gone>> \in Seq(Nat) /\ Len(<<Gone>>) = 1 /\ <<Gone>>[1] = Gone
        BY DEF Gone
      <3>3. Removed'
        BY <1>1, <1>4, <2>1, <2>2, <2>4, <3>1, <3>2 DEF Removed
      <3>4. PosixOrder'
        BY <2>1, <2>2, <3>3 DEF PosixOrder, Idle
      <3> QED
        BY <1>1, <2>1, <2>4, <3>2, <3>4 DEF OrderInv
    <2> QED
      BY <2>1, <2>3, <2>4
  <1> QED
    BY <1>2, <1>3, <1>4

\* The first report of the queue, or the removal, is taken out of it.
LEMMA HeadOrder ==
    ASSUME OrderInv, PosixOrder, queue # <<>>
    PROVE  /\ sent - Len(got) > 0 => Head(queue) = Len(got) + 1
           /\ sent - Len(got) = 0 => Removed /\ Head(queue) = Gone /\ Tail(queue) = <<>>
  <1>1. PICK n \in Nat, m \in Nat : n = Len(got) /\ m = sent /\ n <= m
    BY DEF OrderInv, PosixOrder
  <1>2. queue \in Seq(Nat) /\ Len(queue) \in Nat /\ Len(queue) > 0 /\ Head(queue) = queue[1]
    BY DEF OrderInv
  <1>3. \A j \in 1..(m - n) : queue[j] = n + j
    BY <1>1 DEF PosixOrder
  <1>4. ASSUME m - n > 0 PROVE Head(queue) = n + 1
    <2>1. 1 \in 1..(m - n)
      BY <1>1, <1>4
    <2> QED
      BY <1>2, <1>3, <2>1
  <1>5. ASSUME m - n = 0 PROVE Removed /\ Head(queue) = Gone /\ Tail(queue) = <<>>
    <2>1. Removed
      BY <1>1, <1>2, <1>5 DEF PosixOrder
    <2>2. Len(queue) = 1 /\ queue[Len(queue)] = Gone
      BY <1>1, <1>5, <2>1 DEF Removed
    <2>3. Len(Tail(queue)) = 0 /\ Tail(queue) \in Seq(Nat)
      BY <1>2, <2>2
    <2>4. Tail(queue) = <<>>
      BY <2>3, EmptySeq
    <2> QED
      BY <1>2, <2>1, <2>2, <2>4
  <1> QED
    BY <1>1, <1>4, <1>5

\* A read that returns the first report of the queue, on Linux and Mac OS X.
LEMMA PosixTake ==
    ASSUME OrderInv, platform # "windows", queue # <<>>, Head(queue) # Gone \/ platform = "linux",
           queue' = Tail(queue), got' = Append(got, Head(queue)), pc = "read", pc' = "read",
           UNCHANGED <<platform, present, fd, io, sent>>
    PROVE  OrderInv'
  <1>1. PosixOrder /\ sent \in Nat /\ got \in Seq(Nat) /\ queue \in Seq(Nat)
    BY DEF OrderInv
  <1>2. PICK n \in Nat, m \in Nat : n = Len(got) /\ m = sent
    BY <1>1
  <1>3. n < m /\ Head(queue) = n + 1
    <2>1. ~(m - n = 0)
      BY <1>1, <1>2, HeadOrder DEF Removed
    <2>2. n < m
      BY <1>1, <1>2, <2>1 DEF PosixOrder
    <2>3. m - n > 0
      BY <2>2
    <2> QED
      BY <1>1, <1>2, <2>2, <2>3, HeadOrder
  <1>4. /\ got' \in Seq(Nat) /\ Len(got') = n + 1 /\ got'[n + 1] = n + 1
        /\ \A i \in 1..n : got'[i] = got[i]
    BY <1>1, <1>2, <1>3
  <1>5. /\ queue' \in Seq(Nat) /\ Len(queue') = Len(queue) - 1 /\ Len(queue) \in Nat \ {0}
        /\ \A j \in 1..(Len(queue) - 1) : queue'[j] = queue[j + 1]
    BY <1>1, EmptySeq
  <1>6. /\ \A i \in 1..n : got[i] = i
        /\ \A j \in 1..(m - n) : queue[j] = n + j
        /\ Len(queue) = m - n \/ Removed
    BY <1>1, <1>2 DEF PosixOrder
  <1>7. \A i \in 1..(n + 1) : got'[i] = i
    BY <1>4, <1>6
  <1>8. Len(queue) >= m - n
    BY <1>2, <1>6 DEF Removed
  <1>9. \A j \in 1..(m - (n + 1)) : queue'[j] = (n + 1) + j
    <2> SUFFICES ASSUME NEW j \in 1..(m - (n + 1)) PROVE queue'[j] = (n + 1) + j
      OBVIOUS
    <2>1. j \in 1..(Len(queue) - 1) /\ j + 1 \in 1..(m - n)
      BY <1>3, <1>5, <1>8
    <2> QED
      BY <1>5, <1>6, <2>1
  <1>10. Len(queue') = m - (n + 1) \/ Removed'
    <2>1. CASE Len(queue) = m - n
      BY <1>5, <2>1
    <2>2. CASE Removed
      <3>1. platform = "darwin" /\ Len(queue) = (m - n) + 1 /\ queue[Len(queue)] = Gone
        BY <1>2, <2>2 DEF Removed
      <3>2. fd \in Nodes /\ present[fd] = None
        BY <2>2 DEF Removed, Listening
      <3>3. Len(queue') = (m - (n + 1)) + 1 /\ Len(queue) - 1 \in 1..(Len(queue) - 1)
        BY <1>3, <1>5, <3>1
      <3>4. queue'[Len(queue')] = Gone
        BY <1>5, <3>1, <3>3
      <3> QED
        BY <1>2, <1>4, <3>1, <3>2, <3>3, <3>4 DEF Removed
    <2> QED
      BY <1>6, <2>1, <2>2
  <1>11. PosixOrder'
    <2>1. n + 1 <= m
      BY <1>3
    <2>2. io = Idle
      BY <1>1 DEF PosixOrder
    <2> QED
      BY <1>2, <1>4, <1>7, <1>9, <1>10, <2>1, <2>2 DEF PosixOrder
  <1> QED
    BY <1>1, <1>4, <1>5, <1>11 DEF OrderInv

\* The removal is the last that a read finds.
LEMMA PosixGone ==
    ASSUME OrderInv, platform = "darwin", queue # <<>>, Head(queue) = Gone,
           queue' = Tail(queue), pc' = "wait", UNCHANGED <<platform, present, io, got, sent>>
    PROVE  OrderInv'
  <1>1. PosixOrder /\ sent \in Nat /\ got \in Seq(Nat) /\ queue \in Seq(Nat)
    BY DEF OrderInv
  <1>2. PICK n \in Nat, m \in Nat : n = Len(got) /\ m = sent
    BY <1>1
  <1>3. m - n = 0
    <2>1. n <= m
      BY <1>1, <1>2 DEF PosixOrder
    <2>2. ~(n + 1 = 0)
      BY <1>2
    <2>3. ~(m - n > 0)
      BY <1>1, <1>2, <2>2, HeadOrder DEF Gone
    <2> QED
      BY <1>2, <2>1, <2>3
  <1>4. queue' = <<>> /\ Len(queue') = 0
    BY <1>1, <1>2, <1>3, HeadOrder, EmptySeq
  <1>5. \A j \in 1..(m - n) : queue'[j] = n + j
    BY <1>3
  <1>6. PosixOrder'
    BY <1>1, <1>2, <1>3, <1>4, <1>5 DEF PosixOrder
  <1> QED
    BY <1>1, <1>4, <1>6 DEF OrderInv

\* What a read returns comes after all that was returned.
LEMMA AppendOrder ==
    ASSUME sent \in Nat, got \in Seq(Nat), Increasing(got), NEW r \in 1..sent,
           \A i \in DOMAIN got : got[i] < r,
           got' = Append(got, r), sent' = sent
    PROVE  /\ got' \in Seq(Nat) /\ Increasing(got)'
           /\ \A b \in Nat : b > r => \A i \in DOMAIN got' : got'[i] < b
  <1>1. /\ got' \in Seq(Nat) /\ Len(got) \in Nat
        /\ DOMAIN got = 1..Len(got) /\ DOMAIN got' = 1..(Len(got) + 1)
        /\ got'[Len(got) + 1] = r /\ \A i \in 1..Len(got) : got'[i] = got[i]
    BY AppendProperties, LenProperties
  <1>2. \A i \in 1..Len(got) : got[i] \in 1..sent /\ got[i] < r
    BY <1>1 DEF Increasing
  <1>3. \A i \in 1..(Len(got) + 1) : i \in 1..Len(got) \/ i = Len(got) + 1
    BY <1>1
  <1>4. \A i \in DOMAIN got' : got'[i] \in 1..sent
    BY <1>1, <1>2, <1>3
  <1>5. ASSUME NEW i \in DOMAIN got', NEW j \in DOMAIN got', i < j
        PROVE  got'[i] < got'[j]
    <2>1. i \in 1..Len(got)
      BY <1>1, <1>5
    <2>2. CASE j \in 1..Len(got)
      BY <1>1, <2>1, <2>2, <1>5 DEF Increasing
    <2>3. CASE j = Len(got) + 1
      BY <1>1, <1>2, <2>1, <2>3
    <2> QED
      BY <1>1, <1>3, <2>2, <2>3
  <1>6. ASSUME NEW b \in Nat, b > r, NEW i \in DOMAIN got' PROVE got'[i] < b
    <2>1. CASE i \in 1..Len(got)
      <3>1. got'[i] = got[i] /\ got[i] < r /\ got[i] \in Nat
        BY <1>1, <1>2, <2>1
      <3> QED
        BY <1>6, <3>1
    <2>2. CASE i = Len(got) + 1
      BY <1>1, <1>6, <2>2
    <2> QED
      BY <1>1, <1>3, <2>1, <2>2
  <1> QED
    BY <1>1, <1>4, <1>5, <1>6 DEF Increasing

\* ReadFile that finds a report.
LEMMA WindowsTake ==
    ASSUME OrderInv, platform = "windows", queue # <<>>, pc = "read", pc' = "read",
           queue' = Tail(queue), got' = Append(got, Head(queue)),
           UNCHANGED <<platform, present, io, sent>>
    PROVE  OrderInv'
  <1>1. WindowsOrder /\ sent \in Nat /\ got \in Seq(Nat) /\ queue \in Seq(Nat) /\ io = Idle
    BY DEF OrderInv, WindowsOrder
  <1>2. /\ queue' \in Seq(Nat) /\ Len(queue) \in Nat \ {0} /\ Head(queue) = queue[1]
        /\ DOMAIN queue = 1..Len(queue) /\ DOMAIN queue' = 1..(Len(queue) - 1)
        /\ \A j \in 1..(Len(queue) - 1) : queue'[j] = queue[j + 1]
    BY <1>1, EmptySeq, LenProperties, HeadTailProperties
  <1>3. /\ \A j \in 1..Len(queue) : queue[j] \in 1..sent
        /\ \A i, j \in 1..Len(queue) : i < j => queue[i] < queue[j]
        /\ \A i \in DOMAIN got, j \in 1..Len(queue) : got[i] < queue[j]
    BY <1>1, <1>2 DEF WindowsOrder, Increasing
  <1>4. 1 \in 1..Len(queue)
    BY <1>2
  <1>5. /\ got' \in Seq(Nat) /\ Increasing(got)'
        /\ \A b \in Nat : b > queue[1] => \A i \in DOMAIN got' : got'[i] < b
    BY <1>1, <1>2, <1>3, <1>4, AppendOrder DEF WindowsOrder
  <1>6. \A j \in 1..(Len(queue) - 1) : j + 1 \in 1..Len(queue) /\ 1 < j + 1
    BY <1>2
  <1>7. \A j \in DOMAIN queue' : queue'[j] \in 1..sent /\ queue'[j] > queue[1]
    BY <1>2, <1>3, <1>4, <1>6
  <1>8. ASSUME NEW i \in DOMAIN queue', NEW j \in DOMAIN queue', i < j
        PROVE  queue'[i] < queue'[j]
    <2>1. i + 1 \in 1..Len(queue) /\ j + 1 \in 1..Len(queue) /\ i + 1 < j + 1
      BY <1>2, <1>8
    <2> QED
      BY <1>2, <1>3, <2>1
  <1>9. Increasing(queue)'
    BY <1>7, <1>8 DEF Increasing
  <1>10. \A i \in DOMAIN got', j \in DOMAIN queue' : got'[i] < queue'[j]
    BY <1>5, <1>7
  <1>11. WindowsOrder'
    BY SMTT(30), <1>1, <1>5, <1>9, <1>10 DEF WindowsOrder, Idle, Pending
  <1> QED
    BY <1>1, <1>2, <1>5, <1>11 DEF OrderInv

\* WaitForSingleObject when the pending read has completed.
LEMMA WindowsCompleted ==
    ASSUME OrderInv, platform = "windows", pc = "pending", pc' = "read", io # Pending,
           io' = Idle, got' = Append(got, io), UNCHANGED <<platform, present, queue, sent>>
    PROVE  OrderInv'
  <1>1. /\ WindowsOrder /\ sent \in Nat /\ got \in Seq(Nat) /\ queue \in Seq(Nat)
        /\ io \in 1..sent
    BY DEF OrderInv, WindowsOrder
  <1>2. io > 0 /\ (\A i \in DOMAIN got : got[i] < io) /\ (\A j \in DOMAIN queue : io < queue[j])
    BY <1>1 DEF WindowsOrder
  <1>3. /\ got' \in Seq(Nat) /\ Increasing(got)'
        /\ \A b \in Nat : b > io => \A i \in DOMAIN got' : got'[i] < b
    BY <1>1, <1>2, AppendOrder DEF WindowsOrder
  <1>4. \A j \in DOMAIN queue : queue[j] \in Nat /\ queue[j] > io
    BY <1>1, <1>2 DEF WindowsOrder, Increasing
  <1>5. Increasing(queue)'
    BY <1>1 DEF WindowsOrder, Increasing
  <1>6. WindowsOrder'
    BY <1>3, <1>4, <1>5 DEF WindowsOrder, Idle, Pending
  <1> QED
    BY <1>1, <1>3, <1>6 DEF OrderInv

\* A read that begins to wait, is given up, or fails.
LEMMA NothingRead ==
    ASSUME OrderInv, UNCHANGED <<platform, present, queue, got, sent>>,
           \/ pc' = "wait" /\ UNCHANGED <<fd, io>>
           \/ platform = "windows" /\ pc' \in {"wait", "read"} /\ io' = Idle
           \/ platform = "windows" /\ pc' = "pending" /\ io' = Pending /\ queue = <<>>
           \/ platform = "windows" /\ pc' = "cancel" /\ io = Pending /\ io' = io
    PROVE  OrderInv'
  <1>1. platform = "windows" => WindowsOrder'
    BY DEF OrderInv, WindowsOrder, Increasing, Idle, Pending
  <1>2. platform # "windows" => PosixOrder'
    BY DEF OrderInv, PosixOrder, Removed, Listening
  <1> QED
    BY <1>1, <1>2 DEF OrderInv

LEMMA ReadOrder ==
    ASSUME HandleInv, OrderInv,
           linux_read \/ darwin_read \/ windows_read \/ windows_wait \/ windows_cancel
    PROVE  OrderInv'
  <1>1. UNCHANGED <<platform, present, fd, sent>>
    BY DEF linux_read, darwin_read, windows_read, windows_wait, windows_cancel, world
  <1>2. CASE linux_read
    <2>1. platform = "linux" /\ pc = "read" /\ io' = io
      BY <1>2 DEF linux_read
    <2>2. \/ /\ queue # <<>> /\ queue' = Tail(queue) /\ got' = Append(got, Head(queue))
             /\ pc' = "read"
          \/ pc' = "wait" /\ UNCHANGED <<queue, got>>
      BY <1>2 DEF linux_read, Return, rawhid_close
    <2> QED
      BY <1>1, <2>1, <2>2, PosixTake, NothingRead
  <1>3. CASE darwin_read
    <2>1. /\ platform = "darwin" /\ pc = "read" /\ io' = io /\ queue # <<>>
          /\ queue' = Tail(queue)
      BY <1>3 DEF darwin_read
    <2>2. \/ Head(queue) = Gone /\ pc' = "wait" /\ got' = got
          \/ Head(queue) # Gone /\ got' = Append(got, Head(queue)) /\ pc' = "read"
      BY <1>3 DEF darwin_read, Return, rawhid_close
    <2> QED
      BY <1>1, <2>1, <2>2, PosixTake, PosixGone
  <1>4. CASE windows_read
    <2>1. platform = "windows" /\ pc = "read"
      BY <1>4 DEF windows_read
    <2>2. \/ /\ queue # <<>> /\ queue' = Tail(queue) /\ got' = Append(got, Head(queue))
             /\ pc' = "read" /\ io' = io
          \/ queue = <<>> /\ io' = Pending /\ pc' = "pending" /\ UNCHANGED <<queue, got>>
          \/ pc' = "wait" /\ UNCHANGED <<queue, io, got>>
      BY <1>4 DEF windows_read, Return, rawhid_close
    <2> QED
      BY <1>1, <2>1, <2>2, WindowsTake, NothingRead
  <1>5. CASE windows_wait \/ windows_cancel
    <2>1. platform = "windows"
      BY <1>5 DEF windows_wait, windows_cancel, OrderInv, PosixOrder
    <2>2. \/ /\ pc = "pending" /\ pc' = "read" /\ io # Pending /\ io' = Idle
             /\ got' = Append(got, io) /\ queue' = queue
          \/ pc' \in {"wait", "read"} /\ io' = Idle /\ UNCHANGED <<queue, got>>
          \/ pc' = "cancel" /\ io = Pending /\ io' = io /\ UNCHANGED <<queue, got>>
      BY <1>5 DEF windows_wait, windows_cancel, Return, rawhid_close
    <2> QED
      BY <1>1, <2>1, <2>2, WindowsCompleted, NothingRead
  <1> QED
    BY <1>2, <1>3, <1>4, <1>5

LEMMA OrderStep == HandleInv /\ OrderInv /\ [Next]_vars => OrderInv'
  <1>1. ASSUME OrderInv, UNCHANGED vars PROVE OrderInv'
    <2>1. Listening' = Listening
      BY <1>1 DEF vars, Listening
    <2> QED
      BY <1>1, <2>1 DEF vars, OrderInv, WindowsOrder, PosixOrder, Increasing, Removed
  <1> QED
    BY <1>1, OpenOrder, ReadOrder, ReportOrder, PlugOrder DEF Next, Program, Between

\* What was returned and what the system holds, put together.
LEMMA PosixAll ==
    ASSUME OrderInv, platform # "windows"
    PROVE  /\ \A i, j \in DOMAIN got : i < j => got[i] < got[j]
           /\ \E end \in {<<>>, <<Gone>>} : got \o queue = [k \in 1..sent |-> k] \o end
  <1>1. PosixOrder /\ sent \in Nat /\ got \in Seq(Nat) /\ queue \in Seq(Nat)
    BY DEF OrderInv
  <1>2. PICK n \in Nat, m \in Nat : n = Len(got) /\ m = sent /\ n <= m
    BY <1>1 DEF PosixOrder
  <1>3. \A i \in 1..n : got[i] = i
    BY <1>1, <1>2 DEF PosixOrder
  <1>4. \A j \in 1..(m - n) : queue[j] = n + j
    BY <1>1, <1>2 DEF PosixOrder
  <1>5. DOMAIN got = 1..n
    BY <1>1, <1>2, LenProperties
  <1> DEFINE all == [k \in 1..m |-> k]
  <1>6. all \in Seq(Nat) /\ Len(all) = m /\ \A k \in 1..m : all[k] = k
    BY IsASeq
  <1> HIDE DEF all
  <1>7. /\ got \o queue \in Seq(Nat) /\ Len(got \o queue) = n + Len(queue)
        /\ \A i \in 1..(n + Len(queue)) :
             (got \o queue)[i] = IF i <= n THEN got[i] ELSE queue[i - n]
    BY <1>1, <1>2, ConcatProperties
  <1>8. \A i \in 1..m : i \in 1..(n + Len(queue)) => (got \o queue)[i] = i
    <2> SUFFICES ASSUME NEW i \in 1..m, i \in 1..(n + Len(queue)) PROVE (got \o queue)[i] = i
      OBVIOUS
    <2>1. CASE i <= n
      BY <1>3, <1>7, <2>1
    <2>2. CASE ~(i <= n)
      <3>1. i - n \in 1..(m - n) /\ n + (i - n) = i
        BY <1>2, <2>2
      <3> QED
        BY <1>4, <1>7, <2>2, <3>1
    <2> QED
      BY <2>1, <2>2
  <1>9. CASE Len(queue) = m - n
    <2>1. Len(got \o queue) = m
      BY <1>2, <1>7, <1>9
    <2>2. got \o queue = all
      BY <1>2, <1>6, <1>7, <1>8, <1>9, <2>1, SeqEqual
    <2>3. all = all \o <<>>
      BY <1>6, ConcatEmptySeq
    <2> QED
      BY <1>2, <1>3, <1>5, <2>2, <2>3 DEF all
  <1>10. CASE Removed
    <2>1. Len(queue) = (m - n) + 1 /\ queue[(m - n) + 1] = Gone
      BY <1>2, <1>10 DEF Removed
    <2>2. Len(got \o queue) = m + 1 /\ 1..(n + Len(queue)) = 1..(m + 1)
      BY <1>2, <1>7, <2>1
    <2>3. (got \o queue)[m + 1] = Gone
      <3>1. (m + 1) - n = (m - n) + 1 /\ ~(m + 1 <= n) /\ m + 1 \in 1..(m + 1)
        BY <1>2
      <3> QED
        BY <1>7, <2>1, <2>2, <3>1
    <2>4. <<Gone>> \in Seq(Nat) /\ Len(<<Gone>>) = 1 /\ <<Gone>>[1] = Gone
      BY DEF Gone
    <2>5. /\ all \o <<Gone>> \in Seq(Nat) /\ Len(all \o <<Gone>>) = m + 1
          /\ \A i \in 1..(m + 1) :
               (all \o <<Gone>>)[i] = IF i <= m THEN all[i] ELSE <<Gone>>[i - m]
      BY <1>6, <2>4, ConcatProperties
    <2>6. ASSUME NEW i \in 1..(m + 1) PROVE (got \o queue)[i] = (all \o <<Gone>>)[i]
      <3>1. CASE i \in 1..m
        <4>1. i \in 1..(n + Len(queue)) /\ i <= m
          BY <1>2, <2>2, <3>1
        <4>2. (got \o queue)[i] = i
          BY <1>8, <3>1, <4>1
        <4> QED
          BY <1>6, <2>5, <3>1, <4>1, <4>2
      <3>2. CASE i = m + 1
        <4>1. (m + 1) - m = 1 /\ ~(m + 1 <= m) /\ m + 1 \in 1..(m + 1)
          BY <1>2
        <4>2. (all \o <<Gone>>)[m + 1] = <<Gone>>[(m + 1) - m]
          BY <2>5, <4>1
        <4>3. (all \o <<Gone>>)[m + 1] = Gone
          BY <2>4, <4>1, <4>2
        <4> QED
          BY <2>3, <3>2, <4>3
      <3>3. i \in 1..m \/ i = m + 1
        OBVIOUS
      <3> QED
        BY <3>1, <3>2, <3>3
    <2>7. got \o queue = all \o <<Gone>>
      BY <1>7, <2>2, <2>5, <2>6, SeqEqual
    <2> QED
      BY <1>2, <1>3, <1>5, <2>7 DEF all
  <1> QED
    BY <1>1, <1>2, <1>9, <1>10 DEF PosixOrder

\* The inductive invariant of the reports of hid_listen.
THEOREM OrderInvariant == Spec => [](HandleInv /\ OrderInv)
  BY HandleInit, HandleStep, OrderInit, OrderStep, PTL DEF Spec

\* rawhid_read returns the reports in the order in which the device sent
\* them; on Linux and Mac OS X it returns each of them, and the removal of
\* the device is noticed after the last.
THEOREM RawHidReportsInOrder == Spec => []ReportsInOrder
  <1>1. HandleInv /\ OrderInv => ReportsInOrder
    <2> SUFFICES ASSUME OrderInv PROVE ReportsInOrder
      OBVIOUS
    <2>1. CASE platform = "windows"
      BY <2>1 DEF OrderInv, WindowsOrder, Increasing, ReportsInOrder
    <2>2. CASE platform # "windows"
      BY <2>2, PosixAll DEF ReportsInOrder
    <2> QED
      BY <2>1, <2>2
  <1> QED
    BY <1>1, OrderInvariant, PTL
=============================================================================
