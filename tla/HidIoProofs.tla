---------------------------- MODULE HidIoProofs -----------------------------
(***************************************************************************)
(* Requests and reports of hid.factor, for any number of opens, requests   *)
(* and reports.  OneRequest needs to know when the OVERLAPPED of the       *)
(* present open may be given to ReadFile again: when devreadpending is     *)
(* off, or Internal is not "pending", no request uses it (Free).  Handles  *)
(* that hid-open has overwritten may stay open, and get reports that reach *)
(* neither the present OVERLAPPED nor its buffer.                          *)
(***************************************************************************)
EXTENDS HidIo, SequenceTheorems, TLAPS

\* A handle in devhandle is that of the last open, and handles and requests
\* belong to the opens so far.
OpensOK ==
    /\ devoverlapped = opens
    /\ devhandle \in opened => devhandle = opens
    /\ \A h \in opened : h <= opens
    /\ \A io \in ios : io.ov <= opens

Free ==
    /\ devreadpending => devhandle \in opened
    /\ devhandle \in opened /\ (~devreadpending \/ internal[opens] # "pending") =>
          \A io \in ios : io.ov # opens

IoInv == TypeOK /\ OpensOK /\ OneRequest /\ (use = "reader" => Free)

-----------------------------------------------------------------------------
LEMMA IoInit == Init => IoInv
  <1> SUFFICES ASSUME Init PROVE IoInv
    OBVIOUS
  <1>1. TypeOK
    <2>1. [h \in Handles |-> <<>>] \in [Handles -> Seq(1..MaxReports)]
      OBVIOUS
    <2>2. <<-1, 0>> \in (-1..MaxReports) \X (0..MaxReports) /\ 0 \in 0..MaxReports
      BY HidAssumption
    <2>3. 0 \in 0..MaxOpens
      BY HidAssumption
    <2>4. [o \in Handles |-> "ok"] \in [Handles -> {"ok", "pending", "aborted", "failed"}]
      OBVIOUS
    <2>5. [o \in Handles |-> 0] \in [Handles -> 0..MaxReports]
      BY <2>2
    <2> QED
      BY <2>1, <2>2, <2>3, <2>4, <2>5 DEF Init, TypeOK, None
  <1> QED
    BY <1>1 DEF Init, IoInv, OpensOK, OneRequest, Free, None

\* What CancelIo keeps of a request.
LEMMA Cancelled ==
    ASSUME NEW h, CancelIo(h), ios \subseteq Io
    PROVE  /\ ios' \subseteq Io
           /\ \A io \in ios' : \E k \in ios : k.ov = io.ov /\ k.on = io.on /\ k.id = io.id /\ k.op = io.op
           /\ OneRequest /\ use' = use => OneRequest'
  <1> USE DEF CancelIo, Io
  <1>1. \A io \in ios : [io EXCEPT !.cancelled = TRUE] \in Io
    OBVIOUS
  <1>2. \A io \in ios' : \E k \in ios : io = IF k.on = h THEN [k EXCEPT !.cancelled = TRUE] ELSE k
    OBVIOUS
  <1>3. \A k \in ios : LET c == [k EXCEPT !.cancelled = TRUE]
                       IN  c.ov = k.ov /\ c.on = k.on /\ c.id = k.id /\ c.op = k.op
    OBVIOUS
  <1>4. \A io \in ios' : \E k \in ios :
            /\ io = IF k.on = h THEN [k EXCEPT !.cancelled = TRUE] ELSE k
            /\ k.ov = io.ov /\ k.on = io.on /\ k.id = io.id /\ k.op = io.op
    BY <1>2, <1>3
  <1>5. ios' \subseteq Io
    BY <1>1, <1>2
  <1> HIDE DEF CancelIo, Io
  <1>6. OneRequest /\ use' = use => OneRequest'
    <2> SUFFICES ASSUME OneRequest, use = "reader", use' = use,
                        NEW a \in ios', NEW b \in ios', a.ov = b.ov
                 PROVE  a = b
      BY DEF OneRequest
    <2>1. PICK k \in ios : /\ a = IF k.on = h THEN [k EXCEPT !.cancelled = TRUE] ELSE k
                           /\ k.ov = a.ov
      BY <1>4
    <2>2. PICK m \in ios : /\ b = IF m.on = h THEN [m EXCEPT !.cancelled = TRUE] ELSE m
                           /\ m.ov = b.ov
      BY <1>4
    <2>3. k = m
      BY <2>1, <2>2 DEF OneRequest
    <2> QED
      BY <2>1, <2>2, <2>3
  <1> QED
    BY <1>4, <1>5, <1>6

-----------------------------------------------------------------------------
\* Requests of different identifiers: the set grows by one of this open.
LEMMA Issued ==
    ASSUME IoInv, devhandle \in live, NEW op \in {"read", "write"}, Issue(op)
    PROVE  \E n \in 1..MaxIos :
              LET new == [id |-> n, op |-> op, on |-> opens, ov |-> opens, cancelled |-> FALSE]
              IN  /\ new \in Io /\ ios' = ios \cup {new} /\ new.ov = opens
                  /\ internal' = [internal EXCEPT ![opens] = "pending"]
  <1>1. devhandle = opens /\ devoverlapped = opens /\ opens \in Handles
    BY DEF IoInv, OpensOK, TypeOK
  <1> QED
    BY <1>1 DEF Issue, Io

LEMMA OpenStep == ASSUME IoInv, hidOpen PROVE IoInv'
  <1> USE DEF hidOpen, device
  <1>1. opens \in 0..MaxOpens /\ devoverlapped = opens /\ opened \subseteq 1..opens
    <2>1. \A h \in opened : h \in Nat \ {0} /\ h <= opens
      BY HidAssumption DEF IoInv, OpensOK, TypeOK, Handles
    <2> QED
      BY <2>1 DEF IoInv, OpensOK, TypeOK
  <1>2. UNCHANGED <<use, devreadpending, present, sent, internal, inputreport, ios, ring, seen>>
    OBVIOUS
  <1>3. \/ /\ opens < MaxOpens /\ opens' = opens + 1 /\ devhandle' = opens' /\ devoverlapped' = opens'
           /\ opened' = opened \cup {opens'} /\ live' = live \cup {opens'}
        \/ devhandle' = Invalid /\ UNCHANGED <<devoverlapped, opens, opened, live>>
    BY <1>1, HidAssumption DEF IoInv, TypeOK
  <1>4. opens < MaxOpens => opens + 1 \in Handles /\ opens + 1 \in 0..MaxOpens
    BY <1>1, HidAssumption DEF Handles
  <1> HIDE DEF hidOpen
  <1>5. TypeOK'
    BY <1>2, <1>3, <1>4 DEF IoInv, TypeOK
  <1>6. \A io \in ios : io.ov <= opens /\ io.ov \in Nat
    BY DEF IoInv, OpensOK, TypeOK, Io, Handles
  <1>7. OpensOK'
    <2>1. Invalid \notin opened /\ \A h \in opened : h \in Nat /\ h <= opens
      BY <1>1 DEF Invalid
    <2>2. CASE UNCHANGED <<devoverlapped, opens, opened, live>> /\ devhandle' = Invalid
      BY <1>1, <1>2, <1>6, <2>1, <2>2 DEF OpensOK
    <2>3. CASE /\ opens' = opens + 1 /\ devhandle' = opens' /\ devoverlapped' = opens'
               /\ opened' = opened \cup {opens'}
      <3>1. \A h \in opened' : h <= opens'
        BY <1>1, <2>1, <2>3
      <3>2. \A io \in ios' : io.ov <= opens'
        BY <1>1, <1>2, <1>6, <2>3
      <3> QED
        BY <2>3, <3>1, <3>2 DEF OpensOK
    <2> QED
      BY <1>3, <2>2, <2>3
  <1>8. OneRequest'
    BY <1>2 DEF IoInv, OneRequest
  <1>9. use' = "reader" => Free'
    <2>1. Invalid \notin opened /\ opens + 1 \notin opened
      BY <1>1 DEF Invalid
    <2>2. use = "reader" => ~devreadpending
      BY DEF hidOpen, IoInv, Free
    <2> QED
      BY <1>1, <1>2, <1>3, <1>6, <2>1, <2>2 DEF IoInv, Free
  <1> QED
    BY <1>5, <1>7, <1>8, <1>9 DEF IoInv

LEMMA CloseStep == ASSUME IoInv, hidClose PROVE IoInv'
  <1> USE DEF hidClose, device
  <1>1. /\ ios' \subseteq Io /\ OneRequest'
        /\ \A io \in ios' : \E k \in ios : k.ov = io.ov
    BY Cancelled DEF IoInv, TypeOK
  <1>2. /\ opened' \subseteq opened /\ devhandle' = None /\ None \notin opened'
        /\ devoverlapped' = devoverlapped /\ opens' = opens
    BY DEF IoInv, TypeOK, Handles, None
  <1>3. TypeOK'
    <2>1. [ring EXCEPT ![devhandle] = <<>>] \in [Handles -> Seq(1..MaxReports)]
      BY DEF IoInv, TypeOK
    <2> QED
      BY <1>1, <1>2, <2>1 DEF IoInv, TypeOK
  <1>4. OpensOK'
    BY <1>1, <1>2 DEF IoInv, OpensOK
  <1> QED
    BY <1>1, <1>2, <1>3, <1>4 DEF IoInv, Free

\* What hid-read and hid-write leave alone.
Same == UNCHANGED <<use, devhandle, devoverlapped, opens, opened, live, present, sent>>

\* A report taken from a ring.
LEMMA Taken ==
    ASSUME TypeOK, NEW h \in Handles, ring[h] # <<>>
    PROVE  /\ Head(ring[h]) \in 1..MaxReports
           /\ [ring EXCEPT ![h] = Tail(@)] \in [Handles -> Seq(1..MaxReports)]
  <1>1. ring[h] \in Seq(1..MaxReports)
    BY DEF TypeOK
  <1>2. Head(ring[h]) \in 1..MaxReports /\ Tail(ring[h]) \in Seq(1..MaxReports)
    BY <1>1, HeadTailProperties
  <1>3. [ring EXCEPT ![h] = Tail(@)] \in [Handles -> Seq(1..MaxReports)]
    BY <1>2 DEF TypeOK
  <1> QED
    BY <1>2, <1>3

\* The two reports kept for ReportsFresh.
LEMMA Seen ==
    ASSUME TypeOK, NEW m \in 0..MaxReports, seen' = <<seen[2], m>>
    PROVE  seen' \in (-1..MaxReports) \X (0..MaxReports)
  <1>1. seen[2] \in 0..MaxReports
    BY DEF TypeOK
  <1>2. seen[2] \in -1..MaxReports
    BY <1>1, HidAssumption
  <1> QED
    BY <1>1, <1>2

LEMMA ReadStep == ASSUME IoInv, hidRead PROVE IoInv'
  <1>1. Same /\ devoverlapped = opens /\ opens \in Handles
    BY DEF hidRead, Same, device, IoInv, OpensOK, TypeOK, ReadNow, ReadLater, ReadRefused,
           ReadDone, ReadError, hds, None
  <1>2. CASE ~devreadpending /\ ReadNow
    <2> USE <1>1, <1>2 DEF ReadNow, hds, Same
    <2>1. devhandle = opens
      BY DEF IoInv, OpensOK, TypeOK
    <2>2. Head(ring[opens]) \in 1..MaxReports /\ ring' \in [Handles -> Seq(1..MaxReports)]
      BY <2>1, Taken DEF IoInv
    <2>3. Head(ring[opens]) \in 0..MaxReports
      BY <2>2, HidAssumption
    <2>4. seen' \in (-1..MaxReports) \X (0..MaxReports)
      BY <2>1, <2>3, Seen DEF IoInv
    <2>5. TypeOK'
      BY <2>1, <2>2, <2>3, <2>4 DEF IoInv, TypeOK
    <2> QED
      BY <2>1, <2>5 DEF IoInv, OpensOK, OneRequest, Free
  <1>3. CASE ~devreadpending /\ ReadLater
    <2> USE <1>1, <1>3 DEF ReadLater, Same
    <2>1. PICK n \in 1..MaxIos :
              LET new == [id |-> n, op |-> "read", on |-> opens, ov |-> opens, cancelled |-> FALSE]
              IN  /\ new \in Io /\ ios' = ios \cup {new} /\ new.ov = opens
                  /\ internal' = [internal EXCEPT ![opens] = "pending"]
      BY Issued
    <2>2. TypeOK'
      BY <2>1 DEF IoInv, TypeOK
    <2>3. OpensOK'
      BY <2>1 DEF IoInv, OpensOK, TypeOK, Handles
    <2>4. devhandle \in opened /\ internal'[opens] = "pending"
      BY <2>1 DEF IoInv, TypeOK
    <2>5. OneRequest'
      BY <2>1, <2>4 DEF IoInv, OneRequest, Free
    <2> QED
      BY <2>2, <2>3, <2>4, <2>5 DEF IoInv, Free
  <1>4. CASE ~devreadpending /\ ReadRefused
    <2> USE <1>1, <1>4 DEF ReadRefused, Refuse, hds, Same
    <2>1. /\ ios' \subseteq Io /\ OneRequest'
          /\ \A io \in ios' : \E k \in ios : k.ov = io.ov
      BY Cancelled DEF IoInv, TypeOK
    <2>2. TypeOK'
      BY <2>1 DEF IoInv, TypeOK
    <2> QED
      BY <2>1, <2>2 DEF IoInv, OpensOK, Free
  <1>5. CASE devreadpending /\ ReadDone
    <2> USE <1>1, <1>5 DEF ReadDone, Same
    <2>1. inputreport[opens] \in 0..MaxReports
      BY DEF IoInv, TypeOK
    <2>2. seen' \in (-1..MaxReports) \X (0..MaxReports)
      BY <2>1, Seen DEF IoInv
    <2>3. TypeOK'
      BY <2>2 DEF IoInv, TypeOK
    <2> QED
      BY <2>3 DEF IoInv, OpensOK, OneRequest, Free
  <1>6. CASE devreadpending /\ ReadError
    <2> USE <1>1, <1>6 DEF ReadError, Same
    <2>1. /\ ios' \subseteq Io /\ OneRequest'
          /\ \A io \in ios' : \E k \in ios : k.ov = io.ov
      BY Cancelled DEF IoInv, TypeOK
    <2>2. TypeOK'
      BY <2>1 DEF IoInv, TypeOK
    <2> QED
      BY <2>1, <2>2 DEF IoInv, OpensOK, Free
  <1> QED
    BY <1>2, <1>3, <1>4, <1>5, <1>6 DEF hidRead

LEMMA WriteStep == ASSUME IoInv, hidWrite PROVE IoInv'
  <1>1. /\ Same /\ devoverlapped = opens /\ opens \in Handles /\ use' = "writer"
        /\ UNCHANGED <<devreadpending, inputreport, ring, seen>>
    BY DEF hidWrite, Same, device, IoInv, OpensOK, TypeOK, hds, None
  <1> USE <1>1 DEF Same
  <1>2. CASE /\ internal' = [internal EXCEPT ![devoverlapped] = "ok"] /\ UNCHANGED ios
    BY <1>2 DEF IoInv, TypeOK, OpensOK, OneRequest
  <1>3. CASE devhandle \in live /\ Issue("write")
    <2>1. PICK n \in 1..MaxIos :
              LET new == [id |-> n, op |-> "write", on |-> opens, ov |-> opens, cancelled |-> FALSE]
              IN  /\ new \in Io /\ ios' = ios \cup {new} /\ new.ov = opens
                  /\ internal' = [internal EXCEPT ![opens] = "pending"]
      BY <1>3, Issued
    <2>2. TypeOK'
      BY <2>1 DEF IoInv, TypeOK
    <2> QED
      BY <2>1, <2>2 DEF IoInv, OpensOK, OneRequest, TypeOK, Handles
  <1>4. CASE Refuse
    <2>1. /\ ios' \subseteq Io
          /\ \A io \in ios' : \E k \in ios : k.ov = io.ov
      BY <1>4, Cancelled DEF IoInv, TypeOK, Refuse
    <2>2. TypeOK'
      BY <1>4, <2>1 DEF IoInv, TypeOK, Refuse
    <2> QED
      BY <2>1, <2>2 DEF IoInv, OpensOK, OneRequest
  <1> QED
    BY <1>2, <1>3, <1>4 DEF hidWrite

-----------------------------------------------------------------------------
LEMMA CompleteStep == ASSUME IoInv, Complete PROVE IoInv'
  <1>1. PICK io \in ios : CompleteRead(io) \/ CompleteWrite(io) \/ CompleteNot(io)
    BY DEF Complete
  <1>2. PICK status \in {"ok", "aborted", "failed"} : Finish(io, status)
    BY <1>1 DEF CompleteRead, CompleteWrite, CompleteNot
  <1>3. io.ov \in Handles /\ io.on \in Handles
    BY DEF IoInv, TypeOK, Io
  <1> USE DEF Finish, hds, device
  <1>4. inputreport' \in [Handles -> 0..MaxReports] /\ ring' \in [Handles -> Seq(1..MaxReports)]
    <2>1. CASE CompleteRead(io)
      <3>1. Head(ring[io.on]) \in 1..MaxReports
            /\ ring' \in [Handles -> Seq(1..MaxReports)]
        BY <1>3, <2>1, Taken DEF CompleteRead, IoInv
      <3>2. Head(ring[io.on]) \in 0..MaxReports
        BY <3>1, HidAssumption
      <3> QED
        BY <2>1, <3>1, <3>2 DEF CompleteRead, IoInv, TypeOK
    <2>2. CASE CompleteWrite(io) \/ CompleteNot(io)
      BY <2>2 DEF CompleteWrite, CompleteNot, IoInv, TypeOK
    <2> QED
      BY <1>1, <2>1, <2>2
  <1>5. TypeOK'
    BY <1>2, <1>4 DEF IoInv, TypeOK
  <1>6. OpensOK' /\ OneRequest'
    BY <1>2 DEF IoInv, OpensOK, OneRequest
  <1>7. use' = "reader" => Free'
    BY <1>2, <1>3 DEF IoInv, OpensOK, OneRequest, Free, TypeOK
  <1> QED
    BY <1>5, <1>6, <1>7 DEF IoInv

LEMMA DeviceStep == ASSUME IoInv, Report \/ Unplug \/ Replug \/ UNCHANGED vars PROVE IoInv'
  <1>1. /\ UNCHANGED <<use, devhandle, devoverlapped, devreadpending, opens, opened, internal,
                      inputreport, ios, seen>>
        /\ live' \subseteq live
    BY DEF Report, Unplug, Replug, vars, hds, device
  <1>2. present' \in BOOLEAN /\ sent' \in 0..MaxReports
    <2>1. present \in BOOLEAN /\ sent \in 0..MaxReports
      BY DEF IoInv, TypeOK
    <2>2. CASE Report
      BY <2>1, <2>2, HidAssumption DEF Report
    <2>3. CASE Unplug \/ Replug \/ UNCHANGED vars
      BY <2>1, <2>3 DEF Unplug, Replug, vars, device
    <2> QED
      BY <2>2, <2>3
  <1>3. ring' \in [Handles -> Seq(1..MaxReports)]
    <2>1. CASE Report
      <3>1. sent' \in 1..MaxReports
        BY <2>1, HidAssumption DEF IoInv, TypeOK, Report
      <3>2. ASSUME NEW h \in Handles PROVE Keep(ring[h], sent') \in Seq(1..MaxReports)
        <4>1. ring[h] \in Seq(1..MaxReports)
          BY DEF IoInv, TypeOK
        <4>2. Len(ring[h]) = RingLen => Tail(ring[h]) \in Seq(1..MaxReports)
          BY <4>1, HidAssumption, EmptySeq, HeadTailProperties
        <4>3. (IF Len(ring[h]) = RingLen THEN Tail(ring[h]) ELSE ring[h]) \in Seq(1..MaxReports)
          BY <4>1, <4>2
        <4> QED
          BY <3>1, <4>3 DEF Keep
      <3> QED
        BY <2>1, <3>2 DEF Report, IoInv, TypeOK
    <2>2. CASE Unplug
      <3>1. [h \in Handles |-> <<>>] \in [Handles -> Seq(1..MaxReports)]
        OBVIOUS
      <3> QED
        BY <2>2, <3>1 DEF Unplug
    <2>3. CASE Replug \/ UNCHANGED vars
      BY <2>3 DEF Replug, vars, IoInv, TypeOK
    <2> QED
      BY <2>1, <2>2, <2>3
  <1>4. TypeOK'
    BY <1>1, <1>2, <1>3 DEF IoInv, TypeOK
  <1> QED
    BY <1>1, <1>4 DEF IoInv, OpensOK, OneRequest, Free

LEMMA IoStep == IoInv /\ [Next]_vars => IoInv'
  BY OpenStep, CloseStep, ReadStep, WriteStep, CompleteStep, DeviceStep DEF Next, Program

\* The inductive invariant of handles and requests, with type correctness.
THEOREM IoInvariant == Spec => []IoInv
  BY IoInit, IoStep, PTL DEF Spec

\* With a program that only reads no two outstanding requests share an
\* OVERLAPPED and its buffer.
THEOREM HidOneRequest == Spec => []OneRequest
  <1>1. IoInv => OneRequest
    BY DEF IoInv
  <1> QED
    BY <1>1, IoInvariant, PTL

-----------------------------------------------------------------------------
(***************************************************************************)
(* Reports.  What the rings hold, and what a completed read has put into   *)
(* the input buffer, is newer than what hid-read gave the program last.    *)
(***************************************************************************)
\* A sequence of reports, increasing, newer than lo and not newer than hi.
Within(q, lo, hi) ==
    /\ \A i \in 1..Len(q) : lo < q[i] /\ q[i] <= hi
    /\ \A i, j \in 1..Len(q) : i < j => q[i] < q[j]

RingsOK ==
    /\ \A h \in Handles : h \notin live => ring[h] = <<>>
    /\ opens \in Handles => Within(ring[opens], seen[2], sent)

RequestsOK ==
    /\ \A io \in ios : io.on = io.ov
    /\ use = "reader" => \A io \in ios : io.op = "read"

\* What the next hid-read takes from the buffer.
BufferOK ==
    devreadpending /\ internal[opens] = "ok" =>
        /\ seen[2] < inputreport[opens] /\ inputreport[opens] <= sent
        /\ Within(ring[opens], inputreport[opens], sent)

FreshInv ==
    /\ IoInv /\ RequestsOK
    /\ use = "reader" => RingsOK /\ BufferOK /\ LatestIsNew /\ seen[2] <= sent

LEMMA WithinEmpty == ASSUME NEW lo, NEW hi PROVE Within(<<>>, lo, hi)
  BY DEF Within

LEMMA WithinTail ==
    ASSUME NEW q \in Seq(1..MaxReports), NEW lo \in Int, NEW hi \in Int,
           Within(q, lo, hi), q # <<>>
    PROVE  /\ lo < Head(q) /\ Head(q) <= hi /\ Within(Tail(q), Head(q), hi)
  <1>1. Len(q) \in Nat /\ Len(q) > 0 /\ \A i \in 1..Len(q) : q[i] \in 1..MaxReports
    <2>1. Len(q) \in Nat \ {0}
      BY EmptySeq
    <2>2. \A i \in 1..Len(q) : q[i] \in 1..MaxReports
      BY ElementOfSeq
    <2> QED
      BY <2>1, <2>2
  <1>2. Head(q) = q[1] /\ Len(Tail(q)) = Len(q) - 1
        /\ \A i \in 1..Len(Tail(q)) : Tail(q)[i] = q[i + 1]
    BY HeadTailProperties
  <1>3. lo < q[1] /\ q[1] <= hi
    BY <1>1 DEF Within
  <1>4. \A i \in 1..(Len(q) - 1) : q[1] < q[i + 1] /\ q[i + 1] <= hi
    BY <1>1 DEF Within
  <1>5. \A i, j \in 1..(Len(q) - 1) : i < j => q[i + 1] < q[j + 1]
    BY <1>1 DEF Within
  <1> QED
    BY <1>1, <1>2, <1>3, <1>4, <1>5 DEF Within

LEMMA WithinKeep ==
    ASSUME NEW q \in Seq(1..MaxReports), NEW lo \in Int, NEW hi \in Int,
           Within(q, lo, hi), NEW m \in 1..MaxReports, hi < m, lo < m
    PROVE  Within(Keep(q, m), lo, m)
  <1> DEFINE t == IF Len(q) = RingLen THEN Tail(q) ELSE q
  <1>1. Len(q) = RingLen => q # <<>>
    BY HidAssumption, EmptySeq
  <1>2. t \in Seq(1..MaxReports) /\ Within(t, lo, hi)
    <2>1. CASE Len(q) = RingLen
      <3>1. Tail(q) \in Seq(1..MaxReports) /\ Head(q) \in 1..MaxReports
        BY <1>1, <2>1, HeadTailProperties
      <3>2. lo < Head(q) /\ Within(Tail(q), Head(q), hi)
        BY <1>1, <2>1, WithinTail
      <3>3. Len(Tail(q)) \in Nat /\ \A i \in 1..Len(Tail(q)) : Tail(q)[i] \in 1..MaxReports
        BY <3>1, ElementOfSeq, LenProperties
      <3> QED
        BY <2>1, <3>1, <3>2, <3>3 DEF Within
    <2>2. CASE Len(q) # RingLen
      BY <2>2
    <2> QED
      BY <2>1, <2>2
  <1>3. Keep(q, m) = Append(t, m)
    BY DEF Keep
  <1> HIDE DEF t
  <1>4. Len(t) \in Nat /\ \A i \in 1..Len(t) : t[i] \in 1..MaxReports
    BY <1>2, ElementOfSeq, LenProperties
  <1>5. /\ Len(Append(t, m)) = Len(t) + 1 /\ Append(t, m)[Len(t) + 1] = m
        /\ \A i \in 1..Len(t) : Append(t, m)[i] = t[i]
    BY <1>2, AppendProperties
  <1>6. \A i \in 1..Len(t) : lo < t[i] /\ t[i] < m
    BY <1>2, <1>4 DEF Within
  <1>7. \A i \in 1..(Len(t) + 1) : i = Len(t) + 1 \/ i \in 1..Len(t)
    BY <1>4
  <1>8. \A i \in 1..(Len(t) + 1) : lo < Append(t, m)[i] /\ Append(t, m)[i] <= m
    BY <1>4, <1>5, <1>6, <1>7
  <1>9. \A i, j \in 1..(Len(t) + 1) : i < j => Append(t, m)[i] < Append(t, m)[j]
    BY <1>2, <1>4, <1>5, <1>6, <1>7 DEF Within
  <1> QED
    BY <1>3, <1>5, <1>8, <1>9 DEF Within

-----------------------------------------------------------------------------
LEMMA FreshInit == Init => FreshInv
  <1> SUFFICES ASSUME Init PROVE FreshInv
    OBVIOUS
  <1>1. IoInv
    BY IoInit
  <1>2. RequestsOK /\ BufferOK
    BY DEF Init, RequestsOK, BufferOK
  <1>3. RingsOK
    BY HidAssumption DEF Init, RingsOK, Handles
  <1>4. LatestIsNew /\ seen[2] <= sent
    BY DEF Init, LatestIsNew
  <1> QED
    BY <1>1, <1>2, <1>3, <1>4 DEF FreshInv

\* Numbers of the reports in play.
LEMMA Numbers ==
    ASSUME IoInv
    PROVE  /\ sent \in Int /\ seen[2] \in Int /\ opens \in Nat
           /\ live \subseteq Handles /\ \A h \in live : h <= opens
           /\ opens \in Handles => inputreport[opens] \in Int /\ ring[opens] \in Seq(1..MaxReports)
  BY HidAssumption DEF IoInv, TypeOK, OpensOK

LEMMA FreshOpen == ASSUME FreshInv, hidOpen, IoInv' PROVE FreshInv'
  <1>1. /\ UNCHANGED <<use, devreadpending, sent, internal, inputreport, ios, ring, seen>>
        /\ live \subseteq live' /\ opens \in Nat
        /\ opens' = opens + 1 \/ opens' = opens
    BY Numbers DEF hidOpen, device, FreshInv
  <1>2. RequestsOK'
    BY <1>1 DEF FreshInv, RequestsOK
  <1>3. ASSUME use' = "reader"
        PROVE  RingsOK' /\ BufferOK' /\ LatestIsNew' /\ (seen[2] <= sent)'
    <2>1. ~devreadpending'
      BY <1>1, <1>3 DEF hidOpen, FreshInv, IoInv, Free
    <2>2. RingsOK
      BY <1>1, <1>3 DEF FreshInv
    <2>3. opens + 1 \notin live
      BY <1>1, Numbers DEF FreshInv
    <2>4. opens + 1 \in Handles => ring[opens + 1] = <<>>
      BY <2>2, <2>3 DEF RingsOK
    <2>5. opens' \in Handles => Within(ring'[opens'], seen'[2], sent')
      BY <1>1, <2>2, <2>4, WithinEmpty DEF RingsOK
    <2>6. RingsOK'
      BY <1>1, <2>2, <2>5 DEF RingsOK
    <2> QED
      BY <1>1, <1>3, <2>1, <2>6 DEF FreshInv, BufferOK, LatestIsNew
  <1> QED
    BY <1>2, <1>3 DEF FreshInv

LEMMA FreshClose == ASSUME FreshInv, hidClose, IoInv' PROVE FreshInv'
  <1> USE DEF hidClose, device
  <1>1. /\ live' = live \ {devhandle} /\ ~devreadpending' /\ devhandle = opens /\ opens \in Handles
        /\ UNCHANGED <<use, opens, sent, seen>>
    BY Numbers DEF FreshInv, IoInv, OpensOK, TypeOK
  <1>2. RequestsOK'
    <2>1. \A io \in ios' : \E k \in ios : k.ov = io.ov /\ k.on = io.on /\ k.op = io.op
      BY Cancelled DEF FreshInv, IoInv, TypeOK
    <2> QED
      BY <2>1 DEF FreshInv, RequestsOK
  <1>3. ASSUME use' = "reader"
        PROVE  RingsOK' /\ BufferOK' /\ LatestIsNew' /\ (seen[2] <= sent)'
    <2>1. ring'[opens] = <<>> /\ \A h \in Handles : h # opens => ring'[h] = ring[h]
      BY <1>1 DEF FreshInv, IoInv, TypeOK
    <2>2. RingsOK'
      BY <1>1, <1>3, <2>1, WithinEmpty DEF RingsOK, FreshInv
    <2> QED
      BY <1>1, <1>3, <2>2 DEF FreshInv, BufferOK, LatestIsNew
  <1> QED
    BY <1>2, <1>3 DEF FreshInv

LEMMA FreshRead == ASSUME FreshInv, hidRead, IoInv' PROVE FreshInv'
  <1>1. Same /\ devoverlapped = opens /\ opens \in Handles
    BY DEF hidRead, Same, device, FreshInv, IoInv, OpensOK, TypeOK, ReadNow, ReadLater, ReadRefused,
           ReadDone, ReadError, hds, None
  <1>2. RequestsOK'
    <2>1. CASE ios' = ios
      BY <1>1, <2>1 DEF FreshInv, RequestsOK, Same
    <2>2. CASE ReadLater
      <3>1. PICK n \in 1..MaxIos :
                LET new == [id |-> n, op |-> "read", on |-> opens, ov |-> opens, cancelled |-> FALSE]
                IN  new.op = "read" /\ new.on = new.ov /\ ios' = ios \cup {new}
        BY <2>2, Issued DEF ReadLater, FreshInv
      <3> QED
        BY <1>1, <3>1 DEF FreshInv, RequestsOK, Same
    <2>3. CASE CancelIo(devhandle)
      <3>1. \A io \in ios' : \E k \in ios : k.ov = io.ov /\ k.on = io.on /\ k.op = io.op
        BY <2>3, Cancelled DEF FreshInv, IoInv, TypeOK
      <3> QED
        BY <1>1, <3>1 DEF FreshInv, RequestsOK, Same
    <2> QED
      BY <2>1, <2>2, <2>3 DEF hidRead, ReadNow, ReadRefused, Refuse, ReadDone, ReadError
  <1>3. ASSUME use' = "reader"
        PROVE  RingsOK' /\ BufferOK' /\ LatestIsNew' /\ (seen[2] <= sent)'
    <2> USE <1>1, <1>3, Numbers DEF Same
    <2>0. RingsOK /\ BufferOK /\ LatestIsNew /\ seen[2] <= sent /\ IoInv
      BY DEF FreshInv
    <2>1. CASE ~devreadpending /\ ReadNow
      <3> DEFINE m == Head(ring[opens])
      <3>1. devhandle = opens
        BY <2>1 DEF ReadNow, FreshInv, IoInv, OpensOK, TypeOK
      <3>2. seen[2] < m /\ m <= sent /\ Within(Tail(ring[opens]), m, sent)
        BY <2>0, <2>1, <3>1, WithinTail DEF ReadNow, RingsOK
      <3>3. seen' = <<seen[2], m>> /\ ring' = [ring EXCEPT ![opens] = Tail(ring[opens])]
            /\ opens \in live /\ ~devreadpending'
        BY <2>1, <3>1 DEF ReadNow, hds
      <3>4. ring'[opens] = Tail(ring[opens]) /\ \A h \in Handles : h # opens => ring'[h] = ring[h]
        BY <3>3 DEF FreshInv, IoInv, TypeOK
      <3> HIDE DEF m
      <3> QED
        BY <2>0, <3>2, <3>3, <3>4 DEF RingsOK, BufferOK, LatestIsNew
    <2>2. CASE ~devreadpending /\ ReadLater
      <3>1. internal'[opens] = "pending"
        BY <2>2, Issued DEF ReadLater, FreshInv, IoInv, TypeOK
      <3> QED
        BY <2>0, <2>2, <3>1 DEF ReadLater, RingsOK, BufferOK, LatestIsNew
    <2>3. CASE ~devreadpending /\ ReadRefused
      BY <2>0, <2>3 DEF ReadRefused, hds, RingsOK, BufferOK, LatestIsNew
    <2>4. CASE devreadpending /\ ReadDone
      BY <2>0, <2>4 DEF ReadDone, RingsOK, BufferOK, LatestIsNew
    <2>5. CASE devreadpending /\ ReadError
      BY <2>0, <2>5 DEF ReadError, RingsOK, BufferOK, LatestIsNew
    <2> QED
      BY <2>1, <2>2, <2>3, <2>4, <2>5 DEF hidRead
  <1> QED
    BY <1>2, <1>3 DEF FreshInv

LEMMA FreshWrite == ASSUME FreshInv, hidWrite, IoInv' PROVE FreshInv'
  <1>1. use' = "writer" /\ devoverlapped = opens
    BY DEF hidWrite, FreshInv, IoInv, OpensOK
  <1>2. \A io \in ios' : io.on = io.ov
    <2>1. CASE ios' = ios
      BY <2>1 DEF FreshInv, RequestsOK
    <2>2. CASE devhandle \in live /\ Issue("write")
      <3>1. PICK n \in 1..MaxIos :
                LET new == [id |-> n, op |-> "write", on |-> opens, ov |-> opens, cancelled |-> FALSE]
                IN  new.on = new.ov /\ ios' = ios \cup {new}
        BY <2>2, Issued DEF FreshInv
      <3> QED
        BY <3>1 DEF FreshInv, RequestsOK
    <2>3. CASE CancelIo(devhandle)
      <3>1. \A io \in ios' : \E k \in ios : k.ov = io.ov /\ k.on = io.on
        BY <2>3, Cancelled DEF FreshInv, IoInv, TypeOK
      <3> QED
        BY <3>1 DEF FreshInv, RequestsOK
    <2> QED
      BY <2>1, <2>2, <2>3 DEF hidWrite, Refuse
  <1> QED
    BY <1>1, <1>2 DEF FreshInv, RequestsOK

LEMMA FreshComplete == ASSUME FreshInv, Complete, IoInv' PROVE FreshInv'
  <1>1. PICK io \in ios : CompleteRead(io) \/ CompleteWrite(io) \/ CompleteNot(io)
    BY DEF Complete
  <1>2. io.on = io.ov /\ io.ov \in Handles /\ (use = "reader" => io.op = "read")
    BY DEF FreshInv, RequestsOK, IoInv, TypeOK, Io
  <1>3. PICK status : Finish(io, status) /\ (~CompleteRead(io) /\ io.op = "read" => status # "ok")
    BY <1>1 DEF CompleteRead, CompleteWrite, CompleteNot
  <1> USE DEF Finish, hds, device
  <1>4. RequestsOK'
    BY <1>3 DEF FreshInv, RequestsOK
  <1>5. ASSUME use' = "reader"
        PROVE  RingsOK' /\ BufferOK' /\ LatestIsNew' /\ (seen[2] <= sent)'
    <2>0. RingsOK /\ BufferOK /\ LatestIsNew /\ seen[2] <= sent /\ IoInv
          /\ UNCHANGED <<use, devreadpending, opens, live, sent, seen>>
      BY <1>3, <1>5 DEF FreshInv
    <2> USE <2>0, Numbers
    <2>1. CASE CompleteRead(io) /\ io.ov = opens
      <3> DEFINE m == Head(ring[opens])
      <3>1. io.ov = opens /\ opens \in Handles
        BY <1>2, <2>1
      <3>2. seen[2] < m /\ m <= sent /\ Within(Tail(ring[opens]), m, sent)
        BY <1>2, <2>1, <3>1, WithinTail DEF CompleteRead, RingsOK
      <3>3. inputreport'[opens] = m /\ ring'[opens] = Tail(ring[opens])
            /\ \A h \in Handles : h # opens => ring'[h] = ring[h]
        BY <1>2, <2>1, <3>1 DEF CompleteRead, IoInv, TypeOK
      <3>4. Head(ring[opens]) \in 1..MaxReports /\ Tail(ring[opens]) \in Seq(1..MaxReports)
        BY <1>2, <2>1, <3>1, HeadTailProperties DEF CompleteRead
      <3>5. Within(Tail(ring[opens]), seen[2], sent)
        <4>1. Len(Tail(ring[opens])) \in Nat
              /\ \A i \in 1..Len(Tail(ring[opens])) : Tail(ring[opens])[i] \in 1..MaxReports
          BY <3>4, ElementOfSeq, LenProperties
        <4> QED
          BY SMTT(30), <3>2, <3>4, <4>1 DEF Within
      <3>6. opens \in live
        BY <1>2, <2>1, <3>1 DEF CompleteRead
      <3> HIDE DEF m
      <3> QED
        BY <3>2, <3>3, <3>5, <3>6 DEF RingsOK, BufferOK, LatestIsNew
    <2>3. CASE CompleteRead(io) /\ io.ov # opens
      <3>1. /\ io.on # opens /\ io.on \in live
            /\ \A h \in Handles : h # io.on => ring'[h] = ring[h]
            /\ \A h \in Handles : h # io.on => inputreport'[h] = inputreport[h]
            /\ \A h \in Handles : h # io.on => internal'[h] = internal[h]
        BY <1>2, <2>3 DEF CompleteRead, IoInv, TypeOK
      <3>2. RingsOK'
        BY <3>1 DEF RingsOK
      <3>3. devreadpending => opens \in Handles
        BY <1>5 DEF FreshInv, IoInv, Free, OpensOK, TypeOK
      <3> QED
        BY <3>1, <3>2, <3>3 DEF BufferOK, LatestIsNew
    <2>2. CASE ~CompleteRead(io)
      <3>a. UNCHANGED <<inputreport, ring>>
        BY <1>1, <2>2 DEF CompleteWrite, CompleteNot
      <3>b. io.op = "read"
        BY <1>2, <1>5, <2>0
      <3>c. status # "ok"
        BY <1>3, <2>2, <3>b
      <3>d. internal' = [internal EXCEPT ![io.ov] = status]
        BY <1>3
      <3>1. UNCHANGED <<inputreport, ring>> /\ internal' = [internal EXCEPT ![io.ov] = status]
            /\ status # "ok"
        BY <3>a, <3>c, <3>d
      <3>2. opens \in Handles /\ internal'[opens] = "ok" => internal[opens] = "ok"
        BY <1>2, <3>1 DEF IoInv, TypeOK
      <3>3. devreadpending => opens \in Handles
        BY <1>5 DEF FreshInv, IoInv, Free, OpensOK, TypeOK
      <3> QED
        BY <3>1, <3>2, <3>3 DEF RingsOK, BufferOK, LatestIsNew
    <2> QED
      BY <2>1, <2>2, <2>3
  <1> QED
    BY <1>4, <1>5 DEF FreshInv

LEMMA FreshReport == ASSUME FreshInv, Report, IoInv' PROVE FreshInv'
  <1> USE DEF Report
  <1>1. RequestsOK'
    BY DEF FreshInv, RequestsOK
  <1>2. ASSUME use' = "reader"
        PROVE  RingsOK' /\ BufferOK' /\ LatestIsNew' /\ (seen[2] <= sent)'
    <2>0. RingsOK /\ BufferOK /\ LatestIsNew /\ seen[2] <= sent /\ IoInv
      BY <1>2 DEF FreshInv
    <2> USE <2>0, Numbers
    <2>1. sent' \in 1..MaxReports /\ sent < sent'
      BY HidAssumption DEF IoInv, TypeOK
    <2>2. \A h \in Handles : ring'[h] = IF h \in live THEN Keep(ring[h], sent') ELSE ring[h]
      OBVIOUS
    <2>3. ASSUME opens \in Handles, NEW lo \in Int, lo <= sent, Within(ring[opens], lo, sent)
          PROVE  Within(ring'[opens], lo, sent')
      <3>1. CASE opens \in live
        BY <2>1, <2>2, <2>3, <3>1, WithinKeep
      <3>2. CASE opens \notin live
        <4>1. ring'[opens] = <<>>
          BY <2>2, <2>3, <3>2 DEF RingsOK
        <4> QED
          BY <4>1, WithinEmpty
      <3> QED
        BY <3>1, <3>2
    <2>4. RingsOK'
      BY <2>1, <2>2, <2>3 DEF RingsOK
    <2>5. BufferOK'
      <3>1. devreadpending => opens \in Handles
        BY <1>2 DEF FreshInv, IoInv, Free, OpensOK, TypeOK
      <3> SUFFICES ASSUME devreadpending, internal[opens] = "ok"
                   PROVE  /\ seen[2] < inputreport[opens] /\ inputreport[opens] <= sent'
                          /\ Within(ring'[opens], inputreport[opens], sent')
        BY DEF BufferOK, hds
      <3>2. seen[2] < inputreport[opens] /\ inputreport[opens] <= sent
            /\ Within(ring[opens], inputreport[opens], sent)
        BY DEF BufferOK
      <3>3. inputreport[opens] \in Int /\ opens \in Handles
        BY <3>1
      <3>4. Within(ring'[opens], inputreport[opens], sent')
        BY <2>3, <3>2, <3>3
      <3> QED
        BY <2>1, <3>2, <3>3, <3>4
    <2> QED
      BY <2>1, <2>4, <2>5 DEF LatestIsNew
  <1> QED
    BY <1>1, <1>2 DEF FreshInv

LEMMA FreshUnplug == ASSUME FreshInv, Unplug \/ Replug \/ UNCHANGED vars, IoInv' PROVE FreshInv'
  <1>1. /\ UNCHANGED <<use, devhandle, devreadpending, opens, opened, internal, inputreport, ios,
                      sent, seen>>
        /\ \/ live' = {} /\ ring' = [h \in Handles |-> <<>>]
           \/ UNCHANGED <<live, ring>>
    BY DEF Unplug, Replug, vars, hds, device
  <1>2. RequestsOK'
    BY <1>1 DEF FreshInv, RequestsOK
  <1>3. CASE live' = {} /\ ring' = [h \in Handles |-> <<>>]
    <2>1. devreadpending /\ use = "reader" => opens \in Handles
      BY DEF FreshInv, IoInv, Free, OpensOK, TypeOK
    <2> QED
      BY <1>1, <1>2, <1>3, <2>1, WithinEmpty DEF FreshInv, RingsOK, BufferOK, LatestIsNew
  <1>4. CASE UNCHANGED <<live, ring>>
    BY <1>1, <1>2, <1>4 DEF FreshInv, RingsOK, BufferOK, LatestIsNew
  <1> QED
    BY <1>1, <1>3, <1>4

LEMMA FreshStep == FreshInv /\ [Next]_vars => FreshInv'
  <1> SUFFICES ASSUME FreshInv, [Next]_vars PROVE FreshInv'
    OBVIOUS
  <1>1. IoInv'
    BY IoStep DEF FreshInv
  <1> QED
    BY <1>1, FreshOpen, FreshClose, FreshRead, FreshWrite, FreshComplete, FreshReport, FreshUnplug
       DEF Next, Program

\* A program that only reads is never given a report it has been given
\* before, an older one, or the empty buffer.
THEOREM HidReportsFresh == Spec => []ReportsFresh
  <1>1. FreshInv => ReportsFresh
    BY DEF FreshInv, ReportsFresh
  <1> QED
    BY <1>1, FreshInit, FreshStep, PTL DEF Spec
=============================================================================
