-------------------------------- MODULE HidIo --------------------------------
(***************************************************************************)
(* hid.factor: one HID device driven by hid-open, hid-close, hid-read and  *)
(* hid-write, over the overlapped I/O of Windows.  A read may stay pending *)
(* after hid-read has returned; devreadpending says so, and the next       *)
(* hid-read asks for its result.  All I/O of a device shares the one       *)
(* OVERLAPPED that hid-open allocates.                                     *)
(*                                                                         *)
(* Windows and the device (external) complete I/O between any two calls;   *)
(* cancelled I/O, too, completes later, aborted or not.                    *)
(***************************************************************************)
EXTENDS Integers, Sequences, FiniteSets

CONSTANTS
    MaxOpens,   \* bound on the number of successful calls of hid-open
    WriterOpens, \* the same for a program that may write
    MaxReports, \* bound on the number of reports the device sends
    MaxIos,     \* bound on the I/O requests outstanding at a time
    RingLen,    \* reports the HID class driver keeps for a handle
    Uses        \* what the program may be: see "use"

ASSUME HidAssumption ==
    /\ MaxOpens \in Nat \ {0} /\ WriterOpens \in 0..MaxOpens /\ MaxReports \in Nat /\ MaxIos \in Nat
    /\ RingLen \in Nat \ {0}
    /\ Uses \subseteq {"reader", "writer"}

VARIABLES
    use,            \* "reader": the program never calls hid-write;
                    \* "writer": it may
    devhandle,      \* None (f), Invalid, or the number of a handle
    devoverlapped,  \* None, or the number of the hid-open that allocated it
                    \* and the input report buffer
    devreadpending,
    opens,          \* number of handles created: handles are 1 .. opens
    opened,         \* handles not closed
    live,           \* handles that still reach the device
    present,        \* the device is plugged in
    internal,       \* Internal of each OVERLAPPED
    inputreport,    \* report in each input buffer, 0 when newly allocated
    ios,            \* outstanding I/O requests
    ring,           \* reports kept for each handle
    sent,           \* number of reports the device has sent
    seen            \* history: the two latest reports hid-read gave the program

hds == <<devhandle, devoverlapped, devreadpending>>
device == <<present, sent>>
vars == <<use, hds, opens, opened, live, device, internal, inputreport, ios, ring,
          seen>>

None == 0
Invalid == -1
Handles == 1..MaxOpens
Io == [id : 1..MaxIos, op : {"read", "write"}, on : Handles, ov : Handles,
       cancelled : BOOLEAN]

Init ==
    /\ use \in Uses
    /\ devhandle = None /\ devoverlapped = None /\ devreadpending = FALSE
    /\ opens = 0 /\ opened = {} /\ live = {} /\ present = TRUE
    /\ internal = [o \in Handles |-> "ok"]      \* STATUS_SUCCESS is zero
    /\ inputreport = [o \in Handles |-> 0]
    /\ ios = {} /\ ring = [h \in Handles |-> <<>>]
    /\ sent = 0 /\ seen = <<-1, 0>>

-----------------------------------------------------------------------------
\* CancelIo only marks the requests of a handle.
CancelIo(h) ==
    ios' = {IF io.on = h THEN [io EXCEPT !.cancelled = TRUE] ELSE io : io \in ios}

\* ReadFile and WriteFile, when they return ERROR_IO_PENDING.
Issue(op) ==
    \E n \in 1..MaxIos :
      /\ \A io \in ios : io.id # n
      /\ ios' = ios \cup {[id |-> n, op |-> op, on |-> devhandle,
                           ov |-> devoverlapped, cancelled |-> FALSE]}
      /\ internal' = [internal EXCEPT ![devoverlapped] = "pending"]

\* ReadFile and WriteFile mark the OVERLAPPED before they can fail.
Refuse ==
    /\ devhandle \notin live
    /\ \E s \in {"pending", "failed"} :
         internal' = [internal EXCEPT ![devoverlapped] = s]
    /\ CancelIo(devhandle)

\* devhandle is overwritten without a test, and devreadpending is left as it is.
\* Environment: a program that only reads does not open a device that is open
\* with a read pending.
hidOpen ==
    /\ use = "reader" => ~(devhandle \in opened /\ devreadpending)
    /\ \/ /\ present /\ opens < (IF use = "writer" THEN WriterOpens ELSE MaxOpens)
          /\ opens' = opens + 1
          /\ devhandle' = opens' /\ devoverlapped' = opens'
          /\ opened' = opened \cup {opens'} /\ live' = live \cup {opens'}
       \/ /\ devhandle' = Invalid
          /\ UNCHANGED <<devoverlapped, opens, opened, live>>
    /\ UNCHANGED <<use, devreadpending, device, internal, inputreport, ios, ring, seen>>

\* Mutant: hid-close leaves devreadpending as it is.
hidCloseKeepsPending ==
    /\ devhandle \in opened
    /\ CancelIo(devhandle)
    /\ opened' = opened \ {devhandle} /\ live' = live \ {devhandle}
    /\ devhandle' = None
    /\ ring' = [ring EXCEPT ![devhandle] = <<>>]
    /\ UNCHANGED <<use, devoverlapped, devreadpending, opens, device, internal,
                   inputreport, seen>>

\* CancelIo succeeds exactly for an open handle; when it fails nothing changes.
\* The ring goes with the handle.
hidClose ==
    /\ devhandle \in opened
    /\ CancelIo(devhandle)
    /\ devreadpending' = FALSE
    /\ opened' = opened \ {devhandle} /\ live' = live \ {devhandle}
    /\ devhandle' = None
    /\ ring' = [ring EXCEPT ![devhandle] = <<>>]
    /\ UNCHANGED <<use, devoverlapped, opens, device, internal, inputreport, seen>>

\* hid-read without a read pending: ReadFile.
ReadNow ==
    /\ devhandle \in live /\ ring[devhandle] # <<>>
    /\ inputreport' = [inputreport EXCEPT ![devoverlapped] = Head(ring[devhandle])]
    /\ internal' = [internal EXCEPT ![devoverlapped] = "ok"]
    /\ ring' = [ring EXCEPT ![devhandle] = Tail(@)]
    /\ seen' = <<seen[2], Head(ring[devhandle])>>
    /\ UNCHANGED <<hds, ios>>

ReadLater ==
    /\ devhandle \in live
    /\ Issue("read")
    /\ devreadpending' = TRUE
    /\ UNCHANGED <<devhandle, devoverlapped, inputreport, ring, seen>>

ReadRefused == Refuse /\ UNCHANGED <<hds, inputreport, ring, seen>>

\* hid-read with a read pending: GetOverlappedResult.
ReadDone ==
    /\ internal[devoverlapped] = "ok"
    /\ devreadpending' = FALSE
    /\ seen' = <<seen[2], inputreport[devoverlapped]>>
    /\ UNCHANGED <<devhandle, devoverlapped, internal, inputreport, ios, ring>>

ReadError ==
    /\ internal[devoverlapped] \in {"aborted", "failed"}
    /\ devreadpending' = FALSE
    /\ CancelIo(devhandle)
    /\ UNCHANGED <<devhandle, devoverlapped, internal, inputreport, ring, seen>>

\* Mutant: ERROR_IO_INCOMPLETE is an error like any other.
hidReadIncompleteFails ==
    /\ devoverlapped # None
    /\ \/ ~devreadpending /\ (ReadNow \/ ReadLater \/ ReadRefused)
       \/ devreadpending /\ (ReadDone \/ ReadError)
       \/ /\ devreadpending /\ internal[devoverlapped] = "pending"
          /\ devreadpending' = FALSE /\ CancelIo(devhandle)
          /\ UNCHANGED <<devhandle, devoverlapped, internal, inputreport, ring, seen>>
    /\ UNCHANGED <<use, opens, opened, live, device>>

\* Mutant: a completed read leaves devreadpending set.
hidReadStaysPending ==
    /\ devoverlapped # None
    /\ \/ ~devreadpending /\ (ReadNow \/ ReadLater \/ ReadRefused)
       \/ devreadpending /\ ReadError
    /\ UNCHANGED <<use, opens, opened, live, device>>

\* While the read is incomplete hid-read changes nothing (and returns true).
hidRead ==
    /\ devoverlapped # None
    /\ \/ ~devreadpending /\ (ReadNow \/ ReadLater \/ ReadRefused)
       \/ devreadpending /\ (ReadDone \/ ReadError)
    /\ UNCHANGED <<use, opens, opened, live, device>>

hidWrite ==
    /\ use = "writer" /\ devoverlapped # None
    /\ \/ /\ devhandle \in live
          /\ internal' = [internal EXCEPT ![devoverlapped] = "ok"]
          /\ UNCHANGED ios
       \/ devhandle \in live /\ Issue("write")
       \/ Refuse
    /\ UNCHANGED <<use, hds, opens, opened, live, device, inputreport, ring, seen>>

Program == hidOpen \/ hidClose \/ hidRead \/ hidWrite

-----------------------------------------------------------------------------
(* Windows and the device.                                                 *)

Finish(io, status) ==
    /\ internal' = [internal EXCEPT ![io.ov] = status]
    /\ ios' = ios \ {io}
    /\ UNCHANGED <<use, hds, opens, opened, live, device, seen>>

CompleteRead(io) ==
    /\ io.op = "read" /\ io.on \in live /\ ring[io.on] # <<>>
    /\ inputreport' = [inputreport EXCEPT ![io.ov] = Head(ring[io.on])]
    /\ ring' = [ring EXCEPT ![io.on] = Tail(@)]
    /\ Finish(io, "ok")

CompleteWrite(io) ==
    io.op = "write" /\ Finish(io, "ok") /\ UNCHANGED <<inputreport, ring>>

\* Cancelled, or the device is gone.
CompleteNot(io) ==
    /\ \/ io.cancelled /\ Finish(io, "aborted")
       \/ io.on \notin live /\ Finish(io, "failed")
    /\ UNCHANGED <<inputreport, ring>>

Complete == \E io \in ios : CompleteRead(io) \/ CompleteWrite(io) \/ CompleteNot(io)

\* A report is kept for every handle; a full ring loses its oldest.
Keep(q, m) == Append(IF Len(q) = RingLen THEN Tail(q) ELSE q, m)
Report ==
    /\ present /\ sent < MaxReports
    /\ sent' = sent + 1
    /\ ring' = [h \in Handles |-> IF h \in live THEN Keep(ring[h], sent') ELSE ring[h]]
    /\ UNCHANGED <<use, hds, opens, opened, live, present, internal, inputreport,
                   ios, seen>>

Unplug == /\ present /\ present' = FALSE
          /\ live' = {} /\ ring' = [h \in Handles |-> <<>>]
          /\ UNCHANGED <<use, hds, opens, opened, sent, internal, inputreport, ios,
                         seen>>

Replug == /\ ~present /\ present' = TRUE
          /\ UNCHANGED <<use, hds, opens, opened, live, sent, internal, inputreport,
                         ios, ring, seen>>

Next == Program \/ Complete \/ Report \/ Unplug \/ Replug
Spec == Init /\ [][Next]_vars /\ WF_vars(hidRead) /\ WF_vars(Complete)

-----------------------------------------------------------------------------
TypeOK ==
    /\ use \in Uses
    /\ devhandle \in Handles \cup {None, Invalid}
    /\ devoverlapped \in Handles \cup {None} /\ devreadpending \in BOOLEAN
    /\ opens \in 0..MaxOpens
    /\ opened \subseteq Handles /\ live \subseteq opened
    /\ present \in BOOLEAN
    /\ internal \in [Handles -> {"ok", "pending", "aborted", "failed"}]
    /\ inputreport \in [Handles -> 0..MaxReports]
    /\ ios \subseteq Io
    /\ ring \in [Handles -> Seq(1..MaxReports)]
    /\ sent \in 0..MaxReports /\ seen \in (-1..MaxReports) \X (0..MaxReports)

\* The latest report is newer than the one before it, and not the zeroed buffer.
LatestIsNew == seen[1] < seen[2]

(* A program that only reads is handed reports the device sent, in their     *)
(* order and none twice: hid-read never returns an old or empty buffer, also *)
(* after a close with a read pending, an unplugged device or a cancelled     *)
(* read that completes late.                                                 *)
ReportsFresh == use = "reader" => LatestIsNew

(* ... no two outstanding requests share an OVERLAPPED (and a buffer): a new *)
(* ReadFile is issued only when the last one is over, or on a new OVERLAPPED.*)
OneRequest ==
    use = "reader" => \A a, b \in ios : a.ov = b.ov => a = b

(* A pending read comes to an end when there is a report for it, or when the *)
(* device has gone: devreadpending does not block the device for ever.       *)
ReadEnds ==
    (use = "reader" /\ devreadpending
       /\ (devhandle \notin live \/ ring[devhandle] # <<>>)) ~> ~devreadpending

(* The comment before hid-read: TRUE is success, cnt "number of bytes read". *)
(* Whatever the program does, a read that succeeded has read a new report.   *)
ReadSucceeds == LatestIsNew
=============================================================================
