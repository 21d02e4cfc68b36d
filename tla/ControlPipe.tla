---------------------------- MODULE ControlPipe -----------------------------
(***************************************************************************)
(* What the control pipe of a V-USB device promises, without packets,      *)
(* buffers, interrupts or retries: transfers are numbered, the device      *)
(* serves them in order (and skips those it never heard of), data moves in *)
(* chunks of one packet, in order, between the ends of the same transfer   *)
(* only, and a transfer succeeds only when all of it has been moved.       *)
(***************************************************************************)
EXTENDS Naturals, Sequences

CONSTANTS MaxPkt, MaxXfers, NoMsg, Requests

VARIABLES
    xfer,       \* number of the host's latest transfer
    request,    \* its request
    outcome,    \* "pending", or how it ended
    toHost,     \* the bytes the host has received in it
    serving,    \* number of the transfer the device works on
    offer,      \* bytes it replies with; NoMsg: it takes the host's data
    toDevice,   \* the bytes its application has received
    verdict     \* what the application said of them: 0 go on, 1 done, 255 error

pipe == <<xfer, request, outcome, toHost, serving, offer, toDevice, verdict>>

Payload(x, n) == [i \in 1..n |-> <<x, i>>]

Init == /\ xfer = 0 /\ outcome = "none" /\ toHost = <<>>
        /\ serving = 0 /\ offer = NoMsg /\ toDevice = <<>> /\ verdict = 0

Begin == /\ outcome # "pending" /\ xfer < MaxXfers
         /\ xfer' = xfer + 1 /\ request' \in Requests
         /\ outcome' = "pending" /\ toHost' = <<>>
         /\ UNCHANGED <<serving, offer, toDevice, verdict>>

\* A SETUP given up by the host may still be served.
Serve == /\ serving' \in serving + 1 .. xfer
         /\ offer' \in 0..255 /\ toDevice' = <<>> /\ verdict' = 0
         /\ UNCHANGED <<xfer, request, outcome, toHost>>

ToDevice == /\ offer = NoMsg
            /\ \E n \in Len(toDevice)..(Len(toDevice) + MaxPkt) :
                 toDevice' = Payload(serving, n)
            /\ verdict' \in {0, 1, 255}
            /\ verdict = 255 => verdict' = 255
            /\ UNCHANGED <<xfer, request, outcome, toHost, serving, offer>>

ToHost == /\ outcome = "pending" /\ serving = xfer /\ request.dir = "in"
          /\ \E n \in Len(toHost)..(Len(toHost) + MaxPkt) :
               n <= offer /\ toHost' = Payload(xfer, n)
          /\ UNCHANGED <<xfer, request, outcome, serving, offer, toDevice, verdict>>

Complete ==
    IF request.dir = "in" THEN Len(toHost) = offer
    ELSE offer = NoMsg => Len(toDevice) = request.wLength /\ verdict = 1

Succeed == /\ outcome = "pending" /\ serving = xfer /\ Complete
           /\ outcome' = "ok"
           /\ UNCHANGED <<xfer, request, toHost, serving, offer, toDevice, verdict>>

\* Only an error of the application is reported as a STALL.
Stall == /\ outcome = "pending" /\ serving = xfer /\ verdict = 255
         /\ outcome' = "stall"
         /\ UNCHANGED <<xfer, request, toHost, serving, offer, toDevice, verdict>>

GiveUp == /\ outcome = "pending" /\ outcome' = "aborted"
          /\ UNCHANGED <<xfer, request, toHost, serving, offer, toDevice, verdict>>

Next == Begin \/ Serve \/ ToDevice \/ ToHost \/ Succeed \/ Stall \/ GiveUp
Spec == Init /\ [][Next]_pipe
=============================================================================
