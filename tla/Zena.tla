-------------------------------- MODULE Zena --------------------------------
(***************************************************************************)
(* zena-0.4.3.c: a program that captures 802.15.4 packets with a USB       *)
(* sniffer.  The sniffer sends a packet as one, two or three interrupt     *)
(* transfers of 64 bytes, of which only the first has a header; the        *)
(* program puts them together, or prints each of them, and tags them with  *)
(* the channel it has set.  In scan mode it closes, opens and retunes the  *)
(* sniffer before every packet.                                            *)
(*                                                                         *)
(* A transfer is a record: packet, part, number of parts, channel, and     *)
(* whether bits 4 or 6 of the packet's last byte are set, which is what    *)
(* the code tests for a correct checksum.  A read times out only when      *)
(* nothing has come.  Left out: time stamps, messages, and the contents of *)
(* packets.                                                                *)
(***************************************************************************)
EXTENDS Integers, Sequences, SequencesExt

CONSTANTS
    Channels,    \* number of channels, 16 in the code
    Options,     \* of the command line: format, scan_mode, drop_bad_packets
    Sizes,       \* numbers of transfers that packets take, some of 1..3
    MaxPackets,  \* bound on the packets on the air
    Damaged,     \* the packets, by number, that may fail the checksum test of pcap
    MaxFaults    \* bound on transfers and calls that fail without a cause

ASSUME ZenaAssumption ==
    /\ Channels \in Nat \ {0} /\ MaxPackets \in Nat /\ MaxFaults \in Nat
    /\ Options \subseteq [format : {"pcap", "usbhex"}, scan : BOOLEAN, drop : BOOLEAN]
    /\ Sizes \subseteq 1..3

VARIABLES
    option,
    pc,        \* setup | tune | flush | loop | get | more | ended
    looping,   \* the main loop has begun
    channel,
    nbytes,    \* of the last transfer in zena_set_channel
    exit_flag,
    buf, want, \* zena_get_packet: transfers so far, and how many it wants
    present,   \* external: the sniffer is plugged
    tuned,     \* external: channel of the sniffer, 0 before the first is set
    air,       \* external: transfers of a packet the sniffer has yet to send
    queue,     \* external: transfers the sniffer has sent
    out,       \* standard output: its last two records
    packet_len_plus_2, \* length, in transfers, of the last good packet; 0
               \* before the first, when it is not initialized
    mark,      \* history: "on" the program has missed a part of a packet or
               \* kept one of another channel, "over" it did since the last
               \* record, "none"
    packets, faults

sniffer == <<present, tuned, air, queue, packets>>
output == <<out, packet_len_plus_2>>
vars == <<option, pc, looping, channel, nbytes, exit_flag, buf, want, sniffer,
          output, mark, faults>>

Init ==
    /\ option \in Options
    /\ pc = "setup" /\ looping = FALSE /\ channel = 1 /\ nbytes = 0 /\ exit_flag = FALSE
    /\ buf = <<>> /\ want = 0
    /\ present = TRUE /\ tuned = 0 /\ air = <<>> /\ queue = <<>> /\ packets = 0
    /\ out = <<>> /\ packet_len_plus_2 = 0 /\ mark = "over" /\ faults = 0

Fault == faults < MaxFaults /\ faults' = faults + 1
Fails == (~present /\ UNCHANGED faults) \/ (present /\ Fault)

(***************************************************************************)
(* libusb_interrupt_transfer on ZENA_EP_PACKETS.                           *)
(***************************************************************************)
Taken == /\ present /\ queue # <<>> /\ queue' = Tail(queue)
         /\ UNCHANGED <<present, tuned, air, packets, faults>>

\* What comes next is not the beginning of a packet of this channel.
Pending == air # <<>> /\ (Head(air).part > 1 \/ Head(air).ch # channel)
Timeout ==
    /\ present /\ queue = <<>>
    /\ mark' = IF Pending THEN "on" ELSE IF mark = "on" THEN "over" ELSE mark
    /\ UNCHANGED <<sniffer, faults>>
Error == Fails /\ mark' = "on" /\ UNCHANGED sniffer

(***************************************************************************)
(* Opening and tuning.                                                     *)
(***************************************************************************)
\* libusb_init, open, detach the kernel's driver, configuration, claim: when
\* any of them fails the program ends.  What it has opened ends with it.
setup_libusb_access ==
    /\ pc = "setup"
    /\ \/ present /\ pc' = "tune" /\ UNCHANGED faults
       \/ Fails /\ pc' = "ended"
    /\ UNCHANGED <<option, looping, channel, nbytes, exit_flag, buf, want, sniffer, output, mark>>

\* The channel is sent; nbytes is the length of that transfer.
SendChannel ==
    /\ pc = "tune"
    /\ \/ present /\ tuned' = channel /\ nbytes' = 64 /\ pc' = "flush" /\ UNCHANGED faults
       \/ Fails /\ pc' = "ended" /\ UNCHANGED <<tuned, nbytes>>
    /\ UNCHANGED <<option, looping, channel, exit_flag, buf, want, present, air, queue, packets, output, mark>>

\* zena_set_channel ends without a return statement: what its caller takes
\* for the result is any number, so it may end the program.
Flushed == pc' = IF nbytes' > 0 THEN "flush" ELSE IF looping THEN "get" ELSE "loop"
Undefined == nbytes' = 0 /\ pc' = "ended"

\* Mutant: one read is thought to be enough.
FlushOnce ==
    /\ pc = "flush" /\ pc' = IF looping THEN "get" ELSE "loop"
    /\ \/ Taken /\ nbytes' = 64 /\ UNCHANGED mark
       \/ Timeout /\ nbytes' = 0
       \/ Error /\ nbytes' \in {nbytes, 0}
    /\ UNCHANGED <<option, looping, channel, exit_flag, buf, want, output>>

\* Read until nothing comes for 100 ms.  A transfer that cannot be started
\* leaves nbytes alone.
Flush ==
    /\ pc = "flush"
    /\ \/ Taken /\ nbytes' = 64 /\ UNCHANGED mark
       \/ Timeout /\ nbytes' = 0
       \/ Error /\ nbytes' \in {nbytes, 0}
    /\ Flushed \/ Undefined
    /\ UNCHANGED <<option, looping, channel, exit_flag, buf, want, output>>

(***************************************************************************)
(* The main loop.                                                          *)
(***************************************************************************)
Loop ==
    /\ pc = "loop" /\ looping' = TRUE
    /\ IF exit_flag THEN pc' = "ended" /\ UNCHANGED channel
       ELSE IF option.scan
       THEN pc' = "setup" /\ channel' = IF channel + 1 > Channels THEN 1 ELSE channel + 1
       ELSE pc' = "get" /\ UNCHANGED channel
    /\ UNCHANGED <<option, nbytes, exit_flag, buf, want, sniffer, output, mark, faults>>

Written(parts, len) ==
    /\ LET r == [parts |-> parts, len |-> len, tag |-> channel, mark |-> mark]
       IN  out' = IF out = <<>> THEN <<r>> ELSE <<Last(out), r>>
    /\ mark' = IF mark = "over" THEN "none" ELSE mark

\* Mutant: a timeout repeats the read.
UsbHexRepeats ==
    /\ pc = "get" /\ option.format = "usbhex"
    /\ \/ Taken /\ Written(<<Head(queue)>>, 1) /\ pc' = "loop" /\ UNCHANGED packet_len_plus_2
       \/ Taken /\ pc' = "ended" /\ UNCHANGED <<output, mark>>
       \/ Timeout /\ UNCHANGED <<pc, output>>
       \/ Error /\ pc' \in {"loop", "ended"} /\ UNCHANGED output
    /\ UNCHANGED <<option, looping, channel, nbytes, exit_flag, buf, want>>

\* Every transfer is printed.  With -t the program ends at the first
\* transfer or error after its time, which may be any.
UsbHex ==
    /\ pc = "get" /\ option.format = "usbhex"
    /\ \/ Taken /\ Written(<<Head(queue)>>, 1) /\ pc' = "loop" /\ UNCHANGED packet_len_plus_2
       \/ Taken /\ pc' = "ended" /\ UNCHANGED <<output, mark>>
       \/ Timeout /\ pc' = "loop" /\ UNCHANGED output
       \/ Error /\ pc' \in {"loop", "ended"} /\ UNCHANGED output
    /\ UNCHANGED <<option, looping, channel, nbytes, exit_flag, buf, want>>

(***************************************************************************)
(* Packets.                                                                *)
(***************************************************************************)
Whole(parts) ==
    /\ Len(parts) = parts[1].of
    /\ \A k \in DOMAIN parts : parts[k].id = parts[1].id /\ parts[k].part = k

\* The length check and the checksum test.  Parts of different packets have
\* any length and any last byte.  A packet that fails the test is written
\* with the length of the last one that passed, which has none before the
\* first.
Dropped(fcs_ok) == option.drop /\ ~fcs_ok
WritePacket(parts) ==
    \E fcs_ok \in BOOLEAN :
        /\ Whole(parts) => fcs_ok = parts[1].marked
        /\ \/ /\ ~Dropped(fcs_ok)
              /\ packet_len_plus_2' = IF fcs_ok THEN Len(parts) ELSE packet_len_plus_2
              /\ Written(parts, packet_len_plus_2')
           \/ (Whole(parts) => Dropped(fcs_ok)) /\ UNCHANGED <<output, mark>>

\* The transfers so far are enough, or another one is read.
Collected(parts, n) ==
    IF Len(parts) = n
    THEN pc' = "loop" /\ buf' = <<>> /\ want' = 0 /\ WritePacket(parts)
    ELSE pc' = "more" /\ buf' = parts /\ want' = n /\ UNCHANGED <<output, mark>>
GivenUp == pc' = "loop" /\ buf' = <<>> /\ want' = 0 /\ UNCHANGED output

\* The first transfer: its header says how many there are.  A later part
\* taken for the first says anything, or a length that is refused.
Header ==
    /\ pc = "get" /\ option.format = "pcap"
    /\ \/ /\ Taken
          /\ LET t == Head(queue)
             IN  \/ \E n \in 1..3 : (t.part = 1 => n = t.of) /\ Collected(<<t>>, n)
                 \/ t.part > 1 /\ GivenUp /\ UNCHANGED mark
       \/ (Timeout \/ Error) /\ GivenUp
    /\ UNCHANGED <<option, looping, channel, nbytes, exit_flag>>

\* The second and the third transfer, for which it waits 100 ms.
More ==
    /\ pc = "more"
    /\ \/ Taken /\ Collected(Append(buf, Head(queue)), want)
       \/ (Timeout \/ Error) /\ GivenUp
    /\ UNCHANGED <<option, looping, channel, nbytes, exit_flag>>

(***************************************************************************)
(* SIGPIPE, and the sniffer (external).                                    *)
(***************************************************************************)
signal_handler ==
    /\ pc # "ended" /\ ~exit_flag /\ exit_flag' = TRUE
    /\ UNCHANGED <<option, pc, looping, channel, nbytes, buf, want, sniffer, output, mark, faults>>

Program == <<option, pc, looping, channel, nbytes, exit_flag, buf, want, output, mark, faults>>
Receive ==
    /\ present /\ tuned # 0 /\ air = <<>> /\ packets < MaxPackets /\ packets' = packets + 1
    /\ \E n \in Sizes, marked \in BOOLEAN :
        /\ ~marked => option.format = "pcap" /\ packets' \in Damaged
        /\ air' = [k \in 1..n |-> [id |-> packets', part |-> k, of |-> n, ch |-> tuned,
                                   marked |-> marked]]
    /\ UNCHANGED <<Program, present, tuned, queue>>
Deliver ==
    /\ air # <<>> /\ queue' = Append(queue, Head(air)) /\ air' = Tail(air)
    /\ UNCHANGED <<Program, present, tuned, packets>>
Unplug ==
    /\ present /\ present' = FALSE /\ queue' = <<>> /\ air' = <<>>
    /\ UNCHANGED <<Program, tuned, packets>>

main == setup_libusb_access \/ SendChannel \/ Flush \/ Loop \/ UsbHex \/ Header \/ More
Next == main \/ signal_handler \/ Receive \/ Deliver \/ Unplug

\* The program runs.
Spec == Init /\ [][Next]_vars /\ WF_vars(main)

(***************************************************************************)
(* Properties.                                                             *)
(***************************************************************************)
\* A record of pcap output is one whole packet, with its own length when it
\* passed the checksum test, every record carries the channel it was received
\* on, and without a scan none is missing between two records.  Exempt, until
\* the next silence between packets, are records after a part that came too
\* late or a failed transfer, and what the channel left behind still has on
\* the air when the flush ends: the comment at zena-0.4.3.c:656-660 knows it.
Next1(a, b) ==
    IF a.part < a.of THEN b.id = a.id /\ b.part = a.part + 1 ELSE b.id = a.id + 1 /\ b.part = 1
Captured ==
    \A i \in DOMAIN out :
        LET r == out[i]
        IN  r.mark # "on" =>
              /\ option.format = "pcap" =>
                    Whole(r.parts) /\ (r.parts[1].marked => r.len = Len(r.parts))
              /\ \A k \in DOMAIN r.parts : r.parts[k].ch = r.tag
              /\ i > 1 /\ r.mark = "none" /\ ~option.scan /\ ~option.drop =>
                    Next1(Last(out[i - 1].parts), r.parts[1])

\* After SIGPIPE the program ends, whatever it is doing and whichever
\* transfers fail, as long as the sniffer is plugged, the air is not busy for
\* ever and transfers do not fail for ever: the flush ends only with one that
\* sets nbytes to 0, which a transfer that cannot be submitted leaves alone.
Leaves == exit_flag ~> (pc = "ended" \/ ~present)
=============================================================================
