------------------------------- MODULE Usb2Lpt ------------------------------
(***************************************************************************)
(* The firmware usb2lpt5: commands that arrive in packets of endpoint 1 or *)
(* inside of SETUP requests work on the registers of LptPort, while the    *)
(* main loop moves the words of the FIFO over the cable.  Each iteration   *)
(* of ProcessInOut is a step; the peripheral moves between any two steps.  *)
(*                                                                         *)
(* The program on the host and the peripheral are external.  profile says  *)
(* what the program does: "ports" plays with all registers, "stream" sends *)
(* commands cut into packets anywhere, "ecpout" and "ecpin" move words     *)
(* through the FIFO.                                                       *)
(***************************************************************************)
EXTENDS LptPort, Sequences, SequencesExt

CONSTANTS
    Profiles,    \* subset of {"ports", "stream", "ecpout", "ecpin"}
    PortPackets, \* sets of packets, of which a program sends one in profile "ports"
    StreamBytes, \* bytes of the packets in profile "stream"
    MaxPacket,   \* bound on the length of those packets
    MaxStream,   \* bound on the bytes sent in profile "stream"
    MaxWords     \* bound on the words in the profiles "ecpout" and "ecpin"

ASSUME LptAssumption ==
    /\ Profiles \subseteq {"ports", "stream", "ecpout", "ecpin"}
    /\ {MaxPacket, MaxStream, MaxWords} \subseteq Nat
    /\ StreamBytes \subseteq 0..255
    /\ UNION PortPackets \subseteq Seq(0..255)

VARIABLES
    profile,
    s,           \* registers
    x,           \* the cable
    job,         \* call of ProcessInOut under way: who called, data not yet
                 \* read, answers written
    PendingByte,
    gReplyLen,
    ExpectEP1OutToken,  \* 0 for DATA0, 1 for DATA1
    eeprom,      \* the Feature byte kept over a reset
    host,        \* toggle and last packet of endpoint 1, and what it may send
    stream,      \* history: bytes sent, each once
    done,        \* history: commands executed
    words,       \* history: words the program put into the FIFO, or the
                 \* peripheral gave
    got,         \* history: words that arrived at the other end
    spoilt       \* history: "dir" the program set DDRD itself, "oc" a cycle
                 \* has changed PORTD without DDRD

firmware == <<job, PendingByte, gReplyLen, ExpectEP1OutToken>>
history == <<stream, done, words, got, spoilt>>
vars == <<profile, s, x, firmware, eeprom, host, history>>

Weight == <<1, 2, 4, 8, 16, 32, 64, 128>>
Bits(n) == {i \in Byte : (n \div Weight[i + 1]) % 2 = 1}
Reg(a) == RegOf[(a \div 16) + 1]
Latch(a) == (a \div 8) % 2 = 1

Idle == [src |-> "none", data |-> <<>>, out |-> <<>>]

\* Registers after main has initialised them.
Boot(feature) ==
    out402(LptOn([data_byte |-> {}, DCR |-> {2, 3, 6, 7}, ECR |-> {0}, mode |-> 0,
                  EppTimeOut |-> FALSE, Feature |-> feature,
                  Fifo |-> [i \in 0..FIFOSIZE - 1 |-> {}], fifor |-> 0, fifow |-> 0,
                  last |-> <<>>, epoch |-> 1,
                  PORTB |-> {}, PORTC |-> {}, PORTD |-> {},
                  DDRB |-> {}, DDRC |-> {}, DDRD |-> {}]), {5})

\* After a restart the FIFO is a new one, too: epoch is another one.
BootState(feature) ==
    /\ s' = [Boot(feature) EXCEPT !.epoch = 1 - s.epoch] /\ job' = Idle
    /\ PendingByte' = 0 /\ gReplyLen' = 0 /\ ExpectEP1OutToken' = 0

Init ==
    /\ profile \in Profiles
    /\ s = Boot({}) /\ eeprom = {} /\ job = Idle
    /\ x = [D |-> {5}, C |-> {4}, B |-> {}, epp |-> TRUE]
    /\ PendingByte = 0 /\ gReplyLen = 0 /\ ExpectEP1OutToken = 0
    /\ host \in [tog : {0}, last : {<<>>}, may : IF profile = "ports" THEN PortPackets ELSE {{}}]
    /\ stream = <<>> /\ done = <<>> /\ words = <<>> /\ got = <<>> /\ spoilt = {}

(***************************************************************************)
(* ProcessInOut.                                                           *)
(***************************************************************************)
ProcessInOut(src, data) ==
    job' = [src |-> src, data |-> data, out |-> <<>>]

Command == IF PendingByte # 0 THEN PendingByte - 16 ELSE Head(job.data)
Rest == IF PendingByte # 0 THEN job.data ELSE Tail(job.data)
IsIn(c) == (c \div 16) % 2 = 1
Running == job.src # "none" /\ job.data # <<>>

\* Words the transfer adds to the history when the program reads the FIFO:
\* a register has eight bits.
Taken(reg) == IF profile = "ecpin" /\ reg = "400" /\ 0 \notin s.ECR
              THEN Append(got, FifoWord(s) \cap Byte) ELSE got
Spoils(reg) ==
    (IF reg = "404" THEN {"dir", "oc"} ELSE {}) \cup (IF reg \in {"3", "4"} THEN {"oc"} ELSE {})

DoIn ==
    /\ Running /\ IsIn(Command)
    /\ LET reg == RegOf[(Command % 16) + 1]
       IN  /\ job' = [job EXCEPT !.data = Rest, !.out = Append(@, getbyte(reg, FALSE, s, x))]
           /\ s' = afterget(reg, FALSE, s, x)
           /\ got' = Taken(reg)
    /\ done' = IF profile = "stream" THEN Append(done, <<Command>>) ELSE done
    /\ PendingByte' = 0
    /\ UNCHANGED <<profile, x, gReplyLen, ExpectEP1OutToken, eeprom, host, stream, words,
                   spoilt>>

DoHalfUnmarked ==
    /\ Running /\ ~IsIn(Command) /\ Rest = <<>>
    /\ PendingByte' = Command
    /\ job' = [job EXCEPT !.data = <<>>]
    /\ UNCHANGED <<profile, s, x, gReplyLen, ExpectEP1OutToken, eeprom, host, history>>

\* The second byte comes with the next packet.
DoHalf ==
    /\ Running /\ ~IsIn(Command) /\ Rest = <<>>
    /\ PendingByte' = Command + 16
    /\ job' = [job EXCEPT !.data = <<>>]
    /\ UNCHANGED <<profile, s, x, gReplyLen, ExpectEP1OutToken, eeprom, host, history>>

\* Commands 0x21 to 0x23: set, clear or invert one bit of a register.
Modified(c, b, i) == CASE c = 33 -> b \cup {i} [] c = 34 -> b \ {i} [] OTHER -> Xor(b, {i})
Executed(c, v) ==
    IF c < 16 THEN setbyte(RegOf[c + 1], Bits(v), s, x)
    ELSE IF c \in 33..35
         THEN setbyte(Reg(v), Modified(c, getbyte(Reg(v), Latch(v), s, x), v % 8),
                      afterget(Reg(v), Latch(v), s, x), x)
    ELSE IF c = 36 THEN afterget(Reg(v), Latch(v), s, x)
    ELSE s

\* waitbit goes on while the bit is not as wanted and no frame has begun.
Waits(c, v) ==
    c = 36 /\ ((v % 8) \in getbyte(Reg(v), Latch(v), s, x)) # Latch(v)

DoOut ==
    /\ Running /\ ~IsIn(Command) /\ Rest # <<>>
    /\ LET v == Head(Rest)
       IN  /\ s' = Executed(Command, v)
           /\ done' = IF profile = "stream" THEN Append(done, <<Command, v>>) ELSE done
           /\ spoilt' = spoilt \cup IF Command < 16 THEN Spoils(RegOf[Command + 1])
                                    ELSE IF Command \in 33..35 THEN Spoils(Reg(v)) ELSE {}
    /\ job' = [job EXCEPT !.data = Tail(Rest)]
    /\ PendingByte' = 0
    /\ UNCHANGED <<profile, x, gReplyLen, ExpectEP1OutToken, eeprom, host, stream, words, got>>

waitbit ==
    /\ Running /\ ~IsIn(Command) /\ Rest # <<>> /\ Waits(Command, Head(Rest))
    /\ s' = Executed(Command, Head(Rest))
    /\ UNCHANGED <<profile, x, firmware, eeprom, host, history>>

\* Back in the caller: usbFunctionWriteOut hands the answers to endpoint 1,
\* usbFunctionSetup returns 0.
Return ==
    /\ job.src # "none" /\ job.data = <<>>
    /\ job' = Idle
    /\ gReplyLen' = CASE job.src = "0x40" -> gReplyLen + Len(job.out)
                      [] job.src = "0xC0" -> 0
                      [] OTHER -> gReplyLen
    /\ UNCHANGED <<profile, s, x, PendingByte, ExpectEP1OutToken, eeprom, host, history>>

(***************************************************************************)
(* Packets and requests of the host (external), and who receives them.     *)
(***************************************************************************)
\* What a program in each profile sends next: in "ecpout" and "ecpin" it
\* sets the mode, then one word at a time if ECR says there is room.
Word1(n) == {<<8, n>>, <<0, n>>}
Packets ==
    CASE profile = "ports"  -> host.may
      [] profile = "stream" -> BoundedSeq(StreamBytes, MaxPacket)
      [] profile = "ecpout" ->
           IF s.mode = 1 THEN {<<10, 64>>, <<10, 96>>}
           ELSE IF 1 \in s.ECR \/ Len(words) = MaxWords THEN {}
           ELSE Word1(Len(words) + 1)
      [] profile = "ecpin" ->
           IF s.mode = 1 THEN {<<10, 96>>}
           ELSE IF 5 \notin s.DCR THEN {<<2, 34>>}
           ELSE IF 0 \in s.ECR THEN {} ELSE {<<24>>}

\* The word a packet of "ecpout" puts; bit 8 tells data from addresses.
WordOf(p) == Bits(p[2]) \cup IF p[1] = 8 THEN {8} ELSE {}
Sent(p) ==
    /\ stream' = IF profile = "stream" THEN stream \o p ELSE stream
    /\ words' = IF profile = "ecpout" /\ p \in Word1(p[2]) THEN Append(words, WordOf(p)) ELSE words
Room(p) == profile = "stream" => Len(stream) + Len(p) <= MaxStream

usbFunctionWriteOut(token, data) ==
    IF token = ExpectEP1OutToken
    THEN /\ ExpectEP1OutToken' = 1 - token
         /\ ProcessInOut(IF data = <<>> THEN "none" ELSE "ep1", data)
    ELSE UNCHANGED <<ExpectEP1OutToken, job>>

Packet ==
    /\ job.src = "none"
    /\ \E p \in Packets :
        /\ Room(p) /\ Sent(p)
        /\ usbFunctionWriteOut(host.tog, p)
        /\ host' = [host EXCEPT !.tog = 1 - @, !.last = IF profile = "stream" THEN p ELSE <<>>]
    /\ UNCHANGED <<profile, s, x, PendingByte, gReplyLen, eeprom, done, got, spoilt>>

\* The handshake was lost: the host repeats the packet with its toggle.
Repeat ==
    /\ job.src = "none" /\ host.last # <<>>
    /\ usbFunctionWriteOut(1 - host.tog, host.last)
    /\ UNCHANGED <<profile, s, x, PendingByte, gReplyLen, eeprom, host, history>>

\* Requests 0x90 to 0x94 carry up to 4 bytes of commands; MaxStream bounds
\* what requests to the device add to gReplyBuf.
SetupCommands ==
    /\ profile = "stream" /\ job.src = "none"
    /\ \E p \in Packets, src \in {"0x40", "0xC0"} :
        /\ Len(p) <= 4 /\ Room(p) /\ Sent(p)
        /\ ProcessInOut(src, p)
    /\ UNCHANGED <<profile, s, x, PendingByte, gReplyLen, ExpectEP1OutToken, eeprom, host, done, got,
                   spoilt>>

\* READ_REG and WRITE_REG; ECHO changes nothing.
SetupRegister ==
    /\ profile = "ports" /\ job.src = "none"
    /\ \/ s' = afterget("0", FALSE, s, x)
       \/ \E p \in Packets : p[1] = 0 /\ s' = out0(s, Bits(p[2]))
       \/ \E p \in Packets : p[1] = 2 /\ s' = out2(s, Bits(p[2]))
    /\ UNCHANGED <<profile, x, firmware, eeprom, host, history>>

(***************************************************************************)
(* The main loop: FIFO transfers, and the EEPROM.                          *)
(***************************************************************************)
STB == 2
AF == 3
Level(pin) == pin \in PINB(s, x)
BusyCable == [x EXCEPT !.C = @ \cup {5}]

\* The peripheral sees the strobe at once: it takes what is on the eight
\* lines and is busy.
SppXfer ==
    /\ job.src = "none" /\ s.mode = 2 /\ 0 \notin s.ECR /\ ~BSY(s, x)
    /\ s' = [GetFifo(s) EXCEPT !.PORTD = FifoWord(s) \cap Byte, !.PORTB = @ \cup {STB}]
    /\ IF profile = "ecpout"
       THEN x' = BusyCable /\ got' = Append(got, FifoWord(s) \cap Byte)
       ELSE UNCHANGED <<x, got>>
    /\ spoilt' = spoilt \cup {"oc"}
    /\ UNCHANGED <<profile, firmware, eeprom, host, stream, done, words>>

EcpIn(r) ==
    IF 1 \in r.ECR \/ (AF \notin r.PORTB /\ ACK(r, x)) THEN r
    ELSE LET t == [r EXCEPT !.PORTB = @ \cup {AF}]
         IN  IF ~ACK(r, x) THEN t
             ELSE [PutFifo(t, PIND(r, x) \cup IF BSY(r, x) THEN {8} ELSE {})
                   EXCEPT !.PORTB = @ \ {AF}]

\* Ends the strobe without waiting for BSY, and never ends it.
EcpOutHasty(r) ==
    IF STB \in r.PORTB
    THEN IF 0 \in r.ECR \/ BSY(r, x) THEN r
         ELSE [GetFifo(r) EXCEPT !.PORTD = FifoWord(r) \cap Byte,
                 !.PORTB = (@ \cap {4, 5}) \cup IF 8 \in FifoWord(r) THEN {AF} ELSE {}]
    ELSE [r EXCEPT !.PORTB = @ \cup {STB}]
EcpOutStuck(r) ==
    IF 0 \in r.ECR \/ BSY(r, x) \/ STB \notin r.PORTB THEN r
    ELSE [GetFifo(r) EXCEPT !.PORTD = FifoWord(r) \cap Byte,
            !.PORTB = (@ \cap {4, 5}) \cup IF 8 \in FifoWord(r) THEN {AF} ELSE {}]

EcpOut(r) ==
    IF STB \in r.PORTB
    THEN IF 0 \in r.ECR \/ BSY(r, x) THEN r
         ELSE [GetFifo(r) EXCEPT !.PORTD = FifoWord(r) \cap Byte,
                 !.PORTB = (@ \cap {4, 5}) \cup IF 8 \in FifoWord(r) THEN {AF} ELSE {}]
    ELSE IF BSY(r, x) THEN [r EXCEPT !.PORTB = @ \cup {STB}] ELSE r

EcpXfer ==
    /\ job.src = "none" /\ s.mode = 3
    /\ s' = IF DIRECTION_INPUT(s) THEN EcpIn(s) ELSE EcpOut(s)
    /\ s' # s
    /\ spoilt' = spoilt \cup {"oc"}
    /\ UNCHANGED <<profile, x, firmware, eeprom, host, stream, done, words, got>>

\* Once per millisecond.
SaveFeature ==
    /\ job.src = "none" /\ eeprom # s.Feature
    /\ eeprom' = s.Feature
    /\ UNCHANGED <<profile, s, x, firmware, host, history>>

\* The device is unplugged, or the watchdog bites: RAM is cleared.
Restart ==
    /\ profile = "ports"
    /\ BootState(eeprom)
    /\ host' = [host EXCEPT !.tog = 0, !.last = <<>>]
    /\ spoilt' = {}
    /\ UNCHANGED <<profile, x, eeprom, stream, done, words, got>>

(***************************************************************************)
(* The peripheral (external).                                              *)
(***************************************************************************)
\* BSY and WAIT are one line; only these two modes look at it.
Cable ==
    /\ profile = "ports" /\ s.mode \in {2, 4}
    /\ \/ x' = [x EXCEPT !.C = @ \cup {5}, !.epp = FALSE]
       \/ \E rises \in BOOLEAN : x' = [x EXCEPT !.C = @ \ {5}, !.epp = rises]
    /\ UNCHANGED <<profile, s, firmware, eeprom, host, history>>

\* ECP output: take the byte while the strobe is low.
TakeByte ==
    /\ profile = "ecpout" /\ s.mode = 3 /\ ~Level(STB) /\ ~BSY(s, x)
    /\ got' = Append(got, PIND(s, x) \cup IF Level(AF) THEN {8} ELSE {})
    /\ x' = BusyCable
    /\ UNCHANGED <<profile, s, firmware, eeprom, host, stream, done, words, spoilt>>

Ready ==
    /\ profile = "ecpout" /\ BSY(s, x) /\ Level(STB)
    /\ x' = [x EXCEPT !.C = @ \ {5}]
    /\ UNCHANGED <<profile, s, firmware, eeprom, host, history>>

\* ECP input: offer a byte, and end the offer when /AF has gone high.
Offer ==
    /\ profile = "ecpin" /\ DIRECTION_INPUT(s) /\ ~Level(AF) /\ ACK(s, x) /\ Len(words) < MaxWords
    /\ \E data \in BOOLEAN :
        /\ x' = [x EXCEPT !.D = Bits(Len(words) + 1), !.C = IF data THEN {5} ELSE {}]
        /\ words' = Append(words, x'.D \cup IF data THEN {8} ELSE {})
    /\ UNCHANGED <<profile, s, firmware, eeprom, host, stream, done, got, spoilt>>

EndOffer ==
    /\ profile = "ecpin" /\ Level(AF) /\ ~ACK(s, x)
    /\ x' = [x EXCEPT !.C = @ \cup {4}]
    /\ UNCHANGED <<profile, s, firmware, eeprom, host, history>>

MainLoop == DoIn \/ DoHalf \/ DoOut \/ waitbit \/ Return \/ SppXfer \/ EcpXfer
Peripheral == TakeByte \/ Ready \/ Offer \/ EndOffer
Next ==
    \/ MainLoop \/ Packet \/ Repeat \/ SetupCommands \/ SetupRegister
    \/ SaveFeature \/ Restart \/ Cable \/ Peripheral

Spec == Init /\ [][Next]_vars
FairSpec == Spec /\ WF_vars(MainLoop) /\ WF_vars(Peripheral)
(***************************************************************************)
(* Properties.                                                             *)
(***************************************************************************)
Count(r) == IF 1 \in r.ECR THEN FIFOSIZE ELSE (r.fifow + FIFOSIZE - r.fifor) % FIFOSIZE
Contents(r) == [i \in 1..Count(r) |-> r.Fifo[(r.fifor + i - 1) % FIFOSIZE]]
Fifo == INSTANCE LptFifo WITH N <- FIFOSIZE, q <- Contents(s), last <- s.last, epoch <- s.epoch

\* Two indices and two bits of ECR are a queue: whatever registers the
\* program writes and whenever the transfers run, GetFifo delivers the words
\* in the order put, each once, and the last one again from an empty FIFO;
\* no word is overwritten, and none is lost but by a write to ECR (usb2lpt5
\* clears the FIFO there, 292-307) or a restart.
FifoQueue == Fifo!Spec

\* Bit 5 of DCR decides over the drivers of the data port, through every
\* change of mode, of DirectIO and of Feature: nothing is driven against the
\* peripheral, and with simulated open collectors no line is driven high.
DataDirection ==
    "dir" \notin spoilt /\ ~DirectIO(s) =>
        /\ DIRECTION_INPUT(s) => s.DDRD = {}
        /\ ~DIRECTION_INPUT(s) /\ ~OpenDrain(s) => s.DDRD = Byte
        /\ ~DIRECTION_INPUT(s) /\ OpenDrain(s) /\ "oc" \notin spoilt => s.DDRD \cap s.PORTD = {}

\* Every word put into the FIFO reaches the peripheral once and in order, in
\* ECP mode with its data/address bit; the eight data lines of SPP mode, and
\* the eight bits of a register when the program reads the FIFO, are all of
\* the word that arrives there.
Arriving(q) == IF profile = "ecpout" /\ s.mode = 3 THEN q
               ELSE [i \in DOMAIN q |-> q[i] \cap Byte]
OnLines == IF s.mode = 3 /\ ~Level(STB) /\ ~BSY(s, x)
           THEN <<PIND(s, x) \cup IF Level(AF) THEN {8} ELSE {}>> ELSE <<>>
Latched == IF words # <<>> /\ (Level(AF) \/ ~ACK(s, x)) THEN Front(words) ELSE words
Handshake ==
    /\ profile = "ecpout" /\ job.src = "none" =>
          Arriving(words) = got \o OnLines \o Arriving(Contents(s))
    /\ profile = "ecpin" => Arriving(Latched) = got \o Arriving(Contents(s))

\* Commands are those of the bytes sent, wherever these are cut into packets
\* and requests, and although packets are repeated; half a command at the
\* end of a packet waits for its second byte.
Nothing == [half |-> <<>>, out |-> <<>>]
Parsed(a, b) ==
    IF a.half # <<>> THEN [half |-> <<>>, out |-> Append(a.out, a.half \o <<b>>)]
    ELSE IF IsIn(b) THEN [half |-> <<>>, out |-> Append(a.out, <<b>>)]
    ELSE [half |-> <<b>>, out |-> a.out]
Parse(bytes) ==
    LET upto[n \in 0..Len(bytes)] == IF n = 0 THEN Nothing ELSE Parsed(upto[n - 1], bytes[n])
    IN  upto[Len(bytes)]
StreamParsed ==
    profile = "stream" /\ job.src = "none" =>
        LET p == Parse(stream)
        IN  done = p.out /\ PendingByte = IF p.half = <<>> THEN 0 ELSE p.half[1] + 16

\* What is put into the FIFO arrives, if the peripheral answers.
FifoDrains == (profile = "ecpout" /\ Arriving(words) # got) ~> (Arriving(words) = got)
=============================================================================
