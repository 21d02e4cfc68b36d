------------------------------ MODULE LptPort -------------------------------
(***************************************************************************)
(* The parallel port of the usb2lpt5 firmware: registers of an ECP port    *)
(* made from the ports of the AVR, and the FIFO.  A byte is the set of its *)
(* bits that are 1; a register operation maps the registers s to new ones. *)
(* x is what the cable shows while the operation runs: x.D, x.C, x.B are   *)
(* the levels at the pins that are not driven, x.epp says that WAIT rises  *)
(* in time.                                                                *)
(*                                                                         *)
(* Two fields are history: last is the word GetFifo delivered last, and    *)
(* epoch changes with every write to ECR, which clears the FIFO.           *)
(***************************************************************************)
EXTENDS Integers

CONSTANT FIFOSIZE
ASSUME FifoAssumption == FIFOSIZE \in Nat \ {0, 1}

Byte == 0..7
Word == SUBSET (0..8)      \* bit 8: data byte (1) or command byte (0)
Xor(a, b) == (a \ b) \cup (b \ a)
Not(a) == Byte \ a
Shl2(a) == {i \in Byte : i - 2 \in a}
Shr2(a) == {i \in Byte : i + 2 \in a}

\* ECR_Bits is 1 << mode, the mode being the upper three bits of ECR.
Fifos == {2, 3, 6}         \* ECR_Bits & 0x4C: SPP FIFO, ECP, FIFO test
Outward == {0, 2}          \* ECR_Bits & 0x05: SPP and SPP FIFO only write
ModeOf(b) == (IF 5 \in b THEN 1 ELSE 0) + (IF 6 \in b THEN 2 ELSE 0)
             + (IF 7 \in b THEN 4 ELSE 0)

DirectIO(s) == 6 \in s.Feature
OpenDrain(s) == 0 \in s.Feature
DIRECTION_INPUT(s) == 5 \in s.DCR

\* Level of the pins of a port: the latch where driven, else the outside.
Pin(latch, ddr, ext) == (latch \cap ddr) \cup (ext \ ddr)
PIND(s, x) == Pin(s.PORTD, s.DDRD, x.D)
PINC(s, x) == Pin(s.PORTC, s.DDRC, x.C)
PINB(s, x) == Pin(s.PORTB, s.DDRB, x.B)
BSY(s, x) == 5 \in PINC(s, x)
ACK(s, x) == 4 \in PINC(s, x)

(***************************************************************************)
(* The FIFO: bit 0 of ECR says empty, bit 1 full.                          *)
(***************************************************************************)
Next1(i) == (i + 1) % FIFOSIZE
PutFifoNeverFull(s, w) ==
    [s EXCEPT !.Fifo[s.fifow] = w, !.fifow = Next1(@), !.ECR = @ \ {0}]
PutFifo(s, w) ==
    IF 1 \in s.ECR THEN s
    ELSE [s EXCEPT !.Fifo[s.fifow] = w, !.fifow = Next1(@),
                   !.ECR = (@ \ {0}) \cup IF Next1(s.fifow) = s.fifor THEN {1} ELSE {}]

\* An empty FIFO delivers the word it delivered last.
FifoWord(s) == IF 0 \in s.ECR THEN s.Fifo[(s.fifor + FIFOSIZE - 1) % FIFOSIZE]
               ELSE s.Fifo[s.fifor]
GetFifo(s) ==
    LET t == [s EXCEPT !.last = <<FifoWord(s)>>]
    IN  IF 0 \in s.ECR THEN t
        ELSE [t EXCEPT !.fifor = Next1(@),
                       !.ECR = (@ \ {1}) \cup IF Next1(s.fifor) = s.fifow THEN {0} ELSE {}]

(***************************************************************************)
(* Directions, and the EPP cycles.                                         *)
(***************************************************************************)
LptSetDataDir(s) ==
    IF DIRECTION_INPUT(s) THEN [s EXCEPT !.DDRD = {}, !.PORTD = Byte]
    ELSE [s EXCEPT !.PORTD = s.data_byte,
                   !.DDRD = IF OpenDrain(s) THEN Not(s.data_byte) ELSE Byte]

LptOn(s) ==
    [LptSetDataDir(s) EXCEPT !.DDRC = {0}, !.PORTC = 1..5,
        !.PORTB = Shl2(Xor(s.DCR, {0, 1, 3})), !.DDRB = 2..5]

\* The strobe, and for a write the drivers, are back as they were at the
\* end: what stays is the timeout bit.
epp_io(s, x) == IF ~BSY(s, x) /\ x.epp THEN s ELSE [s EXCEPT !.EppTimeOut = TRUE]

(***************************************************************************)
(* Writing a register.                                                     *)
(***************************************************************************)
out0(s, b) ==
    IF s.mode \in Fifos THEN PutFifo(s, b)
    ELSE IF DIRECTION_INPUT(s) THEN [s EXCEPT !.data_byte = b]
    ELSE [s EXCEPT !.data_byte = b, !.PORTD = b,
                   !.DDRD = IF OpenDrain(s) THEN Not(b) ELSE @]

out1(s, b) ==
    LET c == IF DirectIO(s) THEN Shr2(b)
             ELSE Xor(Shr2(b), {5}) \cup Not(s.DDRC)
    IN  [s EXCEPT !.EppTimeOut = IF s.mode = 4 /\ 0 \notin b THEN FALSE ELSE @,
                  !.PORTC = (@ \cap {0}) \cup (c \cap (1..5))]

out2(s, b) ==
    LET dcr == (b \cup {6, 7}) \ (IF s.mode \in Outward THEN {5} ELSE {})
        t   == [s EXCEPT !.DCR = dcr]
        u   == IF ~DirectIO(s) /\ 5 \in Xor(dcr, s.DCR) THEN LptSetDataDir(t) ELSE t
        c   == Shl2(IF DirectIO(s) THEN dcr ELSE Xor(dcr, {0, 1, 3}))
    IN  [u EXCEPT !.PORTB = c,
                  !.DDRB = IF 2 \in s.Feature THEN (2..7) \ c ELSE @]

out3(s, b, x) == epp_io([s EXCEPT !.PORTD = b], x)
out4(s, b, x) == epp_io([s EXCEPT !.PORTD = b], x)

out400(s, b) == IF s.mode \in Fifos THEN PutFifo(s, b \cup {8}) ELSE s

out402KeepsDir(s, b) ==
    LET m == ModeOf(b)
    IN  [s EXCEPT !.ECR = (b \cap (3..7)) \cup {0, 2}, !.mode = m,
                  !.EppTimeOut = m # 4, !.fifor = 0, !.fifow = 0,
                  !.last = <<>>, !.epoch = 1 - @,
                  !.DCR = IF m \in Outward THEN @ \ {5} ELSE @]
out402(s, b) ==
    LET m == ModeOf(b)
        t == [s EXCEPT !.ECR = (b \cap (3..7)) \cup {0, 2}, !.mode = m,
                       !.EppTimeOut = m # 4, !.fifor = 0, !.fifow = 0,
                       !.last = <<>>, !.epoch = 1 - @]
    IN  IF m \in Outward /\ DIRECTION_INPUT(s)
        THEN LptSetDataDir([t EXCEPT !.DCR = @ \ {5}]) ELSE t

out404(s, b) == [s EXCEPT !.DDRD = b]

out405(s, b) ==
    LET c == Shr2(b) \cup {0, 6, 7}
    IN  [s EXCEPT !.DDRC = c, !.PORTC = IF DirectIO(s) THEN @ ELSE @ \cup Not(c)]

out406(s, b) == [s EXCEPT !.DDRB = Shl2(b)]

out407(s, b) ==
    LET f == b \cap {0, 2, 4, 6, 7}
        t == Xor(s.Feature, f)
        u == [s EXCEPT !.Feature = f,
                !.DDRD = IF 0 \in t /\ 6 \notin f /\ ~DIRECTION_INPUT(s)
                         THEN IF 0 \in f THEN Not(s.PORTD) ELSE Byte ELSE @,
                !.DDRB = IF 2 \in t /\ 6 \notin f
                         THEN IF 2 \in f THEN (2..5) \ s.PORTB ELSE 2..5 ELSE @]
    IN  IF 6 \in t /\ 6 \notin f THEN LptOn(u) ELSE u

(***************************************************************************)
(* Reading a register: the byte delivered.  Only a read of the FIFO and an *)
(* EPP cycle change registers (see getbyte).                               *)
(***************************************************************************)
in0(s, x) == IF s.mode \in Fifos THEN FifoWord(s) \cap Byte ELSE PIND(s, x)
in1(s, x) ==
    LET t == Shl2(PINC(s, x)) \cup (0..2)
        u == IF DirectIO(s) THEN t ELSE Xor(t, {7})
    IN  IF s.EppTimeOut THEN u ELSE u \ {0}
internal_in2(s, port) ==
    LET b == Shr2(port) \cap (0..3)
    IN  (IF DirectIO(s) THEN b ELSE Xor(b, {0, 1, 3})) \cup (s.DCR \cap (4..7))
in2(s, x) == internal_in2(s, IF s.mode \in Fifos THEN s.PORTB ELSE PINB(s, x))
in3(s, x) == PIND(s, x)
in4(s, x) == PIND(s, x)
in400(s) == IF s.mode = 7 THEN {4}
            ELSE IF s.mode \in Fifos THEN FifoWord(s) \cap Byte ELSE Byte
in401(s) == IF s.mode = 7 THEN {} ELSE Byte
in402(s) == s.ECR
in404(s) == s.DDRD
in405(s) == Shl2(s.DDRC) \cap (3..7)
in406(s) == Shr2(s.DDRB) \cap (0..3)
in407(s) == s.Feature

(***************************************************************************)
(* Address decoding: RegOf[n + 1] is the register at the addresses whose   *)
(* upper half is n.  latch is bit 3 of the address, which has a meaning    *)
(* when one of the three SPP registers is read.                            *)
(***************************************************************************)
RegOf == <<"0", "1", "2", "3", "4", "4", "4", "4",
           "400", "401", "402", "none", "404", "405", "406", "407">>

\* The byte a read delivers, and the registers after it.
getbyte(a, latch, s, x) ==
    CASE a = "0" -> IF latch THEN s.PORTD ELSE in0(s, x)
      [] a = "1" -> IF latch THEN Shl2(s.PORTC) \cup (0..2) ELSE in1(s, x)
      [] a = "2" -> IF latch THEN internal_in2(s, s.PORTB) ELSE in2(s, x)
      [] a = "3" -> in3(s, x)       [] a = "4" -> in4(s, x)
      [] a = "400" -> in400(s)      [] a = "401" -> in401(s)
      [] a = "402" -> in402(s)      [] a = "404" -> in404(s)
      [] a = "405" -> in405(s)      [] a = "406" -> in406(s)
      [] a = "407" -> in407(s)      [] OTHER -> Byte
afterget(a, latch, s, x) ==
    CASE (a = "400" \/ (a = "0" /\ ~latch)) /\ s.mode \in Fifos -> GetFifo(s)
      [] a \in {"3", "4"} -> epp_io(s, x)
      [] OTHER -> s

setbyte(a, b, s, x) ==
    CASE a = "0" -> out0(s, b)      [] a = "1" -> out1(s, b)
      [] a = "2" -> out2(s, b)      [] a = "3" -> out3(s, b, x)
      [] a = "4" -> out4(s, b, x)   [] a = "400" -> out400(s, b)
      [] a = "402" -> out402(s, b)  [] a = "404" -> out404(s, b)
      [] a = "405" -> out405(s, b)  [] a = "406" -> out406(s, b)
      [] a = "407" -> out407(s, b)  [] OTHER -> s
=============================================================================
