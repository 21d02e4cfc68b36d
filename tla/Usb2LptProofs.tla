---------------------------- MODULE Usb2LptProofs ---------------------------
(***************************************************************************)
(* The firmware usb2lpt5.  In this order: what each register operation     *)
(* does to the types of the registers, to the direction of the data port   *)
(* and to the FIFO; the directions; the FIFO as a queue; the words over    *)
(* the cable; the commands of a stream of bytes.                           *)
(***************************************************************************)
EXTENDS Usb2Lpt, SequenceTheorems, WellFoundedInduction, TLAPS

Registers ==
    [data_byte : SUBSET Byte, DCR : SUBSET Byte, ECR : SUBSET Byte, mode : 0..7,
     EppTimeOut : BOOLEAN, Feature : SUBSET Byte,
     Fifo : [0..FIFOSIZE - 1 -> Word], fifor : 0..FIFOSIZE - 1, fifow : 0..FIFOSIZE - 1,
     last : Seq(Word), epoch : {0, 1},
     PORTB : SUBSET Byte, PORTC : SUBSET Byte, PORTD : SUBSET Byte,
     DDRB : SUBSET Byte, DDRC : SUBSET Byte, DDRD : SUBSET Byte]
CableLevels == [D : SUBSET Byte, C : SUBSET Byte, B : SUBSET Byte, epp : BOOLEAN]

-----------------------------------------------------------------------------
(***************************************************************************)
(* The registers stay within their types.                                  *)
(***************************************************************************)
LEMMA NextIndex ==
    ASSUME NEW i \in 0..FIFOSIZE - 1
    PROVE  /\ Next1(i) \in 0..FIFOSIZE - 1
           /\ Next1(i) = IF i = FIFOSIZE - 1 THEN 0 ELSE i + 1
  <1>1. CASE i = FIFOSIZE - 1
    BY <1>1, FifoAssumption DEF Next1
  <1>2. CASE i # FIFOSIZE - 1
    BY <1>2, FifoAssumption DEF Next1
  <1> QED
    BY <1>1, <1>2

LEMMA PreviousIndex ==
    ASSUME NEW i \in 0..FIFOSIZE - 1
    PROVE  /\ (i + FIFOSIZE - 1) % FIFOSIZE \in 0..FIFOSIZE - 1
           /\ (i + FIFOSIZE - 1) % FIFOSIZE = IF i = 0 THEN FIFOSIZE - 1 ELSE i - 1
  <1>1. CASE i = 0
    BY <1>1, FifoAssumption
  <1>2. CASE i # 0
    BY <1>2, FifoAssumption
  <1> QED
    BY <1>1, <1>2

LEMMA PutFifoType ==
    ASSUME NEW r \in Registers, NEW w \in Word
    PROVE  PutFifo(r, w) \in Registers
  <1> DEFINE f == [r.Fifo EXCEPT ![r.fifow] = w]
             e == (r.ECR \ {0}) \cup IF Next1(r.fifow) = r.fifor THEN {1} ELSE {}
             i == Next1(r.fifow)
  <1>1. f \in [0..FIFOSIZE - 1 -> Word] /\ e \in SUBSET Byte
    BY DEF Registers, Byte
  <1>2. i \in 0..FIFOSIZE - 1
    BY NextIndex DEF Registers
  <1>3. PutFifo(r, w) = IF 1 \in r.ECR THEN r ELSE [r EXCEPT !.Fifo = f, !.fifow = i, !.ECR = e]
    BY DEF PutFifo
  <1> HIDE DEF f, e, i
  <1> QED
    BY ZenonT(60), <1>1, <1>2, <1>3 DEF Registers

LEMMA GetFifoType ==
    ASSUME NEW r \in Registers
    PROVE  GetFifo(r) \in Registers /\ FifoWord(r) \in Word
  <1> DEFINE e == (r.ECR \ {1}) \cup IF Next1(r.fifor) = r.fifow THEN {0} ELSE {}
             i == Next1(r.fifor)
             l == (r.fifor + FIFOSIZE - 1) % FIFOSIZE
             z == <<FifoWord(r)>>
  <1>1. e \in SUBSET Byte /\ r.fifor \in 0..FIFOSIZE - 1
        /\ r.Fifo \in [0..FIFOSIZE - 1 -> Word]
    BY DEF Registers, Byte
  <1>2. i \in 0..FIFOSIZE - 1 /\ l \in 0..FIFOSIZE - 1
    BY <1>1, NextIndex, PreviousIndex
  <1>3. /\ GetFifo(r) = IF 0 \in r.ECR THEN [r EXCEPT !.last = z]
                        ELSE [r EXCEPT !.last = z, !.fifor = i, !.ECR = e]
        /\ FifoWord(r) = IF 0 \in r.ECR THEN r.Fifo[l] ELSE r.Fifo[r.fifor]
    <2>1. /\ [r EXCEPT !.last = z].fifor = r.fifor /\ [r EXCEPT !.last = z].ECR = r.ECR
      BY DEF Registers
    <2> QED
      BY <2>1 DEF GetFifo, FifoWord
  <1>4. FifoWord(r) \in Word
    BY <1>1, <1>2, <1>3
  <1>5. z \in Seq(Word)
    BY <1>4
  <1> HIDE DEF e, i, l, z
  <1>6. GetFifo(r) \in Registers
    BY ZenonT(60), <1>1, <1>2, <1>3, <1>5 DEF Registers
  <1> QED
    BY <1>4, <1>6

LEMMA LptSetDataDirType ==
    ASSUME NEW r \in Registers
    PROVE  LptSetDataDir(r) \in Registers
  BY DEF LptSetDataDir, Registers, Not

LEMMA LptOnType ==
    ASSUME NEW r \in Registers
    PROVE  LptOn(r) \in Registers
  <1> DEFINE u == LptSetDataDir(r)
             b == Shl2(Xor(r.DCR, {0, 1, 3}))
  <1>1. b \in SUBSET Byte /\ 2..5 \in SUBSET Byte /\ 1..5 \in SUBSET Byte /\ {0} \in SUBSET Byte
    BY DEF Shl2, Byte
  <1>2. u \in Registers
    BY LptSetDataDirType
  <1>3. LptOn(r) = [u EXCEPT !.DDRC = {0}, !.PORTC = 1..5, !.PORTB = b, !.DDRB = 2..5]
    BY DEF LptOn
  <1> HIDE DEF u, b
  <1> QED
    BY ZenonT(60), <1>1, <1>2, <1>3 DEF Registers

LEMMA EppType ==
    ASSUME NEW r \in Registers, NEW y
    PROVE  epp_io(r, y) \in Registers
  BY DEF epp_io, Registers

LEMMA ModeType ==
    ASSUME NEW b
    PROVE  ModeOf(b) \in 0..7
  BY DEF ModeOf

-----------------------------------------------------------------------------
(***************************************************************************)
(* What each register operation does to the data port and to the FIFO.     *)
(* Directed is DataDirection for any registers and any history of what the *)
(* program has spoilt.                                                     *)
(***************************************************************************)
Directed(r, sp) ==
    "dir" \notin sp /\ ~DirectIO(r) =>
        /\ DIRECTION_INPUT(r) => r.DDRD = {}
        /\ ~DIRECTION_INPUT(r) /\ ~OpenDrain(r) => r.DDRD = Byte
        /\ ~DIRECTION_INPUT(r) /\ OpenDrain(r) /\ "oc" \notin sp => r.DDRD \cap r.PORTD = {}

\* The registers t have the FIFO, what belongs to it and its history, of r.
SameFifo(r, t) ==
    /\ t.Fifo = r.Fifo /\ t.fifor = r.fifor /\ t.fifow = r.fifow /\ t.ECR = r.ECR
    /\ t.last = r.last /\ t.epoch = r.epoch

\* Of the data port, t has what r has.
SamePort(r, t) ==
    t.DCR = r.DCR /\ t.Feature = r.Feature /\ t.DDRD = r.DDRD /\ t.PORTD = r.PORTD

LEMMA SamePortDirected ==
    ASSUME NEW r, NEW t, NEW sp, SamePort(r, t), Directed(r, sp)
    PROVE  Directed(t, sp)
  BY DEF SamePort, Directed, DirectIO, DIRECTION_INPUT, OpenDrain

LEMMA PutFifoPort ==
    ASSUME NEW r \in Registers, NEW w \in Word
    PROVE  SamePort(r, PutFifo(r, w))
  BY DEF PutFifo, Registers, SamePort

LEMMA GetFifoPort ==
    ASSUME NEW r \in Registers
    PROVE  SamePort(r, GetFifo(r))
  BY DEF GetFifo, Registers, SamePort

LEMMA GetFifoEpoch ==
    ASSUME NEW r \in Registers
    PROVE  GetFifo(r).epoch = r.epoch
  BY DEF GetFifo, Registers

LEMMA EppSame ==
    ASSUME NEW r \in Registers, NEW y
    PROVE  SamePort(r, epp_io(r, y)) /\ SameFifo(r, epp_io(r, y))
  BY DEF epp_io, Registers, SamePort, SameFifo

\* The routine that sets the drivers does so for every DCR and Feature.
LEMMA LptSetDataDirDirects ==
    ASSUME NEW r \in Registers, NEW sp
    PROVE  /\ Directed(LptSetDataDir(r), sp)
           /\ SameFifo(r, LptSetDataDir(r))
           /\ LptSetDataDir(r).DCR = r.DCR /\ LptSetDataDir(r).Feature = r.Feature
  BY DEF LptSetDataDir, Registers, Directed, SameFifo, DirectIO, DIRECTION_INPUT, OpenDrain, Not

LEMMA LptOnDirects ==
    ASSUME NEW r \in Registers, NEW sp
    PROVE  /\ Directed(LptOn(r), sp) /\ SameFifo(r, LptOn(r))
           /\ LptOn(r).DCR = r.DCR /\ LptOn(r).Feature = r.Feature
  <1> DEFINE u == LptSetDataDir(r)
  <1>1. /\ u \in Registers /\ Directed(u, sp) /\ SameFifo(r, u)
        /\ u.DCR = r.DCR /\ u.Feature = r.Feature
    BY LptSetDataDirType, LptSetDataDirDirects
  <1>2. \E b : LptOn(r) = [u EXCEPT !.DDRC = {0}, !.PORTC = 1..5, !.PORTB = b, !.DDRB = 2..5]
    BY DEF LptOn
  <1> HIDE DEF u
  <1>3. SamePort(u, LptOn(r)) /\ SameFifo(u, LptOn(r))
    BY <1>1, <1>2 DEF Registers, SamePort, SameFifo
  <1> QED
    BY <1>1, <1>3, SamePortDirected DEF SamePort, SameFifo

LEMMA Out0 ==
    ASSUME NEW r \in Registers, NEW b \in SUBSET Byte
    PROVE  /\ out0(r, b) \in Registers
           /\ r.mode \in Fifos => out0(r, b) = PutFifo(r, b)
           /\ r.mode \notin Fifos => SameFifo(r, out0(r, b))
           /\ \A sp : Directed(r, sp) => Directed(out0(r, b), sp)
  <1>1. b \in Word
    BY DEF Word, Byte
  <1>2. CASE r.mode \in Fifos
    BY <1>1, <1>2, PutFifoType, PutFifoPort, SamePortDirected DEF out0
  <1>3. CASE r.mode \notin Fifos
    <2>1. out0(r, b) \in Registers /\ SameFifo(r, out0(r, b))
      BY <1>3 DEF out0, Registers, SameFifo, Not
    <2>2. ASSUME NEW sp, Directed(r, sp) PROVE Directed(out0(r, b), sp)
      BY <1>3, <2>2 DEF out0, Registers, Directed, DirectIO, DIRECTION_INPUT, OpenDrain, Not
    <2> QED
      BY <1>3, <2>1, <2>2
  <1> QED
    BY <1>2, <1>3

LEMMA Out1 ==
    ASSUME NEW r \in Registers, NEW b \in SUBSET Byte
    PROVE  /\ out1(r, b) \in Registers
           /\ SamePort(r, out1(r, b)) /\ SameFifo(r, out1(r, b))
  <1> DEFINE c == IF DirectIO(r) THEN Shr2(b) ELSE Xor(Shr2(b), {5}) \cup Not(r.DDRC)
             e == IF r.mode = 4 /\ 0 \notin b THEN FALSE ELSE r.EppTimeOut
             p == (r.PORTC \cap {0}) \cup (c \cap (1..5))
  <1>1. out1(r, b) = [r EXCEPT !.EppTimeOut = e, !.PORTC = p]
    BY DEF out1, Registers
  <1> HIDE DEF c
  <1>2. p \in SUBSET Byte
    BY DEF Byte, Registers
  <1>3. e \in BOOLEAN
    BY DEF Registers
  <1> HIDE DEF e, p
  <1> QED
    BY ZenonT(60), <1>1, <1>2, <1>3 DEF Registers, SamePort, SameFifo

LEMMA Out2 ==
    ASSUME NEW r \in Registers, NEW b \in SUBSET Byte
    PROVE  /\ out2(r, b) \in Registers
           /\ SameFifo(r, out2(r, b))
           /\ \A sp : Directed(r, sp) => Directed(out2(r, b), sp)
  <1> DEFINE dcr == (b \cup {6, 7}) \ (IF r.mode \in Outward THEN {5} ELSE {})
             t   == [r EXCEPT !.DCR = dcr]
             u   == IF ~DirectIO(r) /\ 5 \in Xor(dcr, r.DCR) THEN LptSetDataDir(t) ELSE t
             c   == Shl2(IF DirectIO(r) THEN dcr ELSE Xor(dcr, {0, 1, 3}))
             d   == IF 2 \in r.Feature THEN (2..7) \ c ELSE u.DDRB
             o   == [u EXCEPT !.PORTB = c, !.DDRB = d]
  <1>1. dcr \in SUBSET Byte /\ c \in SUBSET Byte /\ r.DCR \in SUBSET Byte
    BY DEF Byte, Shl2, Registers
  <1>2. /\ t \in Registers /\ SameFifo(r, t) /\ t.DCR = dcr
        /\ t.Feature = r.Feature /\ t.DDRD = r.DDRD /\ t.PORTD = r.PORTD
    BY <1>1 DEF Registers, SameFifo
  <1>3. u \in Registers /\ SameFifo(r, u)
    <2>1. u = t \/ u = LptSetDataDir(t)
      OBVIOUS
    <2> HIDE DEF t, u
    <2> QED
      BY <1>2, <2>1, LptSetDataDirType, LptSetDataDirDirects DEF SameFifo
  <1>4. ASSUME NEW sp, Directed(r, sp) PROVE Directed(u, sp)
    <2>1. CASE ~DirectIO(r) /\ 5 \in Xor(dcr, r.DCR)
      BY <1>2, <2>1, LptSetDataDirDirects
    <2>2. CASE DirectIO(r)
      BY <1>2, <2>2 DEF Directed, DirectIO
    <2>3. CASE ~DirectIO(r) /\ 5 \notin Xor(dcr, r.DCR)
      <3>1. u = t /\ (5 \in t.DCR <=> 5 \in r.DCR)
        BY <1>2, <2>3 DEF Xor
      <3> QED
        BY <1>2, <1>4, <3>1 DEF Directed, DirectIO, DIRECTION_INPUT, OpenDrain
    <2> QED
      BY <2>1, <2>2, <2>3
  <1>5. out2(r, b) = o
    BY <1>3 DEF out2, Registers
  <1> HIDE DEF c, u, t, dcr
  <1>6. d \in SUBSET Byte
    BY <1>3 DEF Registers, Byte
  <1> HIDE DEF d
  <1>7. o \in Registers /\ SamePort(u, o) /\ SameFifo(u, o)
    BY <1>1, <1>3, <1>6 DEF Registers, SamePort, SameFifo
  <1> HIDE DEF o
  <1> QED
    BY <1>3, <1>4, <1>5, <1>7, SamePortDirected DEF SameFifo

\* An EPP write spoils the levels of simulated open collectors.
LEMMA Out34 ==
    ASSUME NEW r \in Registers, NEW b \in SUBSET Byte, NEW y
    PROVE  /\ out3(r, b, y) \in Registers /\ out3(r, b, y) = out4(r, b, y)
           /\ SameFifo(r, out3(r, b, y))
           /\ \A sp : "oc" \in sp /\ Directed(r, sp) => Directed(out3(r, b, y), sp)
  <1> DEFINE t == [r EXCEPT !.PORTD = b]
  <1>1. t \in Registers /\ SameFifo(r, t)
    BY DEF Registers, SameFifo
  <1>2. ASSUME NEW sp, "oc" \in sp, Directed(r, sp) PROVE Directed(t, sp)
    BY <1>2 DEF Registers, Directed, DirectIO, DIRECTION_INPUT, OpenDrain
  <1>3. out3(r, b, y) = epp_io(t, y) /\ out4(r, b, y) = epp_io(t, y)
    BY DEF out3, out4
  <1> HIDE DEF t
  <1> QED
    BY <1>1, <1>2, <1>3, EppType, EppSame, SamePortDirected DEF SameFifo

LEMMA Out400 ==
    ASSUME NEW r \in Registers, NEW b \in SUBSET Byte
    PROVE  /\ out400(r, b) \in Registers
           /\ r.mode \in Fifos => out400(r, b) = PutFifo(r, b \cup {8})
           /\ r.mode \notin Fifos => out400(r, b) = r
           /\ \A sp : Directed(r, sp) => Directed(out400(r, b), sp)
  <1>1. b \cup {8} \in Word
    BY DEF Word, Byte
  <1> QED
    BY ZenonT(60), <1>1, PutFifoType, PutFifoPort, SamePortDirected DEF out400

\* The FIFO is empty, both indices are at the start and no word has been
\* delivered since; Cleared says that this was a write to ECR.
Emptied(r) ==
    0 \in r.ECR /\ 1 \notin r.ECR /\ r.fifor = 0 /\ r.fifow = 0 /\ r.last = <<>>
Cleared(r, t) == Emptied(t) /\ t.epoch = 1 - r.epoch

\* A change of mode clears the FIFO, and takes the direction with it when
\* the new mode only writes.
LEMMA Out402 ==
    ASSUME NEW r \in Registers, NEW b \in SUBSET Byte
    PROVE  /\ out402(r, b) \in Registers
           /\ Cleared(r, out402(r, b))
           /\ \A sp : Directed(r, sp) => Directed(out402(r, b), sp)
  <1> DEFINE m == ModeOf(b)
             e == (b \cap (3..7)) \cup {0, 2}
             p == m # 4
             n == 1 - r.epoch
             t == [r EXCEPT !.ECR = e, !.mode = m, !.EppTimeOut = p, !.fifor = 0, !.fifow = 0,
                            !.last = <<>>, !.epoch = n]
             d == r.DCR \ {5}
             u == [t EXCEPT !.DCR = d]
  <1>1. /\ m \in 0..7 /\ e \in SUBSET Byte /\ 0 \in e /\ 1 \notin e /\ p \in BOOLEAN
        /\ 0 \in 0..FIFOSIZE - 1 /\ d \in SUBSET Byte /\ n \in {0, 1} /\ <<>> \in Seq(Word)
    BY ModeType, FifoAssumption, EmptySeq DEF Byte, Registers
  <1>2. out402(r, b) = IF m \in Outward /\ DIRECTION_INPUT(r) THEN LptSetDataDir(u) ELSE t
    <2>1. t.DCR = r.DCR
      BY DEF Registers
    <2> QED
      BY <2>1 DEF out402
  <1> HIDE DEF m, e, p, d, n
  <1>3. /\ t \in Registers /\ t.ECR = e /\ t.fifor = 0 /\ t.fifow = 0 /\ SamePort(r, t)
        /\ t.last = <<>> /\ t.epoch = n
    BY <1>1 DEF Registers, SamePort
  <1>4. /\ u \in Registers /\ u.ECR = e /\ u.fifor = 0 /\ u.fifow = 0
        /\ u.last = <<>> /\ u.epoch = n
    BY <1>1, <1>3 DEF Registers
  <1> HIDE DEF t, u
  <1>7. Cleared(r, t) /\ Cleared(r, u)
    BY <1>1, <1>3, <1>4 DEF Cleared, Emptied, n
  <1>5. CASE m \in Outward /\ DIRECTION_INPUT(r)
    BY <1>2, <1>4, <1>5, <1>7, LptSetDataDirType, LptSetDataDirDirects
       DEF SameFifo, Cleared, Emptied
  <1>6. CASE ~(m \in Outward /\ DIRECTION_INPUT(r))
    BY <1>2, <1>3, <1>6, <1>7, SamePortDirected
  <1> QED
    BY <1>5, <1>6

LEMMA Out405 ==
    ASSUME NEW r \in Registers, NEW b \in SUBSET Byte
    PROVE  /\ out405(r, b) \in Registers
           /\ SamePort(r, out405(r, b)) /\ SameFifo(r, out405(r, b))
  <1> DEFINE c == Shr2(b) \cup {0, 6, 7}
             p == IF DirectIO(r) THEN r.PORTC ELSE r.PORTC \cup Not(c)
  <1>1. out405(r, b) = [r EXCEPT !.DDRC = c, !.PORTC = p]
    BY DEF out405, Registers
  <1>2. c \in SUBSET Byte /\ p \in SUBSET Byte
    BY DEF Byte, Registers, Shr2, Not
  <1> HIDE DEF c, p
  <1> QED
    BY <1>1, <1>2 DEF Registers, SamePort, SameFifo

LEMMA Out406 ==
    ASSUME NEW r \in Registers, NEW b \in SUBSET Byte
    PROVE  /\ out406(r, b) \in Registers
           /\ SamePort(r, out406(r, b)) /\ SameFifo(r, out406(r, b))
  <1>1. Shl2(b) \in SUBSET Byte
    BY DEF Shl2
  <1> QED
    BY <1>1 DEF out406, Registers, SamePort, SameFifo

\* Switching simulated open collectors on or off in the feature register
\* sets the drivers anew, and leaving DirectIO the whole port.
LEMMA Out407 ==
    ASSUME NEW r \in Registers, NEW b \in SUBSET Byte
    PROVE  /\ out407(r, b) \in Registers
           /\ SameFifo(r, out407(r, b))
           /\ \A sp : Directed(r, sp) => Directed(out407(r, b), sp)
  <1> DEFINE f == b \cap {0, 2, 4, 6, 7}
             t == Xor(r.Feature, f)
             d == IF 0 \in t /\ 6 \notin f /\ ~DIRECTION_INPUT(r)
                  THEN IF 0 \in f THEN Not(r.PORTD) ELSE Byte ELSE r.DDRD
             e == IF 2 \in t /\ 6 \notin f
                  THEN IF 2 \in f THEN (2..5) \ r.PORTB ELSE 2..5 ELSE r.DDRB
             u == [r EXCEPT !.Feature = f, !.DDRD = d, !.DDRB = e]
  <1>1. out407(r, b) = IF 6 \in t /\ 6 \notin f THEN LptOn(u) ELSE u
    BY DEF out407, Registers
  <1>2. f \in SUBSET Byte /\ d \in SUBSET Byte /\ e \in SUBSET Byte
    BY DEF Byte, Registers, Not
  <1>3. ASSUME NEW sp, Directed(r, sp), ~(6 \in t /\ 6 \notin f),
               6 \notin f, "dir" \notin sp
        PROVE  /\ DIRECTION_INPUT(r) => d = {}
               /\ ~DIRECTION_INPUT(r) /\ 0 \notin f => d = Byte
               /\ ~DIRECTION_INPUT(r) /\ 0 \in f /\ "oc" \notin sp => d \cap r.PORTD = {}
    <2>1. ~DirectIO(r) /\ (0 \in t <=> ~(OpenDrain(r) <=> 0 \in f))
      BY <1>3 DEF Xor, DirectIO, OpenDrain
    <2> QED
      BY <1>3, <2>1 DEF Directed, Not
  <1> HIDE DEF d, e, f, t
  <1>4. /\ u \in Registers /\ SameFifo(r, u) /\ u.DCR = r.DCR /\ u.Feature = f
        /\ u.DDRD = d /\ u.PORTD = r.PORTD
    BY <1>2 DEF Registers, SameFifo
  <1> HIDE DEF u
  <1>5. CASE 6 \in t /\ 6 \notin f
    BY <1>1, <1>4, <1>5, LptOnType, LptOnDirects DEF SameFifo
  <1>6. CASE ~(6 \in t /\ 6 \notin f)
    <2>1. ASSUME NEW sp, Directed(r, sp) PROVE Directed(u, sp)
      <3>1. CASE 6 \in f \/ "dir" \in sp
        BY <1>4, <3>1 DEF Directed, DirectIO
      <3>2. CASE 6 \notin f /\ "dir" \notin sp
        BY <1>3, <1>4, <1>6, <2>1, <3>2 DEF Directed, DIRECTION_INPUT, OpenDrain
      <3> QED
        BY <3>1, <3>2
    <2> QED
      BY <1>1, <1>4, <1>6, <2>1
  <1> QED
    BY <1>5, <1>6

LEMMA Out404 ==
    ASSUME NEW r \in Registers, NEW b \in SUBSET Byte
    PROVE  out404(r, b) \in Registers /\ SameFifo(r, out404(r, b))
  BY DEF out404, Registers, SameFifo

LEMMA SpoiltDir ==
    ASSUME NEW r, NEW sp, "dir" \in sp
    PROVE  Directed(r, sp)
  BY DEF Directed

LEMMA MoreSpoilt ==
    ASSUME NEW r, NEW sp, NEW more, Directed(r, sp)
    PROVE  Directed(r, sp \cup more)
  BY DEF Directed

\* Writing any register puts at most one word into the FIFO or clears it,
\* and spoils of the data port only what Spoils says.
LEMMA SetByte ==
    ASSUME NEW r \in Registers, NEW a, NEW b \in SUBSET Byte, NEW y
    PROVE  /\ setbyte(a, b, r, y) \in Registers
           /\ \/ SameFifo(r, setbyte(a, b, r, y))
              \/ \E w \in Word : setbyte(a, b, r, y) = PutFifo(r, w)
              \/ Cleared(r, setbyte(a, b, r, y))
           /\ \A sp : Directed(r, sp) => Directed(setbyte(a, b, r, y), sp \cup Spoils(a))
  <1> DEFINE t == setbyte(a, b, r, y)
  <1>1. \A q : SameFifo(q, q)
    BY DEF SameFifo
  <1>2. b \in Word /\ b \cup {8} \in Word
    BY DEF Word, Byte
  <1>3. CASE a = "0"
    BY <1>2, <1>3, Out0, MoreSpoilt DEF setbyte
  <1>4. CASE a = "1"
    BY <1>4, Out1, MoreSpoilt, SamePortDirected DEF setbyte
  <1>5. CASE a = "2"
    BY <1>5, Out2, MoreSpoilt DEF setbyte
  <1>6. CASE a \in {"3", "4"}
    <2>1. t = out3(r, b, y) /\ t \in Registers /\ SameFifo(r, t)
      BY <1>6, Out34 DEF setbyte
    <2>2. \A sp : "oc" \in sp \cup Spoils(a)
      BY <1>6 DEF Spoils
    <2> QED
      BY <2>1, <2>2, Out34, MoreSpoilt
  <1>7. CASE a = "400"
    BY <1>1, <1>2, <1>7, Out400, MoreSpoilt DEF setbyte
  <1>8. CASE a = "402"
    BY <1>8, Out402, MoreSpoilt DEF setbyte
  <1>9. CASE a = "404"
    <2>1. t = out404(r, b) /\ t \in Registers /\ SameFifo(r, t)
      BY <1>9, Out404 DEF setbyte
    <2>2. \A sp : "dir" \in sp \cup Spoils(a)
      BY <1>9 DEF Spoils
    <2> QED
      BY <2>1, <2>2, SpoiltDir
  <1>10. CASE a = "405"
    BY <1>10, Out405, MoreSpoilt, SamePortDirected DEF setbyte
  <1>11. CASE a = "406"
    BY <1>11, Out406, MoreSpoilt, SamePortDirected DEF setbyte
  <1>12. CASE a = "407"
    BY <1>12, Out407, MoreSpoilt DEF setbyte
  <1>13. CASE a \notin {"0", "1", "2", "3", "4", "400", "402", "404", "405", "406", "407"}
    <2>1. t = r
      BY <1>13 DEF setbyte
    <2> QED
      BY <1>1, <2>1, MoreSpoilt
  <1> QED
    BY <1>3, <1>4, <1>5, <1>6, <1>7, <1>8, <1>9, <1>10, <1>11, <1>12, <1>13

\* Reading any register takes at most one word out of the FIFO.
LEMMA AfterGet ==
    ASSUME NEW r \in Registers, NEW a, NEW latch, NEW y
    PROVE  /\ afterget(a, latch, r, y) \in Registers
           /\ SamePort(r, afterget(a, latch, r, y))
           /\ \/ SameFifo(r, afterget(a, latch, r, y))
              \/ afterget(a, latch, r, y) = GetFifo(r)
  <1>1. afterget(a, latch, r, y) \in {r, GetFifo(r), epp_io(r, y)}
    BY DEF afterget
  <1>2. SamePort(r, r) /\ SameFifo(r, r)
    BY DEF SamePort, SameFifo
  <1> QED
    BY <1>1, <1>2, GetFifoType, GetFifoPort, EppType, EppSame

LEMMA GetByte ==
    ASSUME NEW r \in Registers, NEW a, NEW latch, NEW y \in CableLevels
    PROVE  getbyte(a, latch, r, y) \in SUBSET Byte
  <1>1. FifoWord(r) \cap Byte \in SUBSET Byte /\ PIND(r, y) \in SUBSET Byte
    BY DEF PIND, Pin, Registers, CableLevels
  <1>2. \A c : Shl2(c) \in SUBSET Byte /\ Shr2(c) \in SUBSET Byte
    BY DEF Shl2, Shr2
  <1>3. in0(r, y) \in SUBSET Byte /\ in3(r, y) \in SUBSET Byte /\ in4(r, y) \in SUBSET Byte
    BY <1>1 DEF in0, in3, in4
  <1>4. 0..2 \in SUBSET Byte /\ {7} \in SUBSET Byte /\ {4} \in SUBSET Byte /\ {0, 1, 3} \in SUBSET Byte
    BY DEF Byte
  <1>5. \A c : Shl2(c) \cup (0..2) \in SUBSET Byte
    BY <1>2, <1>4
  <1>6. in1(r, y) \in SUBSET Byte
    <2> DEFINE t == Shl2(PINC(r, y)) \cup (0..2)
    <2>1. t \in SUBSET Byte
      BY <1>5
    <2>2. in1(r, y) \in {t, Xor(t, {7}), t \ {0}, Xor(t, {7}) \ {0}}
      BY DEF in1
    <2> HIDE DEF t
    <2> QED
      BY <2>1, <2>2, <1>4 DEF Xor
  <1>7. \A p : internal_in2(r, p) \in SUBSET Byte
    <2> TAKE p
    <2> DEFINE t == Shr2(p) \cap (0..3)
    <2>1. t \in SUBSET Byte
      BY <1>2
    <2>2. internal_in2(r, p) \in {t \cup (r.DCR \cap (4..7)), Xor(t, {0, 1, 3}) \cup (r.DCR \cap (4..7))}
      BY DEF internal_in2
    <2> HIDE DEF t
    <2> QED
      BY <2>1, <2>2, <1>4 DEF Xor, Registers
  <1>8. in2(r, y) \in SUBSET Byte
    BY <1>7 DEF in2
  <1>9. in400(r) \in SUBSET Byte /\ in401(r) \in SUBSET Byte
    BY <1>1, <1>4 DEF in400, in401
  <1>10. /\ in402(r) \in SUBSET Byte /\ in404(r) \in SUBSET Byte /\ in405(r) \in SUBSET Byte
         /\ in406(r) \in SUBSET Byte /\ in407(r) \in SUBSET Byte
    BY <1>2 DEF in402, in404, in405, in406, in407, Registers
  <1>11. /\ r.PORTD \in SUBSET Byte /\ Shl2(r.PORTC) \cup (0..2) \in SUBSET Byte
         /\ internal_in2(r, r.PORTB) \in SUBSET Byte /\ Byte \in SUBSET Byte
    BY <1>5, <1>7 DEF Registers
  <1> QED
    BY <1>3, <1>6, <1>8, <1>9, <1>10, <1>11 DEF getbyte

LEMMA BootState0 ==
    ASSUME NEW f \in SUBSET Byte
    PROVE  /\ Boot(f) \in Registers /\ Emptied(Boot(f)) /\ Boot(f).epoch = 0
           /\ \A sp : Directed(Boot(f), sp)
  <1> DEFINE r == [data_byte |-> {}, DCR |-> {2, 3, 6, 7}, ECR |-> {0}, mode |-> 0,
                   EppTimeOut |-> FALSE, Feature |-> f,
                   Fifo |-> [i \in 0..FIFOSIZE - 1 |-> {}], fifor |-> 0, fifow |-> 0,
                   last |-> <<>>, epoch |-> 1,
                   PORTB |-> {}, PORTC |-> {}, PORTD |-> {},
                   DDRB |-> {}, DDRC |-> {}, DDRD |-> {}]
  <1>1. {2, 3, 6, 7} \in SUBSET Byte /\ {0} \in SUBSET Byte /\ {5} \in SUBSET Byte
        /\ {} \in SUBSET Byte /\ {} \in Word /\ 0 \in 0..FIFOSIZE - 1 /\ 0 \in 0..7
        /\ <<>> \in Seq(Word)
    BY FifoAssumption, EmptySeq DEF Byte, Word
  <1>2. r \in Registers /\ r.epoch = 1
    BY <1>1 DEF Registers
  <1>3. Boot(f) = out402(LptOn(r), {5})
    BY DEF Boot
  <1> HIDE DEF r
  <1>4. LptOn(r) \in Registers /\ LptOn(r).epoch = 1 /\ \A sp : Directed(LptOn(r), sp)
    BY <1>2, LptOnType, LptOnDirects DEF SameFifo
  <1> QED
    BY <1>1, <1>3, <1>4, Out402 DEF Cleared

-----------------------------------------------------------------------------
(***************************************************************************)
(* The types, and the directions of the data port.                         *)
(***************************************************************************)
TypeInv ==
    /\ profile \in {"ports", "stream", "ecpout", "ecpin"}
    /\ s \in Registers /\ x \in CableLevels /\ eeprom \in SUBSET Byte
    /\ job \in [src : {"none", "ep1", "0x40", "0xC0"}, data : Seq(Nat), out : Seq(SUBSET Byte)]
    /\ PendingByte \in {0} \cup {n \in Nat : n >= 16}
    /\ gReplyLen \in Nat /\ ExpectEP1OutToken \in {0, 1}
    /\ host \in [tog : {0, 1}, last : Seq(Nat), may : SUBSET Seq(Nat)]
    /\ words \in Seq(Word) /\ got \in Seq(Word)

LEMMA BitsType == \A n : Bits(n) \in SUBSET Byte
  BY DEF Bits

LEMMA PacketsType ==
    ASSUME TypeInv
    PROVE  Packets \in SUBSET Seq(Nat)
  <1>1. CASE profile = "ports"
    BY <1>1 DEF TypeInv, Packets
  <1>2. CASE profile = "stream"
    <2>1. BoundedSeq(StreamBytes, MaxPacket) \in SUBSET Seq(Nat)
      <3>1. MaxPacket \in Nat /\ StreamBytes \subseteq Nat
        BY LptAssumption
      <3>2. \A n \in 0..MaxPacket : [1..n -> StreamBytes] \subseteq Seq(Nat)
        <4> SUFFICES ASSUME NEW n \in 0..MaxPacket, NEW f \in [1..n -> StreamBytes]
                     PROVE  f \in Seq(Nat)
          OBVIOUS
        <4>1. n \in Nat
          BY <3>1
        <4>2. f \in Seq(StreamBytes)
          BY <4>1, SeqDef
        <4> QED
          BY <3>1, <4>2, SeqMonotonic
      <3> QED
        BY <3>2 DEF BoundedSeq, SeqOf
    <2> QED
      BY <1>2, <2>1 DEF Packets
  <1>3. CASE profile = "ecpout"
    <2>1. Len(words) + 1 \in Nat
      BY DEF TypeInv
    <2>2. \A n \in Nat : Word1(n) \in SUBSET Seq(Nat)
      BY DEF Word1
    <2> QED
      BY <1>3, <2>1, <2>2 DEF Packets
  <1>4. CASE profile = "ecpin"
    BY <1>4 DEF Packets
  <1> QED
    BY <1>1, <1>2, <1>3, <1>4 DEF TypeInv

\* What a step of the program or of the transfers does to the FIFO.
FifoMove(r, t) ==
    \/ Cleared(r, t) \/ SameFifo(r, t) \/ SameFifo(GetFifo(r), t)
    \/ \E w \in Word : SameFifo(PutFifo(r, w), t) \/ SameFifo(PutFifo(GetFifo(r), w), t)

\* The command under way: its first byte, and what is left after it.
LEMMA CommandType ==
    ASSUME TypeInv, Running
    PROVE  Command \in Nat /\ Rest \in Seq(Nat)
  <1>1. job.data \in Seq(Nat) /\ job.data # <<>>
    BY DEF TypeInv, Running
  <1>2. Head(job.data) \in Nat /\ Tail(job.data) \in Seq(Nat)
    BY <1>1
  <1>3. PendingByte # 0 => PendingByte - 16 \in Nat
    BY DEF TypeInv
  <1> QED
    BY <1>1, <1>2, <1>3 DEF Command, Rest

\* A two byte command that is not a read.
SpoilsCommand(c, v) ==
    IF c < 16 THEN Spoils(RegOf[c + 1]) ELSE IF c \in 33..35 THEN Spoils(Reg(v)) ELSE {}

LEMMA ExecutedEffect ==
    ASSUME TypeInv, NEW c \in Nat, NEW v \in Nat
    PROVE  /\ Executed(c, v) \in Registers
           /\ FifoMove(s, Executed(c, v))
           /\ \A sp : Directed(s, sp) => Directed(Executed(c, v), sp \cup SpoilsCommand(c, v))
  <1>1. s \in Registers /\ x \in CableLevels
    BY DEF TypeInv
  <1>2. \A q : SameFifo(q, q)
    BY DEF SameFifo
  <1>3. CASE c < 16
    BY <1>1, <1>2, <1>3, SetByte, BitsType DEF Executed, SpoilsCommand, FifoMove
  <1>4. CASE c \in 33..35
    <2> DEFINE a == Reg(v)
               b == Modified(c, getbyte(a, Latch(v), s, x), v % 8)
               r == afterget(a, Latch(v), s, x)
    <2>1. /\ r \in Registers /\ SamePort(s, r)
          /\ SameFifo(s, r) \/ r = GetFifo(s)
      BY <1>1, AfterGet
    <2>2. b \in SUBSET Byte
      <3>1. getbyte(a, Latch(v), s, x) \in SUBSET Byte /\ {v % 8} \in SUBSET Byte
        BY <1>1, GetByte DEF Byte
      <3> QED
        BY <3>1 DEF Modified, Xor
    <2>3. Executed(c, v) = setbyte(a, b, r, x) /\ SpoilsCommand(c, v) = Spoils(a)
      BY <1>4 DEF Executed, SpoilsCommand
    <2> HIDE DEF a, b, r
    <2> DEFINE t == setbyte(a, b, r, x)
    <2>4. /\ t \in Registers
          /\ SameFifo(r, t) \/ (\E w \in Word : t = PutFifo(r, w)) \/ Cleared(r, t)
          /\ \A sp : Directed(r, sp) => Directed(t, sp \cup Spoils(a))
      BY <2>1, <2>2, SetByte
    <2> HIDE DEF t
    <2>5. ASSUME NEW w, t = PutFifo(r, w), SameFifo(s, r) PROVE SameFifo(PutFifo(s, w), t)
      BY <1>1, <2>1, <2>5 DEF SameFifo, PutFifo, Registers
    <2>7. Cleared(r, t) => Cleared(s, t)
      <3>1. r.epoch = s.epoch
        BY <1>1, <2>1, GetFifoEpoch DEF SameFifo
      <3> QED
        BY <3>1 DEF Cleared
    <2>6. FifoMove(s, t)
      BY <1>2, <2>1, <2>4, <2>5, <2>7 DEF FifoMove, SameFifo
    <2> QED
      BY <2>1, <2>3, <2>4, <2>6, SamePortDirected DEF t
  <1>5. CASE c \notin 33..35 /\ ~(c < 16)
    <2>1. Executed(c, v) \in {s, afterget(Reg(v), Latch(v), s, x)} /\ SpoilsCommand(c, v) = {}
      BY <1>5 DEF Executed, SpoilsCommand
    <2>2. SamePort(s, s)
      BY DEF SamePort
    <2> DEFINE t == Executed(c, v)
    <2>3. t \in Registers /\ SamePort(s, t) /\ (SameFifo(s, t) \/ t = GetFifo(s))
      BY <1>1, <1>2, <2>1, <2>2, AfterGet
    <2> HIDE DEF t
    <2>4. \A sp : sp \cup {} = sp
      OBVIOUS
    <2> QED
      BY <1>2, <2>1, <2>3, <2>4, SamePortDirected DEF FifoMove, t
  <1> QED
    BY <1>3, <1>4, <1>5

\* One iteration of ECP input: at most one word comes into the FIFO.
LEMMA EcpInEffect ==
    ASSUME NEW r \in Registers, x \in CableLevels
    PROVE  EcpIn(r) \in Registers /\ FifoMove(r, EcpIn(r)) /\ SamePort(r, EcpIn(r))
  <1> DEFINE b == r.PORTB \cup {AF}
             t == [r EXCEPT !.PORTB = b]
             w == PIND(r, x) \cup IF BSY(r, x) THEN {8} ELSE {}
             p == PutFifo(t, w)
             c == p.PORTB \ {AF}
             u == [p EXCEPT !.PORTB = c]
  <1>1. b \in SUBSET Byte /\ w \in Word
    BY DEF Registers, CableLevels, AF, Byte, Word, PIND, Pin
  <1>2. EcpIn(r) = r \/ EcpIn(r) = t \/ EcpIn(r) = u
    <2>1. u = [p EXCEPT !.PORTB = @ \ {AF}]
      BY PutFifoType DEF Registers
    <2> QED
      BY <2>1 DEF EcpIn
  <1> HIDE DEF b, w
  <1>3. t \in Registers /\ SamePort(r, t) /\ SameFifo(r, t)
    BY <1>1 DEF Registers, SamePort, SameFifo
  <1>4. p \in Registers /\ SamePort(r, p) /\ SameFifo(PutFifo(r, w), p)
    <2>1. p \in Registers /\ SamePort(t, p)
      BY <1>1, <1>3, PutFifoType, PutFifoPort
    <2>2. SameFifo(PutFifo(r, w), p)
      BY <1>1, <1>3 DEF PutFifo, SameFifo, Registers
    <2> QED
      BY <1>3, <2>1, <2>2 DEF SamePort
  <1> HIDE DEF t, p
  <1>5. u \in Registers /\ SamePort(r, u) /\ SameFifo(PutFifo(r, w), u)
    <2>1. c \in SUBSET Byte
      BY <1>4 DEF Registers
    <2> QED
      BY <1>4, <2>1 DEF Registers, SamePort, SameFifo
  <1>6. SamePort(r, r) /\ SameFifo(r, r)
    BY DEF SamePort, SameFifo
  <1> HIDE DEF u
  <1> QED
    BY <1>1, <1>2, <1>3, <1>5, <1>6 DEF FifoMove

\* One iteration of ECP output: at most one word leaves the FIFO for the
\* port, whose drivers stay as they are.
LEMMA EcpOutEffect ==
    ASSUME NEW r \in Registers, x \in CableLevels
    PROVE  /\ EcpOut(r) \in Registers /\ FifoMove(r, EcpOut(r))
           /\ EcpOut(r).DCR = r.DCR /\ EcpOut(r).Feature = r.Feature
           /\ EcpOut(r).DDRD = r.DDRD
  <1> DEFINE g == GetFifo(r)
             d == FifoWord(r) \cap Byte
             b == (g.PORTB \cap {4, 5}) \cup IF 8 \in FifoWord(r) THEN {AF} ELSE {}
             t == [g EXCEPT !.PORTD = d, !.PORTB = b]
             c == r.PORTB \cup {STB}
             u == [r EXCEPT !.PORTB = c]
  <1>1. g \in Registers /\ SamePort(r, g)
    BY GetFifoType, GetFifoPort
  <1>2. d \in SUBSET Byte /\ b \in SUBSET Byte /\ c \in SUBSET Byte
    BY <1>1 DEF Registers, AF, STB, Byte
  <1>3. EcpOut(r) = r \/ EcpOut(r) = t \/ EcpOut(r) = u
    <2>1. t = [g EXCEPT !.PORTD = d, !.PORTB = (@ \cap {4, 5}) \cup IF 8 \in FifoWord(r) THEN {AF} ELSE {}]
      BY <1>1 DEF Registers
    <2> QED
      BY <2>1 DEF EcpOut
  <1> HIDE DEF g, d, b, c
  <1>4. /\ t \in Registers /\ SameFifo(g, t) /\ t.DCR = r.DCR
        /\ t.Feature = r.Feature /\ t.DDRD = r.DDRD
    BY <1>1, <1>2 DEF Registers, SameFifo, SamePort
  <1>5. u \in Registers /\ SameFifo(r, u) /\ SamePort(r, u)
    BY <1>2 DEF Registers, SameFifo, SamePort
  <1>6. SameFifo(r, r)
    BY DEF SameFifo
  <1> HIDE DEF t, u
  <1> QED
    BY <1>3, <1>4, <1>5, <1>6 DEF FifoMove, g, SamePort

\* With open collectors out of the picture, PORTD does not matter.
LEMMA OcSpoilt ==
    ASSUME NEW r, NEW t, NEW sp, Directed(r, sp), "oc" \in sp,
           t.DCR = r.DCR, t.Feature = r.Feature, t.DDRD = r.DDRD
    PROVE  Directed(t, sp)
  BY DEF Directed, DirectIO, DIRECTION_INPUT, OpenDrain

\* Every step of the firmware: the registers keep their types, the FIFO
\* moves, and the directions follow DCR unless something has spoilt them.
LEMMA RegistersStep ==
    ASSUME TypeInv, Directed(s, spoilt), [Next]_vars
    PROVE  s' \in Registers /\ FifoMove(s, s') /\ Directed(s', spoilt')
  <1>1. s \in Registers /\ x \in CableLevels /\ eeprom \in SUBSET Byte
    BY DEF TypeInv
  <1>2. SameFifo(s, s)
    BY DEF SameFifo
  <1>3. CASE UNCHANGED <<s, spoilt>>
    BY <1>1, <1>2, <1>3 DEF FifoMove
  <1>4. CASE DoIn
    <2>1. spoilt' = spoilt /\ \E a : s' = afterget(a, FALSE, s, x)
      BY <1>4 DEF DoIn
    <2> QED
      BY ZenonT(60), <1>1, <1>2, <2>1, AfterGet, SamePortDirected DEF FifoMove, SameFifo
  <1>5. CASE DoOut
    <2>1. PICK c \in Nat, v \in Nat : c = Command /\ v = Head(Rest)
      BY <1>5, CommandType DEF DoOut
    <2>2. s' = Executed(c, v) /\ spoilt' = spoilt \cup SpoilsCommand(c, v)
      BY <1>5, <2>1 DEF DoOut, SpoilsCommand
    <2> QED
      BY <2>2, ExecutedEffect
  <1>6. CASE waitbit
    <2>1. PICK c \in Nat, v \in Nat : c = Command /\ v = Head(Rest)
      BY <1>6, CommandType DEF waitbit
    <2>2. s' = Executed(c, v) /\ spoilt' = spoilt /\ c = 36
      BY <1>6, <2>1 DEF waitbit, history, Waits
    <2>3. spoilt \cup SpoilsCommand(c, v) = spoilt
      BY <2>2 DEF SpoilsCommand
    <2> QED
      BY <2>2, <2>3, ExecutedEffect
  <1>7. CASE SppXfer
    <2> DEFINE g == GetFifo(s)
               d == FifoWord(s) \cap Byte
               b == g.PORTB \cup {STB}
               t == [g EXCEPT !.PORTD = d, !.PORTB = b]
    <2>1. g \in Registers /\ SamePort(s, g)
      BY <1>1, GetFifoType, GetFifoPort
    <2>2. d \in SUBSET Byte /\ b \in SUBSET Byte
      BY <2>1 DEF Registers, STB, Byte
    <2>3. s' = t /\ spoilt' = spoilt \cup {"oc"}
      BY <1>7, <2>1 DEF SppXfer, Registers
    <2> HIDE DEF g, d, b
    <2>4. /\ t \in Registers /\ SameFifo(g, t) /\ t.DCR = s.DCR
          /\ t.Feature = s.Feature /\ t.DDRD = s.DDRD
      BY <2>1, <2>2 DEF Registers, SameFifo, SamePort
    <2> HIDE DEF t
    <2>5. Directed(s, spoilt') /\ "oc" \in spoilt'
      BY <2>3, MoreSpoilt
    <2> QED
      BY <2>3, <2>4, <2>5, OcSpoilt DEF FifoMove, g
  <1>8. CASE EcpXfer
    <2>1. (s' = EcpIn(s) \/ s' = EcpOut(s)) /\ spoilt' = spoilt \cup {"oc"}
      BY <1>8 DEF EcpXfer
    <2>2. Directed(s, spoilt') /\ "oc" \in spoilt'
      BY <2>1, MoreSpoilt
    <2> QED
      BY <1>1, <2>1, <2>2, EcpInEffect, EcpOutEffect, OcSpoilt, SamePortDirected
  <1>9. CASE SetupRegister
    <2>1. spoilt' = spoilt
      BY <1>9 DEF SetupRegister, history
    <2>2. CASE s' = afterget("0", FALSE, s, x)
      <3> DEFINE t == afterget("0", FALSE, s, x)
      <3>1. /\ t \in Registers /\ SamePort(s, t)
            /\ SameFifo(s, t) \/ t = GetFifo(s)
        BY <1>1, AfterGet
      <3>2. FifoMove(s, t)
        BY <3>1 DEF FifoMove, SameFifo
      <3> HIDE DEF t
      <3>3. Directed(t, spoilt)
        BY <3>1, SamePortDirected
      <3> QED
        BY <2>1, <2>2, <3>1, <3>2, <3>3 DEF t
    <2>3. ASSUME NEW b \in SUBSET Byte, s' = out0(s, b) \/ s' = out2(s, b)
          PROVE  s' \in Registers /\ FifoMove(s, s') /\ Directed(s', spoilt')
      <3>1. s' \in Registers /\ Directed(s', spoilt)
        BY <1>1, <2>3, Out0, Out2
      <3>2. SameFifo(s, s') \/ s' = PutFifo(s, b)
        BY <1>1, <2>3, Out0, Out2
      <3>3. b \in Word
        BY DEF Word, Byte
      <3> QED
        BY <2>1, <3>1, <3>2, <3>3 DEF FifoMove, SameFifo
    <2>4. \/ s' = afterget("0", FALSE, s, x)
          \/ \E b \in SUBSET Byte : s' = out0(s, b) \/ s' = out2(s, b)
      BY <1>9, BitsType DEF SetupRegister
    <2> QED
      BY <2>2, <2>3, <2>4
  <1>10. CASE Restart
    <2> DEFINE t == Boot(eeprom)
               n == 1 - s.epoch
               u == [t EXCEPT !.epoch = n]
    <2>1. s' = u
      BY <1>10 DEF Restart, BootState
    <2>2. n \in {0, 1}
      BY <1>1 DEF Registers
    <2>3. t \in Registers /\ Emptied(t) /\ Directed(t, spoilt')
      BY <1>1, BootState0
    <2> HIDE DEF t, n
    <2>4. u \in Registers /\ SamePort(t, u) /\ Emptied(u) /\ u.epoch = n
      BY <2>2, <2>3 DEF Registers, SamePort, Emptied
    <2> HIDE DEF u
    <2> QED
      BY <2>1, <2>3, <2>4, SamePortDirected DEF FifoMove, Cleared, n
  <1>11. CASE DoHalf \/ Return \/ Packet \/ Repeat \/ SetupCommands
    BY <1>3, <1>11 DEF DoHalf, Return, Packet, Repeat, SetupCommands, history
  <1>12. CASE SaveFeature \/ Cable \/ TakeByte \/ Ready \/ Offer \/ EndOffer
    BY <1>3, <1>12 DEF SaveFeature, Cable, TakeByte, Ready, Offer, EndOffer, history
  <1>13. CASE UNCHANGED vars
    BY <1>3, <1>13 DEF vars, history
  <1> QED
    BY <1>4, <1>5, <1>6, <1>7, <1>8, <1>9, <1>10, <1>11, <1>12, <1>13
       DEF Next, MainLoop, Peripheral

\* The types of what is not a register.
LEMMA InitType == Init => TypeInv
  <1> SUFFICES ASSUME Init PROVE TypeInv
    OBVIOUS
  <1>1. s \in Registers /\ x \in CableLevels /\ eeprom \in SUBSET Byte
    BY BootState0 DEF Init, CableLevels, Byte
  <1>2. \A S : <<>> \in Seq(S)
    BY EmptySeq
  <1>3. host \in [tog : {0, 1}, last : Seq(Nat), may : SUBSET Seq(Nat)]
    <2>1. \A S \in PortPackets : S \subseteq Seq(Nat)
      <3>1. Seq(0..255) \subseteq Seq(Nat)
        <4>1. 0..255 \subseteq Nat
          OBVIOUS
        <4> QED
          BY <4>1, SeqMonotonic
      <3> QED
        BY <3>1, LptAssumption
    <2>2. PICK m \in IF profile = "ports" THEN PortPackets ELSE {{}} :
               host = [tog |-> 0, last |-> <<>>, may |-> m]
      BY DEF Init
    <2>3. m \in SUBSET Seq(Nat)
      BY <2>1, <2>2
    <2> QED
      BY <1>2, <2>2, <2>3
  <1>4. job \in [src : {"none", "ep1", "0x40", "0xC0"}, data : Seq(Nat), out : Seq(SUBSET Byte)]
    BY <1>2 DEF Init, Idle
  <1>5. profile \in {"ports", "stream", "ecpout", "ecpin"}
    BY LptAssumption DEF Init
  <1> QED
    BY <1>1, <1>2, <1>3, <1>4, <1>5 DEF Init, TypeInv

LEMMA TypeStep ==
    ASSUME TypeInv, Directed(s, spoilt), [Next]_vars
    PROVE  TypeInv'
  <1>1. s' \in Registers
    BY RegistersStep
  <1>2. \A n : Bits(n) \in SUBSET Byte /\ Bits(n) \in Word /\ Bits(n) \cup {8} \in Word
    BY DEF Bits, Byte, Word
  <1>3. /\ s \in Registers /\ x \in CableLevels /\ FifoWord(s) \cap Byte \in Word
        /\ words \in Seq(Word) /\ got \in Seq(Word)
    BY DEF TypeInv, Word, Byte
  <1>4. <<>> \in Seq(Nat) /\ <<>> \in Seq(SUBSET Byte)
    BY EmptySeq
  <1>25. /\ x.D \in SUBSET Byte /\ x.C \in SUBSET Byte /\ x.epp \in BOOLEAN
         /\ x.C \cup {5} \in SUBSET Byte /\ x.C \cup {4} \in SUBSET Byte
         /\ x.C \ {5} \in SUBSET Byte
         /\ {5} \in SUBSET Byte /\ {} \in SUBSET Byte
    BY <1>3 DEF CableLevels, Byte
  <1>26. BusyCable \in CableLevels
    <2>1. BusyCable = [x EXCEPT !.C = x.C \cup {5}]
      BY <1>3 DEF BusyCable, CableLevels
    <2> QED
      BY <1>3, <1>25, <2>1 DEF CableLevels
  <1>5. CASE DoIn
    <2>1. Rest \in Seq(Nat)
      BY <1>5, CommandType DEF DoIn
    <2>2. PICK a : /\ job' = [job EXCEPT !.data = Rest, !.out = Append(@, getbyte(a, FALSE, s, x))]
                   /\ got' = Taken(a)
      BY <1>5 DEF DoIn
    <2>3. getbyte(a, FALSE, s, x) \in SUBSET Byte
      BY <1>3, GetByte
    <2>4. job' \in [src : {"none", "ep1", "0x40", "0xC0"}, data : Seq(Nat), out : Seq(SUBSET Byte)]
      BY <2>1, <2>2, <2>3, AppendProperties DEF TypeInv
    <2>5. got' \in Seq(Word)
      BY <1>3, <2>2, AppendProperties DEF Taken
    <2> QED
      BY <1>1, <1>5, <2>4, <2>5 DEF DoIn, TypeInv
  <1>6. CASE DoHalf
    <2>1. Command \in Nat
      BY <1>6, CommandType DEF DoHalf
    <2>2. PendingByte' \in {0} \cup {n \in Nat : n >= 16}
      BY <1>6, <2>1 DEF DoHalf
    <2>3. job' \in [src : {"none", "ep1", "0x40", "0xC0"}, data : Seq(Nat), out : Seq(SUBSET Byte)]
      BY <1>4, <1>6 DEF DoHalf, TypeInv
    <2>4. UNCHANGED <<profile, x, gReplyLen, ExpectEP1OutToken, eeprom, host, words, got>>
      BY <1>6 DEF DoHalf, history
    <2> QED
      BY <1>1, <2>2, <2>3, <2>4 DEF TypeInv
  <1>7. CASE DoOut
    <2>1. Rest \in Seq(Nat) /\ Rest # <<>>
      BY <1>7, CommandType DEF DoOut
    <2>2. Tail(Rest) \in Seq(Nat)
      BY <2>1
    <2>3. job' = [job EXCEPT !.data = Tail(Rest)]
      BY <1>7 DEF DoOut
    <2>4. job' \in [src : {"none", "ep1", "0x40", "0xC0"}, data : Seq(Nat), out : Seq(SUBSET Byte)]
      BY <2>2, <2>3 DEF TypeInv
    <2>5. PendingByte' = 0 /\ UNCHANGED <<profile, x, gReplyLen, ExpectEP1OutToken, eeprom, host,
                                         words, got>>
      BY <1>7 DEF DoOut
    <2>6. /\ profile' \in {"ports", "stream", "ecpout", "ecpin"}
          /\ x' \in CableLevels /\ eeprom' \in SUBSET Byte
          /\ gReplyLen' \in Nat /\ ExpectEP1OutToken' \in {0, 1}
          /\ words' \in Seq(Word) /\ got' \in Seq(Word)
      BY <2>5 DEF TypeInv
    <2>7. host' \in [tog : {0, 1}, last : Seq(Nat), may : SUBSET Seq(Nat)]
      BY <2>5 DEF TypeInv
    <2> QED
      BY <1>1, <2>4, <2>5, <2>6, <2>7 DEF TypeInv
  <1>8. CASE waitbit
    BY <1>1, <1>8 DEF waitbit, TypeInv, firmware, history
  <1>9. CASE Return
    <2>1. Len(job.out) \in Nat
      BY DEF TypeInv
    <2>2. gReplyLen' \in Nat
      BY <1>9, <2>1 DEF Return, TypeInv
    <2>3. job' \in [src : {"none", "ep1", "0x40", "0xC0"}, data : Seq(Nat), out : Seq(SUBSET Byte)]
      BY <1>4, <1>9 DEF Return, Idle
    <2> QED
      BY <1>1, <1>9, <2>2, <2>3 DEF Return, TypeInv, history
  <1>10. CASE SppXfer
    <2>1. x' = BusyCable \/ x' = x
      BY <1>10 DEF SppXfer
    <2>2. x' \in CableLevels
      BY <1>3, <1>26, <2>1
    <2>3. got' = got \/ got' = Append(got, FifoWord(s) \cap Byte)
      BY <1>10 DEF SppXfer
    <2>4. FifoWord(s) \cap Byte \in Word
      BY DEF Word, Byte
    <2>6. got \in Seq(Word)
      BY DEF TypeInv
    <2>7. Append(got, FifoWord(s) \cap Byte) \in Seq(Word)
      <3> HIDE DEF FifoWord, Word, Byte
      <3> QED
        BY Zenon, <2>4, <2>6, AppendProperties
    <2>5. got' \in Seq(Word)
      BY <2>3, <2>6, <2>7
    <2> QED
      BY <1>1, <1>10, <2>2, <2>5 DEF SppXfer, TypeInv, firmware
  <1>11. CASE EcpXfer
    BY <1>1, <1>11 DEF EcpXfer, TypeInv, firmware
  <1>12. ASSUME NEW p \in Seq(Nat), NEW token \in {0, 1}, usbFunctionWriteOut(token, p)
         PROVE  /\ ExpectEP1OutToken' \in {0, 1}
                /\ job' \in [src : {"none", "ep1", "0x40", "0xC0"}, data : Seq(Nat),
                             out : Seq(SUBSET Byte)]
    <2>1. 1 - token \in {0, 1}
      BY <1>12
    <2>2. ASSUME NEW src \in {"none", "ep1"}, ProcessInOut(src, p)
          PROVE  job' \in [src : {"none", "ep1", "0x40", "0xC0"}, data : Seq(Nat),
                          out : Seq(SUBSET Byte)]
      BY <1>4, <1>12, <2>2 DEF ProcessInOut
    <2>3. CASE token = ExpectEP1OutToken
      BY <1>12, <2>1, <2>2, <2>3 DEF usbFunctionWriteOut
    <2>4. CASE token # ExpectEP1OutToken
      BY <1>12, <2>4 DEF usbFunctionWriteOut, TypeInv
    <2> QED
      BY <2>3, <2>4
  <1>13. ASSUME NEW p \in Seq(Nat), Sent(p) PROVE words' \in Seq(Word)
    <2>1. WordOf(p) \in Word
      BY <1>2 DEF WordOf
    <2> QED
      BY <1>3, <1>13, <2>1, AppendProperties DEF Sent
  <1>14. CASE Packet
    <2>1. PICK p \in Packets :
             /\ Sent(p) /\ usbFunctionWriteOut(host.tog, p)
             /\ host' = [host EXCEPT !.tog = 1 - @, !.last = IF profile = "stream" THEN p ELSE <<>>]
      BY <1>14 DEF Packet
    <2>2. p \in Seq(Nat)
      BY PacketsType
    <2>3. host' \in [tog : {0, 1}, last : Seq(Nat), may : SUBSET Seq(Nat)] /\ host.tog \in {0, 1}
      <3>1. host.tog \in {0, 1} /\ 1 - host.tog \in {0, 1}
        BY DEF TypeInv
      <3>2. PICK t \in {0, 1}, l \in Seq(Nat) : host' = [host EXCEPT !.tog = t, !.last = l]
        BY <1>4, <2>1, <2>2, <3>1
      <3> QED
        BY <3>1, <3>2 DEF TypeInv
    <2> QED
      BY <1>1, <1>12, <1>13, <1>14, <2>1, <2>2, <2>3 DEF Packet, TypeInv
  <1>15. CASE Repeat
    <2>1. 1 - host.tog \in {0, 1} /\ host.last \in Seq(Nat)
      BY DEF TypeInv
    <2> QED
      BY <1>1, <1>12, <1>15, <2>1 DEF Repeat, TypeInv, history
  <1>16. CASE SetupCommands
    <2>1. PICK p \in Packets, src \in {"0x40", "0xC0"} : Sent(p) /\ ProcessInOut(src, p)
      BY <1>16 DEF SetupCommands
    <2>2. p \in Seq(Nat)
      BY PacketsType
    <2>3. job' \in [src : {"none", "ep1", "0x40", "0xC0"}, data : Seq(Nat), out : Seq(SUBSET Byte)]
      BY <1>4, <2>1, <2>2 DEF ProcessInOut
    <2> QED
      BY <1>1, <1>13, <1>16, <2>1, <2>2, <2>3 DEF SetupCommands, TypeInv
  <1>17. CASE SetupRegister
    BY <1>1, <1>17 DEF SetupRegister, TypeInv, firmware, history
  <1>19. CASE SaveFeature
    <2>1. s.Feature \in SUBSET Byte
      BY <1>3 DEF Registers
    <2> QED
      BY <1>1, <1>19, <2>1 DEF SaveFeature, TypeInv, firmware, history
  <1>20. CASE Restart
    BY <1>1, <1>4, <1>20 DEF Restart, BootState, Idle, TypeInv
  <1>21. CASE Cable \/ Ready \/ EndOffer
    <2>1. x' \in CableLevels
      <3>1. \/ x' = [x EXCEPT !.C = x.C \cup {5}, !.epp = FALSE]
            \/ \E e \in BOOLEAN : x' = [x EXCEPT !.C = x.C \ {5}, !.epp = e]
            \/ x' = [x EXCEPT !.C = x.C \ {5}]
            \/ x' = [x EXCEPT !.C = x.C \cup {4}]
        BY <1>3, <1>21 DEF Cable, Ready, EndOffer, CableLevels
      <3>2. CASE x' = [x EXCEPT !.C = x.C \cup {5}, !.epp = FALSE]
        BY <1>3, <1>25, <3>2 DEF CableLevels
      <3>3. ASSUME NEW e \in BOOLEAN, x' = [x EXCEPT !.C = x.C \ {5}, !.epp = e]
            PROVE  x' \in CableLevels
        BY <1>3, <1>25, <3>3 DEF CableLevels
      <3>4. CASE x' = [x EXCEPT !.C = x.C \ {5}]
        BY <1>3, <1>25, <3>4 DEF CableLevels
      <3>5. CASE x' = [x EXCEPT !.C = x.C \cup {4}]
        BY <1>3, <1>25, <3>5 DEF CableLevels
      <3> QED
        BY <3>1, <3>2, <3>3, <3>4, <3>5
    <2> QED
      BY <1>1, <1>21, <2>1 DEF Cable, Ready, EndOffer, TypeInv, firmware, history
  <1>22. CASE TakeByte
    <2> DEFINE w == PIND(s, x) \cup IF Level(AF) THEN {8} ELSE {}
    <2>1. w \in Word
      BY <1>3 DEF Word, PIND, Pin, Registers, CableLevels, Byte
    <2>2. x' \in CableLevels
      BY <1>22, <1>26 DEF TakeByte
    <2>3. got' = Append(got, w)
      BY <1>22 DEF TakeByte
    <2> HIDE DEF w
    <2>4. got' \in Seq(Word)
      BY <1>3, <2>1, <2>3, AppendProperties
    <2> QED
      BY <1>1, <1>22, <2>2, <2>4 DEF TakeByte, TypeInv, firmware
  <1>23. CASE Offer
    <2>1. PICK data \in BOOLEAN :
             /\ x' = [x EXCEPT !.D = Bits(Len(words) + 1), !.C = IF data THEN {5} ELSE {}]
             /\ words' = Append(words, x'.D \cup IF data THEN {8} ELSE {})
      BY <1>23 DEF Offer
    <2>2. x' \in CableLevels /\ x'.D = Bits(Len(words) + 1)
      <3>1. PICK d \in SUBSET Byte, c \in SUBSET Byte :
               d = Bits(Len(words) + 1) /\ x' = [x EXCEPT !.D = d, !.C = c]
        BY <1>2, <1>25, <2>1
      <3> QED
        BY <1>3, <3>1 DEF CableLevels
    <2>3. words' \in Seq(Word)
      BY ZenonT(60), <1>2, <1>3, <2>1, <2>2, AppendProperties
    <2> QED
      BY <1>1, <1>23, <2>2, <2>3 DEF Offer, TypeInv, firmware
  <1>24. CASE UNCHANGED vars
    BY <1>24 DEF vars, firmware, history, TypeInv
  <1> QED
    BY <1>5, <1>6, <1>7, <1>8, <1>9, <1>10, <1>11, <1>14, <1>15, <1>16, <1>17, <1>19,
       <1>20, <1>21, <1>22, <1>23, <1>24 DEF Next, MainLoop, Peripheral

\* The registers keep their types and FIFO indices within the FIFO, the
\* commands under way are bytes, and the cable carries bytes; and wherever
\* the program has not set DDRD itself, the drivers of the data port follow
\* bit 5 of DCR, through changes of mode, of DirectIO and of Feature.
THEOREM LptInvariant == Spec => [](TypeInv /\ Directed(s, spoilt))
  <1>1. Init => TypeInv /\ Directed(s, spoilt)
    BY InitType, BootState0 DEF Init
  <1>2. TypeInv /\ Directed(s, spoilt) /\ [Next]_vars => (TypeInv /\ Directed(s, spoilt))'
    BY TypeStep, RegistersStep DEF Directed, DirectIO, DIRECTION_INPUT, OpenDrain
  <1> QED
    BY <1>1, <1>2, PTL DEF Spec

\* DataDirection for every FIFO, every program and every cable: nothing is
\* driven against the peripheral while bit 5 of DCR says input, and simulated
\* open collectors never drive a line high.
THEOREM DirectionsFollowDCR == Spec => []DataDirection
  <1>1. Directed(s, spoilt) => DataDirection
    BY DEF Directed, DataDirection
  <1> QED
    BY <1>1, LptInvariant, PTL

-----------------------------------------------------------------------------
(***************************************************************************)
(* The FIFO as a queue.  The bits empty and full decide between the two    *)
(* meanings of equal indices; with that, Contents is what a program that   *)
(* only reads would get.                                                   *)
(***************************************************************************)
FifoOK(r) ==
    /\ ~(0 \in r.ECR /\ 1 \in r.ECR)
    /\ r.fifor = r.fifow <=> 0 \in r.ECR \/ 1 \in r.ECR

LEMMA Wrap ==
    ASSUME NEW n \in Nat, n < FIFOSIZE + FIFOSIZE
    PROVE  n % FIFOSIZE = IF n < FIFOSIZE THEN n ELSE n - FIFOSIZE
  <1>1. CASE n < FIFOSIZE
    BY <1>1, FifoAssumption
  <1>2. CASE n >= FIFOSIZE
    BY <1>2, FifoAssumption
  <1> QED
    BY <1>1, <1>2, FifoAssumption

\* How many words, and where the i-th of them is.
Amount(a, b) == IF b > a THEN b - a ELSE b + FIFOSIZE - a
Place(a, i) == IF a + i - 1 < FIFOSIZE THEN a + i - 1 ELSE a + i - 1 - FIFOSIZE

LEMMA ContentsShape ==
    ASSUME NEW r \in Registers, FifoOK(r)
    PROVE  /\ Contents(r) \in Seq(Word) /\ Len(Contents(r)) = Count(r)
           /\ Count(r) = IF 0 \in r.ECR THEN 0 ELSE Amount(r.fifor, r.fifow)
           /\ Count(r) \in 0..FIFOSIZE
           /\ \A i \in 1..Count(r) : /\ Contents(r)[i] = r.Fifo[Place(r.fifor, i)]
                                     /\ Place(r.fifor, i) \in 0..FIFOSIZE - 1
  <1>1. PICK a \in 0..FIFOSIZE - 1, b \in 0..FIFOSIZE - 1 : a = r.fifor /\ b = r.fifow
    BY DEF Registers
  <1>2. /\ (b + FIFOSIZE - a) % FIFOSIZE = IF b >= a THEN b - a ELSE b + FIFOSIZE - a
    <2>1. PICK n \in Nat : n = b + FIFOSIZE - a /\ n < FIFOSIZE + FIFOSIZE
      BY FifoAssumption
    <2> QED
      BY <2>1, Wrap, FifoAssumption
  <1>3. Count(r) = IF 0 \in r.ECR THEN 0 ELSE Amount(a, b)
    BY <1>1, <1>2, FifoAssumption DEF Count, FifoOK, Amount
  <1>4. Count(r) \in 0..FIFOSIZE
    BY <1>3, FifoAssumption DEF Amount
  <1>5. PICK n \in 0..FIFOSIZE : n = Count(r)
    BY <1>4
  <1>6. ASSUME NEW i \in 1..n
        PROVE  (a + i - 1) % FIFOSIZE = Place(a, i) /\ Place(a, i) \in 0..FIFOSIZE - 1
    <2>1. PICK m \in Nat : m = a + i - 1 /\ m < FIFOSIZE + FIFOSIZE
      BY FifoAssumption
    <2> QED
      BY <2>1, Wrap, FifoAssumption DEF Place
  <1>7. Contents(r) = [i \in 1..n |-> r.Fifo[(a + i - 1) % FIFOSIZE]]
    BY <1>1, <1>5 DEF Contents
  <1>8. r.Fifo \in [0..FIFOSIZE - 1 -> Word]
    BY DEF Registers
  <1>9. /\ Contents(r) = [i \in 1..n |-> r.Fifo[Place(a, i)]]
        /\ \A i \in 1..n : r.Fifo[Place(a, i)] \in Word
    BY <1>6, <1>7, <1>8
  <1>10. Contents(r) \in [1..n -> Word] /\ n \in Nat
    BY <1>9, FifoAssumption
  <1>11. Contents(r) \in Seq(Word)
    BY <1>10, SeqDef
  <1>12. Len(Contents(r)) = n
    <2>1. DOMAIN Contents(r) = 1..Len(Contents(r)) /\ Len(Contents(r)) \in Nat
      BY <1>11, LenProperties
    <2>2. PICK l \in Nat : l = Len(Contents(r)) /\ 1..l = 1..n
      BY <2>1, <1>10
    <2>3. l = n
      BY <2>2
    <2> QED
      BY <2>2, <2>3
  <1> QED
    BY <1>1, <1>3, <1>4, <1>5, <1>6, <1>9, <1>11, <1>12

LEMMA EmptyAndFull ==
    ASSUME NEW r \in Registers, FifoOK(r)
    PROVE  /\ 0 \in r.ECR <=> Contents(r) = <<>>
           /\ 1 \notin r.ECR <=> Len(Contents(r)) < FIFOSIZE
  <1>1. PICK a \in 0..FIFOSIZE - 1, b \in 0..FIFOSIZE - 1 : a = r.fifor /\ b = r.fifow
    BY DEF Registers
  <1>2. PICK n \in 0..FIFOSIZE : n = Count(r)
    BY ContentsShape
  <1>3. n = IF 0 \in r.ECR THEN 0 ELSE Amount(a, b)
    BY <1>1, <1>2, ContentsShape
  <1>4. (0 \in r.ECR <=> n = 0) /\ (1 \notin r.ECR <=> n < FIFOSIZE)
    BY <1>1, <1>3, FifoAssumption DEF FifoOK, Amount
  <1>5. Contents(r) \in Seq(Word) /\ Len(Contents(r)) = n
    BY <1>2, ContentsShape
  <1>6. Contents(r) = <<>> <=> n = 0
    BY <1>5, EmptySeq
  <1> QED
    BY <1>4, <1>5, <1>6

LEMMA PutContents ==
    ASSUME NEW r \in Registers, FifoOK(r), NEW w \in Word, 1 \notin r.ECR
    PROVE  FifoOK(PutFifo(r, w)) /\ Contents(PutFifo(r, w)) = Append(Contents(r), w)
  <1>1. PICK a \in 0..FIFOSIZE - 1, b \in 0..FIFOSIZE - 1 : a = r.fifor /\ b = r.fifow
    BY DEF Registers
  <1> DEFINE t == PutFifo(r, w)
             c == IF b = FIFOSIZE - 1 THEN 0 ELSE b + 1
  <1>2. c \in 0..FIFOSIZE - 1
    BY FifoAssumption
  <1>3. Next1(r.fifow) = c
    BY <1>1, NextIndex
  <1>4. /\ t \in Registers /\ t.fifor = a /\ t.fifow = c /\ t.Fifo = [r.Fifo EXCEPT ![b] = w]
        /\ t.ECR = (r.ECR \ {0}) \cup IF c = a THEN {1} ELSE {}
    <2>1. t \in Registers
      BY PutFifoType
    <2>2. PutFifo(r, w) = [r EXCEPT !.Fifo = [r.Fifo EXCEPT ![b] = w], !.fifow = c,
                             !.ECR = (r.ECR \ {0}) \cup IF c = a THEN {1} ELSE {}]
      BY <1>1, <1>3 DEF PutFifo, Registers
    <2> QED
      BY <1>1, <2>1, <2>2 DEF Registers
  <1>5. FifoOK(t)
    BY <1>2, <1>4 DEF FifoOK
  <1> HIDE DEF t, c
  <1>6. PICK n \in 0..FIFOSIZE, m \in 0..FIFOSIZE : n = Count(r) /\ m = Count(t)
    BY <1>4, <1>5, ContentsShape
  <1>7. n = (IF 0 \in r.ECR THEN 0 ELSE Amount(a, b)) /\ m = Amount(a, c)
    <2>1. 0 \notin t.ECR
      BY <1>4
    <2> QED
      BY <1>1, <1>4, <1>5, <1>6, <2>1, ContentsShape
  <1>8. (a = b <=> 0 \in r.ECR)
    BY <1>1 DEF FifoOK
  <1>9. m = n + 1 /\ Place(a, m) = b
    BY <1>7, <1>8, FifoAssumption DEF Amount, Place, c
  <1>10. ASSUME NEW i \in 1..n PROVE Place(a, i) # b
    BY <1>7, <1>8, <1>10, FifoAssumption DEF Amount, Place
  <1> DEFINE q == Append(Contents(r), w)
  <1>11. /\ Contents(r) \in Seq(Word) /\ Len(Contents(r)) = n
         /\ Contents(t) \in Seq(Word) /\ Len(Contents(t)) = m
    BY <1>4, <1>5, <1>6, ContentsShape
  <1>12. /\ q \in Seq(Word) /\ Len(q) = m /\ q[m] = w
         /\ \A i \in 1..n : q[i] = Contents(r)[i]
    BY <1>9, <1>11, AppendProperties
  <1>13. ASSUME NEW i \in 1..m PROVE Contents(t)[i] = q[i]
    <2>1. Contents(t)[i] = t.Fifo[Place(a, i)] /\ Place(a, i) \in 0..FIFOSIZE - 1
      BY <1>4, <1>5, <1>6, ContentsShape
    <2>2. r.Fifo \in [0..FIFOSIZE - 1 -> Word]
      BY DEF Registers
    <2>3. CASE i = m
      BY <1>4, <1>9, <1>12, <2>1, <2>2, <2>3
    <2>4. CASE i # m
      <3>1. i \in 1..n
        BY <1>9, <2>4
      <3>2. q[i] = r.Fifo[Place(a, i)]
        BY <1>1, <1>6, <1>12, <3>1, ContentsShape
      <3> QED
        BY <1>4, <1>10, <2>1, <2>2, <3>1, <3>2
    <2> QED
      BY <2>3, <2>4
  <1> HIDE DEF q
  <1>14. Contents(t) = q
    BY <1>11, <1>12, <1>13, SeqEqual
  <1> QED
    BY <1>5, <1>14 DEF t, q

LEMMA GetContents ==
    ASSUME NEW r \in Registers, FifoOK(r), 0 \notin r.ECR
    PROVE  /\ FifoOK(GetFifo(r)) /\ 1 \notin GetFifo(r).ECR
           /\ Contents(r) # <<>> /\ Head(Contents(r)) = FifoWord(r)
           /\ Contents(GetFifo(r)) = Tail(Contents(r))
  <1>1. PICK a \in 0..FIFOSIZE - 1, b \in 0..FIFOSIZE - 1 : a = r.fifor /\ b = r.fifow
    BY DEF Registers
  <1> DEFINE t == GetFifo(r)
             c == IF a = FIFOSIZE - 1 THEN 0 ELSE a + 1
  <1>2. c \in 0..FIFOSIZE - 1
    BY FifoAssumption
  <1>3. Next1(r.fifor) = c
    BY <1>1, NextIndex
  <1>4. /\ t \in Registers /\ t.fifor = c /\ t.fifow = b /\ t.Fifo = r.Fifo
        /\ t.ECR = (r.ECR \ {1}) \cup IF c = b THEN {0} ELSE {}
    BY ZenonT(60), <1>1, <1>3, GetFifoType DEF GetFifo, Registers
  <1>5. FifoOK(t) /\ 1 \notin t.ECR
    BY <1>2, <1>4 DEF FifoOK
  <1> HIDE DEF t, c
  <1>6. PICK n \in 0..FIFOSIZE, m \in 0..FIFOSIZE : n = Count(r) /\ m = Count(t)
    BY <1>4, <1>5, ContentsShape
  <1>7. n = Amount(a, b) /\ m = IF c = b THEN 0 ELSE Amount(c, b)
    <2>1. 0 \in t.ECR <=> c = b
      BY <1>4
    <2> QED
      BY <1>1, <1>4, <1>5, <1>6, <2>1, ContentsShape
  <1>8. n = m + 1 /\ Place(a, 1) = a
    BY <1>7, FifoAssumption DEF Amount, Place, c
  <1>9. ASSUME NEW i \in 1..m PROVE Place(c, i) = Place(a, i + 1)
    BY <1>7, <1>9, FifoAssumption DEF Amount, Place, c
  <1>10. /\ Contents(r) \in Seq(Word) /\ Len(Contents(r)) = n
         /\ Contents(t) \in Seq(Word) /\ Len(Contents(t)) = m
    BY <1>4, <1>5, <1>6, ContentsShape
  <1>11. Contents(r) # <<>>
    BY EmptyAndFull
  <1>12. Head(Contents(r)) = FifoWord(r)
    <2>1. Head(Contents(r)) = Contents(r)[1]
      BY <1>10, <1>11
    <2>2. 1 \in 1..n
      BY <1>8
    <2>3. Contents(r)[1] = r.Fifo[a]
      BY <1>1, <1>6, <1>8, <2>2, ContentsShape
    <2> QED
      BY <1>1, <2>1, <2>3 DEF FifoWord
  <1> DEFINE q == Tail(Contents(r))
  <1>13. /\ q \in Seq(Word) /\ Len(q) = n - 1
         /\ \A i \in 1..Len(q) : q[i] = Contents(r)[i + 1]
    BY <1>10, <1>11, HeadTailProperties
  <1>14. Len(q) = m
    BY <1>8, <1>13
  <1>15. ASSUME NEW i \in 1..m PROVE Contents(t)[i] = q[i]
    <2>1. i \in 1..Count(t) /\ i + 1 \in 1..Count(r)
      BY <1>6, <1>8
    <2>2. Contents(t)[i] = r.Fifo[Place(c, i)]
      BY <1>4, <1>5, <2>1, ContentsShape
    <2>3. Contents(r)[i + 1] = r.Fifo[Place(a, i + 1)]
      BY <1>1, <2>1, ContentsShape
    <2> QED
      BY <1>9, <1>13, <1>14, <2>2, <2>3
  <1> HIDE DEF q
  <1>16. Contents(t) = q
    BY <1>10, <1>13, <1>14, <1>15, SeqEqual
  <1> QED
    BY <1>5, <1>11, <1>12, <1>16 DEF t, q

\* Contents and the two bits depend on the FIFO alone.
LEMMA SameContents ==
    ASSUME NEW r, NEW t, SameFifo(r, t)
    PROVE  (FifoOK(t) <=> FifoOK(r)) /\ Contents(t) = Contents(r)
  BY DEF SameFifo, FifoOK, Contents, Count

LEMMA EmptiedContents ==
    ASSUME NEW r \in Registers, Emptied(r)
    PROVE  FifoOK(r) /\ Contents(r) = <<>>
  <1>1. FifoOK(r)
    BY DEF Emptied, FifoOK
  <1> QED
    BY <1>1, EmptyAndFull DEF Emptied

\* Until the FIFO is full, the word delivered last is still in the place
\* before the next one: GetFifo finds it there when the FIFO is empty.
LastKept(r) ==
    r.last # <<>> /\ 1 \notin r.ECR =>
        r.last = <<r.Fifo[(r.fifor + FIFOSIZE - 1) % FIFOSIZE]>>

\* The words left when one has been taken, and what the taker got.
Left(r) == IF Contents(r) = <<>> THEN <<>> ELSE Tail(Contents(r))
Gave(r, t) == IF Contents(r) # <<>> THEN t.last = <<Head(Contents(r))>>
              ELSE r.last = <<>> \/ t.last = r.last

LEMMA SameLast ==
    ASSUME NEW r, NEW t, SameFifo(r, t)
    PROVE  /\ LastKept(r) => LastKept(t)
           /\ FifoOK(t) <=> FifoOK(r)
           /\ Contents(t) = Contents(r) /\ t.last = r.last /\ t.epoch = r.epoch
  BY SameContents DEF SameFifo, LastKept

LEMMA PutMove ==
    ASSUME NEW r \in Registers, FifoOK(r), NEW w \in Word, NEW t, t = PutFifo(r, w)
    PROVE  /\ FifoOK(t) /\ t.last = r.last /\ t.epoch = r.epoch
           /\ LastKept(r) => LastKept(t)
           /\ \/ Contents(t) = Contents(r)
              \/ Len(Contents(r)) < FIFOSIZE /\ Contents(t) = Append(Contents(r), w)
  <1>1. CASE 1 \in r.ECR
    BY <1>1 DEF PutFifo
  <1>2. CASE 1 \notin r.ECR
    <2>1. PICK a \in 0..FIFOSIZE - 1, b \in 0..FIFOSIZE - 1 : a = r.fifor /\ b = r.fifow
      BY DEF Registers
    <2> DEFINE e == (r.ECR \ {0}) \cup IF Next1(b) = a THEN {1} ELSE {}
               l == (a + FIFOSIZE - 1) % FIFOSIZE
               f == [r.Fifo EXCEPT ![b] = w]
    <2>2. t = [r EXCEPT !.Fifo = f, !.fifow = Next1(b), !.ECR = e]
      BY <1>2, <2>1 DEF PutFifo, Registers
    <2> HIDE DEF f, e
    <2>3. /\ t.last = r.last /\ t.epoch = r.epoch /\ t.Fifo = f /\ t.fifor = a /\ t.ECR = e
      BY <2>1, <2>2 DEF Registers
    <2>4. 1 \notin e => l # b
      <3>1. 1 \notin e => Next1(b) # a
        BY DEF e
      <3>2. l = IF a = 0 THEN FIFOSIZE - 1 ELSE a - 1
        BY PreviousIndex
      <3>3. Next1(b) = IF b = FIFOSIZE - 1 THEN 0 ELSE b + 1
        BY NextIndex
      <3> HIDE DEF l
      <3> QED
        BY <3>1, <3>2, <3>3, FifoAssumption
    <2>5. r.Fifo \in [0..FIFOSIZE - 1 -> Word] /\ l \in 0..FIFOSIZE - 1
      BY <2>1, PreviousIndex DEF Registers
    <2>6. 1 \notin e => f[l] = r.Fifo[l]
      BY <2>4, <2>5 DEF f
    <2> HIDE DEF l
    <2>7. LastKept(r) => LastKept(t)
      BY <1>2, <2>1, <2>3, <2>6 DEF LastKept, l
    <2> QED
      BY <1>2, <2>3, <2>7, PutContents, EmptyAndFull
  <1> QED
    BY <1>1, <1>2

LEMMA GetMove ==
    ASSUME NEW r \in Registers, FifoOK(r), NEW t, t = GetFifo(r)
    PROVE  /\ t \in Registers /\ FifoOK(t) /\ 1 \notin t.ECR /\ t.epoch = r.epoch
           /\ Contents(t) = Left(r) /\ LastKept(t)
           /\ LastKept(r) => Gave(r, t)
  <1>1. PICK a \in 0..FIFOSIZE - 1 : a = r.fifor
    BY DEF Registers
  <1> DEFINE l == (a + FIFOSIZE - 1) % FIFOSIZE
  <1>2. t \in Registers /\ t.epoch = r.epoch
    BY GetFifoType, GetFifoEpoch
  <1>3. t.last = <<FifoWord(r)>> /\ t.Fifo = r.Fifo
    BY DEF GetFifo, Registers
  <1>4. CASE 0 \in r.ECR
    <2>1. /\ t.fifor = a /\ t.fifow = r.fifow /\ t.ECR = r.ECR /\ 1 \notin r.ECR
          /\ t.last = <<r.Fifo[l]>>
      BY <1>1, <1>3, <1>4 DEF GetFifo, Registers, FifoOK, FifoWord
    <2>2. FifoOK(t) /\ Contents(t) = Contents(r)
      BY <1>1, <1>3, <2>1 DEF FifoOK, Contents, Count
    <2>3. Contents(r) = <<>>
      BY <1>4, EmptyAndFull
    <2>4. LastKept(t)
      BY <1>3, <2>1 DEF LastKept
    <2>5. LastKept(r) => r.last = <<>> \/ t.last = r.last
      BY <1>1, <2>1 DEF LastKept
    <2> QED
      BY <1>2, <2>1, <2>2, <2>3, <2>4, <2>5 DEF Left, Gave
  <1>5. CASE 0 \notin r.ECR
    <2>1. /\ FifoOK(t) /\ 1 \notin t.ECR
          /\ Contents(r) # <<>> /\ Head(Contents(r)) = FifoWord(r)
          /\ Contents(t) = Tail(Contents(r))
      BY <1>5, GetContents
    <2>2. t.fifor = Next1(a) /\ FifoWord(r) = r.Fifo[a]
      BY <1>1, <1>5 DEF GetFifo, Registers, FifoWord
    <2>3. (t.fifor + FIFOSIZE - 1) % FIFOSIZE = a
      <3>1. PICK c \in 0..FIFOSIZE - 1 : c = t.fifor
        BY <1>2 DEF Registers
      <3>2. (c + FIFOSIZE - 1) % FIFOSIZE = IF c = 0 THEN FIFOSIZE - 1 ELSE c - 1
        BY PreviousIndex
      <3>3. c = IF a = FIFOSIZE - 1 THEN 0 ELSE a + 1
        BY <2>2, <3>1, NextIndex
      <3> QED
        BY <3>1, <3>2, <3>3, FifoAssumption
    <2>4. LastKept(t)
      BY <1>3, <2>2, <2>3 DEF LastKept
    <2> QED
      BY <1>2, <1>3, <2>1, <2>4 DEF Left, Gave
  <1> QED
    BY <1>4, <1>5

\* One word more at the end, nothing else.
Extended(old, new) == \E w \in Word : new = Append(old, w)

LEMMA FifoMoveContents ==
    ASSUME NEW r \in Registers, NEW t \in Registers, FifoOK(r), FifoMove(r, t)
    PROVE  /\ FifoOK(t)
           /\ LastKept(r) =>
                /\ LastKept(t)
                /\ \/ Contents(t) = <<>> /\ t.last = <<>> /\ t.epoch = 1 - r.epoch
                   \/ /\ t.epoch = r.epoch /\ t.last = r.last
                      /\ \/ Contents(t) = Contents(r)
                         \/ Len(Contents(r)) < FIFOSIZE /\ Extended(Contents(r), Contents(t))
                   \/ /\ t.epoch = r.epoch /\ Gave(r, t)
                      /\ Contents(t) = Left(r) \/ Extended(Left(r), Contents(t))
  <1>1. CASE Cleared(r, t)
    BY <1>1, EmptiedContents DEF Cleared, Emptied, LastKept
  <1>2. CASE SameFifo(r, t)
    BY <1>2, SameLast
  <1>3. PICK g : g = GetFifo(r)
    OBVIOUS
  <1>4. /\ g \in Registers /\ FifoOK(g) /\ 1 \notin g.ECR /\ g.epoch = r.epoch
        /\ Contents(g) = Left(r) /\ LastKept(g)
        /\ LastKept(r) => Gave(r, g)
    BY <1>3, GetMove
  <1>5. CASE SameFifo(g, t)
    <2>1. /\ FifoOK(t) /\ LastKept(t) /\ Contents(t) = Left(r) /\ t.last = g.last
          /\ t.epoch = r.epoch
      BY <1>4, <1>5, SameLast
    <2>2. Gave(r, g) => Gave(r, t)
      BY <2>1 DEF Gave
    <2> QED
      BY <1>4, <2>1, <2>2
  <1>6. ASSUME NEW w \in Word, SameFifo(PutFifo(r, w), t)
        PROVE  /\ FifoOK(t) /\ t.last = r.last /\ t.epoch = r.epoch
               /\ LastKept(r) => LastKept(t)
               /\ \/ Contents(t) = Contents(r)
                  \/ Len(Contents(r)) < FIFOSIZE /\ Contents(t) = Append(Contents(r), w)
    <2>1. PICK p : p = PutFifo(r, w)
      OBVIOUS
    <2> QED
      BY <1>6, <2>1, PutMove, SameLast
  <1>7. ASSUME NEW w \in Word, SameFifo(PutFifo(g, w), t)
        PROVE  /\ FifoOK(t) /\ t.last = g.last /\ t.epoch = r.epoch /\ LastKept(t)
               /\ Contents(t) = Append(Left(r), w)
    <2>1. PICK p : p = PutFifo(g, w)
      OBVIOUS
    <2>2. FifoOK(p) /\ p.last = g.last /\ p.epoch = g.epoch /\ LastKept(p)
      BY <1>4, <2>1, PutMove
    <2>3. Contents(p) = Append(Contents(g), w)
      BY <1>4, <2>1, PutContents
    <2> QED
      BY <1>4, <1>7, <2>1, <2>2, <2>3, SameLast
  <1>8. CASE \E w \in Word : SameFifo(PutFifo(r, w), t)
    BY <1>6, <1>8 DEF Extended
  <1>9. CASE \E w \in Word : SameFifo(PutFifo(g, w), t)
    <2>1. /\ FifoOK(t) /\ t.last = g.last /\ t.epoch = r.epoch /\ LastKept(t)
          /\ Extended(Left(r), Contents(t))
      BY <1>7, <1>9 DEF Extended
    <2>2. Gave(r, g) => Gave(r, t)
      BY <2>1 DEF Gave
    <2> QED
      BY <1>4, <2>1, <2>2
  <1> QED
    BY <1>1, <1>2, <1>3, <1>5, <1>8, <1>9 DEF FifoMove

LEMMA ExtendedExtends ==
    ASSUME NEW q \in Seq(Word), NEW z, Extended(q, z)
    PROVE  Fifo!Extends(q, z)
  <1>1. PICK w \in Word : z = Append(q, w)
    BY DEF Extended
  <1>2. z \in Seq(Word) /\ Len(z) = Len(q) + 1 /\ Len(q) \in Nat
        /\ \A i \in 1..Len(q) : z[i] = q[i]
    BY <1>1, AppendProperties, LenProperties
  <1>3. \A i \in 1..Len(q) : z[i] \in Word
    BY <1>2, ElementOfSeq
  <1> DEFINE p == SubSeq(z, 1, Len(q))
  <1>4. /\ p \in Seq(Word) /\ Len(p) = IF 1 <= Len(q) THEN Len(q) - 1 + 1 ELSE 0
        /\ \A i \in 1..Len(q) - 1 + 1 : p[i] = z[1 + i - 1]
    BY <1>2, <1>3, SubSeqProperties
  <1>5. Len(p) = Len(q) /\ \A i \in 1..Len(q) : p[i] = q[i]
    BY <1>2, <1>4
  <1> HIDE DEF p
  <1>6. p = q
    BY <1>4, <1>5, SeqEqual
  <1> QED
    BY <1>2, <1>6 DEF Fifo!Extends, p

\* Whatever registers the program writes, and in whatever mode and order it
\* reads them while the transfers run, the two indices and the two bits of
\* ECR are a queue of at most FIFOSIZE words: GetFifo delivers them in order
\* and each once, the last one again when there is none, and a word is lost
\* only by a write to ECR or a restart.
THEOREM FifoIsQueue == Spec => FifoQueue
  <1> DEFINE Inv == FifoOK(s) /\ LastKept(s)
             seen == <<Contents(s), s.last, s.epoch>>
  <1>1. Init => Inv /\ Fifo!Init
    BY BootState0, EmptiedContents DEF Init, Fifo!Init, Emptied, LastKept
  <1>2. ASSUME TypeInv, Directed(s, spoilt), Inv, [Next]_vars
        PROVE  Inv' /\ [Fifo!Next]_seen
    <2>1. s \in Registers /\ s' \in Registers /\ FifoMove(s, s')
      BY <1>2, RegistersStep DEF TypeInv
    <2>2. PICK q, z : q = Contents(s) /\ z = Contents(s')
      OBVIOUS
    <2>3. PICK l : l = IF q = <<>> THEN <<>> ELSE Tail(q)
      OBVIOUS
    <2>4. /\ FifoOK(s') /\ LastKept(s')
          /\ \/ z = <<>> /\ s'.last = <<>> /\ s'.epoch = 1 - s.epoch
             \/ /\ s'.epoch = s.epoch /\ s'.last = s.last
                /\ z = q \/ (Len(q) < FIFOSIZE /\ Extended(q, z))
             \/ /\ s'.epoch = s.epoch
                /\ IF q # <<>> THEN s'.last = <<Head(q)>> ELSE s.last = <<>> \/ s'.last = s.last
                /\ z = l \/ Extended(l, z)
      BY <1>2, <2>1, <2>2, <2>3, FifoMoveContents DEF Left, Gave
    <2>5. q \in Seq(Word) /\ l \in Seq(Word)
      <3>1. q \in Seq(Word)
        BY <1>2, <2>1, <2>2, ContentsShape
      <3> QED
        BY <2>3, <3>1, HeadTailProperties, EmptySeq
    <2>6. /\ Extended(q, z) => Fifo!Extends(q, z)
          /\ Extended(l, z) => Fifo!Extends(l, z)
      BY <2>5, ExtendedExtends
    <2>7. FifoOK(s)' /\ LastKept(s)' /\ Contents(s)' = z
      BY <2>2, <2>4 DEF FifoOK, LastKept, Contents, Count
    <2>8. Fifo!Rest = l
      BY <2>2, <2>3 DEF Fifo!Rest
    <2>9. CASE z = <<>> /\ s'.last = <<>> /\ s'.epoch = 1 - s.epoch
      BY <2>7, <2>9 DEF Fifo!Next, Fifo!Clear
    <2>10. CASE /\ s'.epoch = s.epoch /\ s'.last = s.last
                /\ z = q \/ (Len(q) < FIFOSIZE /\ Extended(q, z))
      BY <2>2, <2>6, <2>7, <2>10 DEF Fifo!Next, Fifo!Put
    <2>11. CASE /\ s'.epoch = s.epoch
                /\ IF q # <<>> THEN s'.last = <<Head(q)>> ELSE s.last = <<>> \/ s'.last = s.last
                /\ z = l \/ Extended(l, z)
      <3>1. Fifo!Delivers
        BY <2>2, <2>11 DEF Fifo!Delivers
      <3> QED
        BY <2>6, <2>7, <2>8, <2>11, <3>1 DEF Fifo!Next, Fifo!Get, Fifo!Turn
    <2> QED
      BY <2>4, <2>7, <2>9, <2>10, <2>11
  <1>3. Init /\ [][Next]_vars => []Inv
    <2>1. Init /\ [][Next]_vars => [](TypeInv /\ Directed(s, spoilt))
      BY LptInvariant DEF Spec
    <2>2. Inv /\ (TypeInv /\ Directed(s, spoilt)) /\ [Next]_vars => Inv'
      BY <1>2
    <2> QED
      BY <1>1, <2>1, <2>2, PTL
  <1>4. (TypeInv /\ Directed(s, spoilt)) /\ Inv /\ [Next]_vars => [Fifo!Next]_seen
    BY <1>2
  <1>5. Init /\ [][Next]_vars => Fifo!Init /\ [][Fifo!Next]_seen
    <2> HIDE DEF Inv, seen
    <2> QED
      BY <1>1, <1>3, <1>4, LptInvariant, PTL DEF Spec
  <1> QED
    BY <1>5 DEF Spec, FifoQueue, Fifo!Spec

-----------------------------------------------------------------------------
(***************************************************************************)
(* The words over the cable.  HostInv is about both programs that move     *)
(* words; OutInv(g) and InInv(g) follow a word from the packet to the      *)
(* peripheral and back, g being the words handed over, of which got holds  *)
(* what arrives there.                                                     *)
(***************************************************************************)
Wired(r) == r.Feature = {} /\ r.DDRB = 2..5 /\ r.DDRC = {0}

HostInv ==
    profile \in {"ecpout", "ecpin"} =>
        /\ PendingByte = 0 /\ host.tog = ExpectEP1OutToken /\ host.last = <<>>
        /\ job.src = "none" => job.data = <<>>
        /\ Wired(s)

\* Words on their way: with the peripheral, on the lines, in the FIFO.
\* Lines is OnLines for registers whose drivers are as Wired says.
Lines(r, y) ==
    IF r.mode = 3 /\ STB \notin r.PORTB /\ 5 \notin y.C
    THEN <<r.PORTD \cup IF AF \in r.PORTB THEN {8} ELSE {}>> ELSE <<>>
Flow(g, r, y) == (g \o Lines(r, y)) \o Contents(r)

OutInv(g) ==
    profile = "ecpout" =>
        /\ got = Arriving(g)
        /\ 5 \notin s.DCR /\ s.DDRD = Byte /\ s.mode \in {1, 2, 3}
        /\ s.mode = 1 => /\ STB \in s.PORTB /\ words = <<>> /\ g = <<>>
                         /\ Contents(s) = <<>>
        /\ \/ job.data = <<>> /\ words = Flow(g, s, x)
           \/ job.data \in {<<10, 64>>, <<10, 96>>} /\ s.mode = 1
           \/ /\ s.mode # 1 /\ 1 \notin s.ECR
              /\ job.data \in Word1(Len(words))
              /\ words = Append(Flow(g, s, x), WordOf(job.data))

\* The peripheral offers a word, and the FIFO has not taken it yet.
Offered == AF \in s.PORTB \/ 4 \notin x.C
OfferedWord == x.D \cup IF 5 \in x.C THEN {8} ELSE {}

InInv(g) ==
    profile = "ecpin" =>
        /\ got = Arriving(g)
        /\ 5 \notin s.DCR => /\ s.mode \in {1, 3} /\ STB \in s.PORTB /\ 4 \in x.C
                             /\ words = <<>> /\ g = <<>> /\ Contents(s) = <<>>
                             /\ job.data \in {<<>>, <<10, 96>>, <<2, 34>>}
                             /\ job.data = <<10, 96>> => s.mode = 1
                             /\ job.data = <<2, 34>> => s.mode = 3
        /\ 5 \in s.DCR => /\ s.mode = 3 /\ s.DDRD = {} /\ job.data \in {<<>>, <<24>>}
                          /\ ~Offered => words = g \o Contents(s)
                          /\ Offered => words = Append(g \o Contents(s), OfferedWord)

\* What arrives of a word, and of words one after the other.
Part(w) == IF profile = "ecpout" /\ s.mode = 3 THEN w ELSE w \cap Byte

LEMMA ArrivingWords ==
    ASSUME NEW g \in Seq(Word)
    PROVE  /\ Arriving(g) \in Seq(Word) /\ Len(Arriving(g)) = Len(g)
           /\ \A i \in 1..Len(g) : Arriving(g)[i] = Part(g[i])
  <1>1. CASE profile = "ecpout" /\ s.mode = 3
    BY <1>1 DEF Arriving, Part
  <1>2. CASE ~(profile = "ecpout" /\ s.mode = 3)
    <2>1. PICK n \in Nat : n = Len(g) /\ DOMAIN g = 1..n
      BY LenProperties
    <2>2. Arriving(g) = [i \in 1..n |-> g[i] \cap Byte]
      BY <1>2, <2>1 DEF Arriving
    <2>3. \A i \in 1..n : g[i] \cap Byte \in Word
      BY DEF Word, Byte
    <2>4. Arriving(g) \in [1..n -> Word]
      BY <2>2, <2>3
    <2>5. Arriving(g) \in Seq(Word) /\ DOMAIN Arriving(g) = 1..n
      BY <2>1, <2>4, SeqDef
    <2>6. Len(Arriving(g)) = n
      <3>1. PICK l \in Nat : l = Len(Arriving(g)) /\ 1..l = 1..n
        BY <2>5, LenProperties
      <3> QED
        BY <2>1, <3>1
    <2> QED
      BY <1>2, <2>1, <2>2, <2>5, <2>6 DEF Part
  <1> QED
    BY <1>1, <1>2

LEMMA ArrivingNone == Arriving(<<>>) = <<>>
  <1>1. <<>> \in Seq(Word) /\ Len(<<>>) = 0
    BY EmptySeq
  <1>2. Arriving(<<>>) \in Seq(Word) /\ Len(Arriving(<<>>)) = 0
    BY <1>1, ArrivingWords
  <1> QED
    BY <1>2, EmptySeq

LEMMA ArrivingOne ==
    ASSUME NEW g \in Seq(Word), NEW w \in Word
    PROVE  Arriving(Append(g, w)) = Append(Arriving(g), Part(w))
  <1>1. PICK n \in Nat : n = Len(g)
    BY LenProperties
  <1> DEFINE a == Append(g, w)
             b == Append(Arriving(g), Part(w))
  <1>2. /\ a \in Seq(Word) /\ Len(a) = n + 1 /\ a[n + 1] = w
        /\ \A i \in 1..n : a[i] = g[i]
    BY <1>1, AppendProperties
  <1>3. Part(w) \in Word
    BY DEF Part, Word, Byte
  <1>4. /\ Arriving(g) \in Seq(Word) /\ Len(Arriving(g)) = n
        /\ \A i \in 1..n : Arriving(g)[i] = Part(g[i])
    BY <1>1, ArrivingWords
  <1>5. /\ b \in Seq(Word) /\ Len(b) = n + 1 /\ b[n + 1] = Part(w)
        /\ \A i \in 1..n : b[i] = Arriving(g)[i]
    BY <1>3, <1>4, AppendProperties
  <1> HIDE DEF a, b
  <1>6. /\ Arriving(a) \in Seq(Word) /\ Len(Arriving(a)) = n + 1
        /\ \A i \in 1..n + 1 : Arriving(a)[i] = Part(a[i])
    BY <1>2, ArrivingWords
  <1>7. \A i \in 1..n + 1 : Arriving(a)[i] = b[i]
    BY <1>2, <1>4, <1>5, <1>6
  <1>8. Arriving(a) = b
    BY <1>5, <1>6, <1>7, SeqEqual
  <1> QED
    BY <1>8 DEF a, b

LEMMA ArrivingConcat ==
    ASSUME NEW g \in Seq(Word), NEW h \in Seq(Word)
    PROVE  Arriving(g \o h) = Arriving(g) \o Arriving(h)
  <1>1. PICK n \in Nat, m \in Nat : n = Len(g) /\ m = Len(h)
    BY LenProperties
  <1> DEFINE a == g \o h
             b == Arriving(g) \o Arriving(h)
  <1>2. /\ a \in Seq(Word) /\ Len(a) = n + m
        /\ \A i \in 1..n + m : a[i] = IF i <= n THEN g[i] ELSE h[i - n]
    BY <1>1, ConcatProperties
  <1>3. /\ Arriving(g) \in Seq(Word) /\ Len(Arriving(g)) = n
        /\ Arriving(h) \in Seq(Word) /\ Len(Arriving(h)) = m
        /\ \A i \in 1..n : Arriving(g)[i] = Part(g[i])
        /\ \A i \in 1..m : Arriving(h)[i] = Part(h[i])
    BY <1>1, ArrivingWords
  <1>4. /\ b \in Seq(Word) /\ Len(b) = n + m
        /\ \A i \in 1..n + m : b[i] = IF i <= n THEN Arriving(g)[i] ELSE Arriving(h)[i - n]
    BY <1>3, ConcatProperties
  <1> HIDE DEF a, b
  <1>5. /\ Arriving(a) \in Seq(Word) /\ Len(Arriving(a)) = n + m
        /\ \A i \in 1..n + m : Arriving(a)[i] = Part(a[i])
    BY <1>2, ArrivingWords
  <1>6. ASSUME NEW i \in 1..n + m PROVE Arriving(a)[i] = b[i]
    <2>1. CASE i <= n
      BY <1>2, <1>3, <1>4, <1>5, <2>1
    <2>2. CASE i > n
      <3>1. i - n \in 1..m
        BY <2>2
      <3> QED
        BY <1>2, <1>3, <1>4, <1>5, <2>2, <3>1
    <2> QED
      BY <2>1, <2>2
  <1>7. Arriving(a) = b
    BY <1>4, <1>5, <1>6, SeqEqual
  <1> QED
    BY <1>7 DEF a, b

\* The commands of the two programs.
LEMMA Decoding ==
    /\ Bits(64) = {6} /\ Bits(96) = {5, 6} /\ Bits(34) = {1, 5}
    /\ ModeOf({6}) = 2 /\ ModeOf({5, 6}) = 3
    /\ ~IsIn(0) /\ ~IsIn(2) /\ ~IsIn(8) /\ ~IsIn(10) /\ IsIn(24)
    /\ RegOf[1] = "0" /\ RegOf[3] = "2" /\ RegOf[9] = "400" /\ RegOf[11] = "402"
    /\ RegOf[(24 % 16) + 1] = "400"
  <1>1. \A i \in Byte : Weight[i + 1] = CASE i = 0 -> 1 [] i = 1 -> 2 [] i = 2 -> 4 [] i = 3 -> 8
                                        [] i = 4 -> 16 [] i = 5 -> 32 [] i = 6 -> 64 [] i = 7 -> 128
    BY DEF Weight, Byte
  <1>2. \A i \in Byte : (64 \div Weight[i + 1]) % 2 = 1 <=> i = 6
    BY <1>1 DEF Byte
  <1>3. \A i \in Byte : (96 \div Weight[i + 1]) % 2 = 1 <=> i \in {5, 6}
    BY <1>1 DEF Byte
  <1>4. \A i \in Byte : (34 \div Weight[i + 1]) % 2 = 1 <=> i \in {1, 5}
    BY <1>1 DEF Byte
  <1>5. Bits(64) = {6} /\ Bits(96) = {5, 6} /\ Bits(34) = {1, 5}
    BY <1>2, <1>3, <1>4 DEF Bits, Byte
  <1>6. ModeOf({6}) = 2 /\ ModeOf({5, 6}) = 3
    BY DEF ModeOf
  <1>7. ~IsIn(0) /\ ~IsIn(2) /\ ~IsIn(8) /\ ~IsIn(10) /\ IsIn(24) /\ (24 % 16) + 1 = 9
    BY DEF IsIn
  <1>8. RegOf[1] = "0" /\ RegOf[3] = "2" /\ RegOf[9] = "400" /\ RegOf[11] = "402"
    BY DEF RegOf
  <1> QED
    BY <1>5, <1>6, <1>7, <1>8

LEMMA TwoBytes ==
    ASSUME PendingByte = 0, NEW c, NEW v, job.data = <<c, v>>
    PROVE  Command = c /\ Rest = <<v>> /\ Head(Rest) = v /\ Tail(Rest) = <<>> /\ Rest # <<>>
  BY DEF Command, Rest

LEMMA OneByte ==
    ASSUME PendingByte = 0, NEW c, job.data = <<c>>
    PROVE  Command = c /\ Rest = <<>>
  BY DEF Command, Rest

\* t has everything of r that the FIFO does not keep.
SameRest(r, t) ==
    /\ t.mode = r.mode /\ t.Feature = r.Feature /\ t.DCR = r.DCR
    /\ t.PORTB = r.PORTB /\ t.PORTC = r.PORTC /\ t.PORTD = r.PORTD
    /\ t.DDRB = r.DDRB /\ t.DDRC = r.DDRC /\ t.DDRD = r.DDRD

LEMMA FifoRest ==
    ASSUME NEW r \in Registers, NEW w \in Word
    PROVE  SameRest(r, PutFifo(r, w)) /\ SameRest(r, GetFifo(r))
  <1>1. SameRest(r, PutFifo(r, w))
    BY DEF PutFifo, Registers, SameRest
  <1>2. SameRest(r, GetFifo(r))
    BY DEF GetFifo, Registers, SameRest
  <1> QED
    BY <1>1, <1>2

\* A change of mode that does not take the direction with it.
LEMMA ModeRest ==
    ASSUME NEW r \in Registers, NEW b \in SUBSET Byte, 5 \notin r.DCR
    PROVE  /\ SameRest([r EXCEPT !.mode = ModeOf(b)], out402(r, b))
           /\ out402(r, b).mode = ModeOf(b)
           /\ Emptied(out402(r, b))
  <1> DEFINE m == ModeOf(b)
             e == (b \cap (3..7)) \cup {0, 2}
             p == m # 4
             n == 1 - r.epoch
             t == [r EXCEPT !.ECR = e, !.mode = m, !.EppTimeOut = p, !.fifor = 0, !.fifow = 0,
                            !.last = <<>>, !.epoch = n]
  <1>1. out402(r, b) = t
    <2>1. t.DCR = r.DCR
      BY DEF Registers
    <2> QED
      BY <2>1 DEF out402, DIRECTION_INPUT
  <1>2. 0 \in e /\ 1 \notin e
    OBVIOUS
  <1> HIDE DEF e, p, m, n
  <1>3. SameRest([r EXCEPT !.mode = m], t) /\ t.mode = m /\ Emptied(t)
    BY <1>2 DEF Registers, SameRest, Emptied
  <1> QED
    BY <1>1, <1>3 DEF m

\* Bit 5 of DCR set, with the drivers that follow from it.
LEMMA InputRest ==
    ASSUME NEW r \in Registers, Wired(r), 5 \notin r.DCR, r.mode = 3
    PROVE  LET t == out2(r, {1, 5})
           IN  /\ Wired(t) /\ t.mode = 3 /\ 5 \in t.DCR /\ t.DDRD = {} /\ AF \notin t.PORTB
               /\ SameFifo(r, t)
  <1> DEFINE d == {1, 5, 6, 7}
             t == [r EXCEPT !.DCR = d]
             u == [t EXCEPT !.DDRD = {}, !.PORTD = Byte]
             c == Shl2(Xor(d, {0, 1, 3}))
             o == [u EXCEPT !.PORTB = c]
  <1>1. ({1, 5} \cup {6, 7}) \ (IF r.mode \in Outward THEN {5} ELSE {}) = d
    BY DEF Outward
  <1>2. ~DirectIO(r) /\ 2 \notin r.Feature /\ 5 \in Xor(d, r.DCR)
    BY DEF Wired, DirectIO, Xor
  <1>11. d \in SUBSET Byte /\ 5 \in d
    BY DEF Byte
  <1>3. t \in Registers /\ DIRECTION_INPUT(t)
    BY SMTT(60), <1>11 DEF Registers, DIRECTION_INPUT
  <1>4. LptSetDataDir(t) = u
    BY <1>3 DEF LptSetDataDir
  <1>5. out2(r, {1, 5}) = [u EXCEPT !.PORTB = c, !.DDRB = @]
    BY <1>1, <1>2, <1>4 DEF out2
  <1>6. u \in Registers
    BY <1>3, <1>4, LptSetDataDirType
  <1>7. [u EXCEPT !.PORTB = c, !.DDRB = @] = o
    BY <1>6 DEF Registers
  <1>8. AF \notin c
    BY DEF Shl2, Xor, AF
  <1> HIDE DEF c
  <1>9. /\ u.mode = 3 /\ u.DCR = d /\ u.Feature = {} /\ u.DDRB = 2..5 /\ u.DDRC = {0}
        /\ u.DDRD = {} /\ SameFifo(r, u)
    BY DEF Registers, SameFifo, Wired
  <1> HIDE DEF u
  <1>10. /\ o.mode = 3 /\ o.DCR = d /\ o.Feature = {} /\ o.DDRB = 2..5 /\ o.DDRC = {0}
         /\ o.DDRD = {} /\ SameFifo(u, o) /\ o.PORTB = c
    BY <1>6, <1>9 DEF Registers, SameFifo
  <1> HIDE DEF o
  <1> QED
    BY <1>5, <1>7, <1>8, <1>9, <1>10 DEF Wired, SameFifo

LEMMA BootRest ==
    LET t == Boot({})
    IN  /\ Wired(t) /\ t.mode = 1 /\ 5 \notin t.DCR /\ t.DDRD = Byte /\ STB \in t.PORTB
  <1> DEFINE r == [data_byte |-> {}, DCR |-> {2, 3, 6, 7}, ECR |-> {0}, mode |-> 0,
                   EppTimeOut |-> FALSE, Feature |-> {},
                   Fifo |-> [i \in 0..FIFOSIZE - 1 |-> {}], fifor |-> 0, fifow |-> 0,
                   last |-> <<>>, epoch |-> 1,
                   PORTB |-> {}, PORTC |-> {}, PORTD |-> {},
                   DDRB |-> {}, DDRC |-> {}, DDRD |-> {}]
             u == LptOn(r)
  <1>1. {2, 3, 6, 7} \in SUBSET Byte /\ {0} \in SUBSET Byte /\ {5} \in SUBSET Byte
        /\ {} \in SUBSET Byte /\ {} \in Word /\ 0 \in 0..FIFOSIZE - 1 /\ 0 \in 0..7
        /\ <<>> \in Seq(Word)
    BY FifoAssumption, EmptySeq DEF Byte, Word
  <1>2. r \in Registers
    BY <1>1 DEF Registers
  <1>3. LptSetDataDir(r) = [r EXCEPT !.PORTD = {}, !.DDRD = Byte]
    BY DEF LptSetDataDir, DIRECTION_INPUT, OpenDrain
  <1>4. STB \in Shl2(Xor({2, 3, 6, 7}, {0, 1, 3}))
    BY DEF STB, Shl2, Xor, Byte
  <1>5. u.Feature = {} /\ u.DDRB = 2..5 /\ u.DDRC = {0} /\ u.DCR = {2, 3, 6, 7}
        /\ u.DDRD = Byte /\ STB \in u.PORTB
    BY ZenonT(60), <1>3, <1>4 DEF LptOn
  <1>6. u \in Registers
    BY <1>2, LptOnType
  <1>7. Boot({}) = out402(u, {5})
    BY DEF Boot
  <1>8. ModeOf({5}) = 1
    BY DEF ModeOf
  <1> HIDE DEF u
  <1>9. SameRest([u EXCEPT !.mode = 1], Boot({})) /\ Boot({}).mode = 1
    BY <1>1, <1>5, <1>6, <1>7, <1>8, ModeRest
  <1> QED
    BY <1>5, <1>6, <1>9 DEF SameRest, Wired, Registers

LEMMA HeadAndTail ==
    ASSUME NEW S, NEW c \in Seq(S), c # <<>>
    PROVE  <<Head(c)>> \o Tail(c) = c
  <1>1. PICK n \in Nat \ {0} : n = Len(c)
    BY EmptySeq
  <1>2. 1 \in 1..n /\ n \in 1..n
    BY <1>1
  <1>3. SubSeq(c, 1, n) = <<c[1]>> \o SubSeq(c, 2, n)
    BY <1>1, <1>2, SubSeqRecursiveFirst
  <1>4. SubSeq(c, 1, n) = c /\ SubSeq(c, 2, n) = Tail(c) /\ c[1] = Head(c)
    BY <1>1, SubSeqFull, TailIsSubSeq
  <1> QED
    BY <1>3, <1>4

LEMMA HeadFirst ==
    ASSUME NEW g \in Seq(Word), NEW c \in Seq(Word), c # <<>>
    PROVE  (g \o <<Head(c)>>) \o Tail(c) = (g \o <<>>) \o c
  <1>1. Head(c) \in Word /\ Tail(c) \in Seq(Word)
    BY HeadTailProperties
  <1>2. <<Head(c)>> \in Seq(Word)
    BY <1>1
  <1>3. <<Head(c)>> \o Tail(c) = c
    BY HeadAndTail
  <1>4. (g \o <<Head(c)>>) \o Tail(c) = g \o (<<Head(c)>> \o Tail(c))
    BY <1>1, <1>2, ConcatAssociative
  <1> QED
    BY <1>3, <1>4, ConcatEmptySeq

LEMMA LinesType ==
    ASSUME NEW r \in Registers, NEW y
    PROVE  Lines(r, y) \in Seq(Word)
  <1>1. r.PORTD \cup (IF AF \in r.PORTB THEN {8} ELSE {}) \in Word
    BY DEF Registers, Byte, Word
  <1>2. <<>> \in Seq(Word)
    BY EmptySeq
  <1> QED
    BY <1>1, <1>2 DEF Lines

\* A word more in the FIFO is a word more on its way.
LEMMA FlowPut ==
    ASSUME NEW r \in Registers, FifoOK(r), NEW w \in Word, 1 \notin r.ECR,
           NEW g \in Seq(Word), NEW y
    PROVE  Flow(g, PutFifo(r, w), y) = Append(Flow(g, r, y), w)
  <1>1. Lines(PutFifo(r, w), y) = Lines(r, y)
    BY FifoRest DEF Lines, SameRest
  <1>2. Contents(PutFifo(r, w)) = Append(Contents(r), w)
    BY PutContents
  <1> DEFINE a == g \o Lines(r, y)
             c == Contents(r)
  <1>3. a \in Seq(Word)
    BY LinesType, ConcatProperties
  <1>4. c \in Seq(Word) /\ <<w>> \in Seq(Word)
    BY ContentsShape
  <1>5. Flow(g, r, y) = a \o c /\ Flow(g, PutFifo(r, w), y) = a \o Append(c, w)
    BY <1>1, <1>2 DEF Flow
  <1> HIDE DEF a, c
  <1>6. a \o c \in Seq(Word)
    BY <1>3, <1>4, ConcatProperties
  <1>7. Append(c, w) = c \o <<w>> /\ Append(a \o c, w) = (a \o c) \o <<w>>
    BY <1>4, <1>6, AppendIsConcat
  <1>8. (a \o c) \o <<w>> = a \o (c \o <<w>>)
    BY <1>3, <1>4, ConcatAssociative
  <1> QED
    BY <1>5, <1>7, <1>8

\* The levels at the pins, with the drivers as Wired says.
LEMMA Levels ==
    ASSUME NEW r \in Registers, NEW y \in CableLevels, Wired(r)
    PROVE  /\ STB \in PINB(r, y) <=> STB \in r.PORTB
           /\ AF \in PINB(r, y) <=> AF \in r.PORTB
           /\ BSY(r, y) <=> 5 \in y.C
           /\ ACK(r, y) <=> 4 \in y.C
           /\ r.DDRD = Byte => PIND(r, y) = r.PORTD
           /\ r.DDRD = {} => PIND(r, y) = y.D
  <1>1. r.PORTD \in SUBSET Byte /\ y.D \in SUBSET Byte
    BY DEF Registers, CableLevels
  <1>2. /\ r.DDRD = Byte => PIND(r, y) = r.PORTD
        /\ r.DDRD = {} => PIND(r, y) = y.D
    BY <1>1 DEF PIND, Pin
  <1>3. /\ STB \in PINB(r, y) <=> STB \in r.PORTB
        /\ AF \in PINB(r, y) <=> AF \in r.PORTB
    BY DEF PINB, Pin, Wired, STB, AF
  <1>4. (BSY(r, y) <=> 5 \in y.C) /\ (ACK(r, y) <=> 4 \in y.C)
    BY DEF BSY, ACK, PINC, Pin, Wired
  <1> QED
    BY <1>2, <1>3, <1>4

\* A word comes out of the FIFO and goes to the lines: EcpOut takes it.
LEMMA EcpOutFlow ==
    ASSUME NEW r \in Registers, x \in CableLevels, FifoOK(r), Wired(r), r.DDRD = Byte,
           r.mode = 3, NEW g \in Seq(Word)
    PROVE  /\ Flow(g, EcpOut(r), x) = Flow(g, r, x)
           /\ Wired(EcpOut(r)) /\ EcpOut(r).mode = 3 /\ EcpOut(r).DDRD = Byte
           /\ EcpOut(r).DCR = r.DCR
  <1> DEFINE h == FifoWord(r)
             q == GetFifo(r)
             d == h \cap Byte
             b == (q.PORTB \cap {4, 5}) \cup IF 8 \in h THEN {AF} ELSE {}
             t == [q EXCEPT !.PORTD = d, !.PORTB = b]
             c == r.PORTB \cup {STB}
             u == [r EXCEPT !.PORTB = c]
  <1>1. q \in Registers /\ SameRest(r, q) /\ h \in Word
    BY GetFifoType, FifoRest
  <1>2. BSY(r, x) <=> 5 \in x.C
    BY Levels
  <1>3. /\ STB \in r.PORTB /\ (0 \in r.ECR \/ 5 \in x.C) => EcpOut(r) = r
        /\ STB \in r.PORTB /\ 0 \notin r.ECR /\ 5 \notin x.C => EcpOut(r) = t
        /\ STB \notin r.PORTB /\ 5 \in x.C => EcpOut(r) = u
        /\ STB \notin r.PORTB /\ 5 \notin x.C => EcpOut(r) = r
    <2>1. t = [q EXCEPT !.PORTD = d, !.PORTB = (@ \cap {4, 5}) \cup IF 8 \in h THEN {AF} ELSE {}]
      BY <1>1 DEF Registers
    <2>2. u = [r EXCEPT !.PORTB = @ \cup {STB}]
      BY DEF Registers
    <2> QED
      BY <1>2, <2>1, <2>2 DEF EcpOut
  <1>4. CASE STB \in r.PORTB /\ 0 \notin r.ECR /\ 5 \notin x.C
    <2>1. STB \notin b /\ (AF \in b <=> 8 \in h)
      BY DEF STB, AF
    <2>2. d \cup (IF 8 \in h THEN {8} ELSE {}) = h
      BY <1>1 DEF Word, Byte
    <2>3. /\ t.mode = 3 /\ t.PORTB = b /\ t.PORTD = d /\ t.DCR = r.DCR
          /\ t.DDRD = Byte /\ Wired(t) /\ SameFifo(q, t)
      <3> HIDE DEF q, b, d, h
      <3> QED
        BY <1>1 DEF Registers, Wired, SameRest, SameFifo
    <2>4. Contents(t) = Tail(Contents(r)) /\ Contents(r) # <<>> /\ Head(Contents(r)) = h
      BY <1>4, <2>3, GetContents, SameContents
    <2> HIDE DEF t, b, d, h
    <2>5. Lines(t, x) = <<h>> /\ Lines(r, x) = <<>>
      BY <1>4, <2>1, <2>2, <2>3 DEF Lines
    <2>6. Contents(r) \in Seq(Word)
      BY ContentsShape
    <2>7. Flow(g, t, x) = Flow(g, r, x)
      BY <2>4, <2>5, <2>6, HeadFirst DEF Flow
    <2> QED
      BY <1>3, <1>4, <2>3, <2>7
  <1>5. CASE STB \notin r.PORTB /\ 5 \in x.C
    <2>1. /\ u.mode = 3 /\ u.DCR = r.DCR /\ u.DDRD = Byte /\ Wired(u) /\ SameFifo(r, u)
      BY DEF Registers, Wired, SameFifo
    <2>2. Lines(u, x) = <<>> /\ Lines(r, x) = <<>>
      BY <1>5 DEF Lines
    <2>3. Contents(u) = Contents(r)
      BY <2>1, SameContents
    <2> QED
      BY <1>3, <1>5, <2>1, <2>2, <2>3 DEF Flow
  <1>6. CASE EcpOut(r) = r
    BY <1>6
  <1> QED
    BY <1>3, <1>4, <1>5, <1>6

\* The program that sends: what a packet, and the command in it, do.
LEMMA OutPacket ==
    ASSUME TypeInv, FifoOK(s), HostInv, NEW g \in Seq(Word), OutInv(g), profile = "ecpout", Packet
    PROVE  HostInv' /\ OutInv(g)'
  <1>1. /\ job.data = <<>> /\ words = Flow(g, s, x) /\ words \in Seq(Word)
        /\ s.mode \in {1, 2, 3} /\ got = Arriving(g)
        /\ PendingByte = 0 /\ host.tog = ExpectEP1OutToken /\ Wired(s)
    <2>1. /\ job.data = <<>> /\ PendingByte = 0 /\ host.tog = ExpectEP1OutToken /\ Wired(s)
          /\ words \in Seq(Word)
      BY DEF Packet, HostInv, TypeInv
    <2>2. \A n : job.data \notin Word1(n)
      BY <2>1 DEF Word1
    <2>3. job.data \notin {<<10, 64>>, <<10, 96>>}
      BY <2>1
    <2> QED
      BY <2>1, <2>2, <2>3 DEF OutInv
  <1>2. PICK p \in Packets :
           /\ Sent(p) /\ usbFunctionWriteOut(host.tog, p)
           /\ host' = [host EXCEPT !.tog = 1 - @, !.last = IF profile = "stream" THEN p ELSE <<>>]
    BY DEF Packet
  <1>3. UNCHANGED <<profile, s, x, PendingByte, got>>
    BY DEF Packet
  <1>10. Arriving(g)' = Arriving(g)
    BY <1>3 DEF Arriving
  <1>4. p # <<>> /\ \/ s.mode = 1 /\ p \in {<<10, 64>>, <<10, 96>>}
                    \/ s.mode # 1 /\ 1 \notin s.ECR /\ p \in Word1(Len(words) + 1)
    <2>1. CASE s.mode = 1
      <3>1. Packets = {<<10, 64>>, <<10, 96>>}
        BY ZenonT(60), <2>1 DEF Packets
      <3>2. p \in {<<10, 64>>, <<10, 96>>}
        BY <1>2, <3>1
      <3>3. p # <<>>
        <4>1. <<10, 64>> # <<>> /\ <<10, 96>> # <<>>
          OBVIOUS
        <4> QED
          BY Zenon, <3>2, <4>1
      <3> QED
        BY <2>1, <3>2, <3>3
    <2>2. CASE s.mode # 1
      <3>1. 1 \notin s.ECR /\ p \in Word1(Len(words) + 1)
        BY <1>2, <2>2 DEF Packets
      <3> QED
        BY <2>2, <3>1 DEF Word1
    <2> QED
      BY <2>1, <2>2
  <1>5. /\ ExpectEP1OutToken' = 1 - host.tog
        /\ job' = [src |-> "ep1", data |-> p, out |-> <<>>]
    BY <1>1, <1>2, <1>4 DEF usbFunctionWriteOut, ProcessInOut
  <1>6. host'.tog = 1 - host.tog /\ host'.last = <<>>
    BY <1>2 DEF TypeInv
  <1>7. HostInv'
    BY <1>1, <1>3, <1>5, <1>6 DEF HostInv, Wired
  <1>8. CASE s.mode = 1
    <2>1. p \notin Word1(p[2])
      BY <1>4, <1>8 DEF Word1
    <2>2. words' = words
      BY <1>2, <2>1 DEF Sent
    <2>3. Contents(s)' = Contents(s)
      BY <1>3 DEF Contents, Count
    <2>4. /\ STB \in s.PORTB /\ words = <<>> /\ g = <<>> /\ Contents(s) = <<>>
          /\ 5 \notin s.DCR /\ s.DDRD = Byte
      BY <1>8 DEF OutInv
    <2>5. job'.data \in {<<10, 64>>, <<10, 96>>}
      BY <1>4, <1>5, <1>8
    <2>6. OutInv(g)'
      BY <1>1, <1>3, <1>8, <1>10, <2>2, <2>3, <2>4, <2>5 DEF OutInv
    <2> QED
      BY <1>7, <2>6
  <1>9. CASE s.mode # 1
    <2>1. p \in Word1(Len(words) + 1) /\ 1 \notin s.ECR
      BY <1>4, <1>9
    <2>2. p[2] = Len(words) + 1
      BY <2>1 DEF Word1
    <2>3. words' = Append(words, WordOf(p))
      BY <1>2, <2>1, <2>2 DEF Sent
    <2>4. Len(words') = Len(words) + 1
      <3>1. WordOf(p) \in Word
        BY DEF WordOf, Bits, Word, Byte
      <3> QED
        BY <1>1, <2>3, <3>1, AppendProperties
    <2>5. Flow(g, s, x)' = words
      BY <1>1, <1>3 DEF Flow, Lines, Contents, Count
    <2>6. job'.data = p /\ WordOf(job.data)' = WordOf(p)
      BY <1>5 DEF WordOf, Bits
    <2>7. words' = Append(Flow(g, s, x)', WordOf(job.data)') /\ job'.data \in Word1(Len(words'))
      BY <2>1, <2>3, <2>4, <2>5, <2>6
    <2>8. 5 \notin s.DCR /\ s.DDRD = Byte
      BY DEF OutInv
    <2>9. (job.data \in Word1(Len(words)))'
      BY <2>7 DEF Word1
    <2>10. OutInv(g)'
      BY <1>1, <1>3, <1>9, <1>10, <2>1, <2>7, <2>8, <2>9 DEF OutInv
    <2> QED
      BY <1>7, <2>10
  <1> QED
    BY <1>7, <1>8, <1>9

LEMMA OutCommand ==
    ASSUME TypeInv, FifoOK(s), HostInv, NEW g \in Seq(Word), OutInv(g), profile = "ecpout", DoOut
    PROVE  HostInv' /\ OutInv(g)'
  <1>1. s \in Registers /\ x \in CableLevels /\ got = Arriving(g)
    BY DEF TypeInv, OutInv
  <1>2. /\ job.data # <<>> /\ job.src # "none" /\ PendingByte = 0 /\ Wired(s) /\ host.last = <<>>
        /\ host.tog = ExpectEP1OutToken
        /\ 5 \notin s.DCR /\ s.DDRD = Byte /\ s.mode \in {1, 2, 3}
    BY DEF DoOut, Running, HostInv, OutInv
  <1>3. UNCHANGED <<profile, x, ExpectEP1OutToken, host, words, got>> /\ PendingByte' = 0
    BY DEF DoOut
  <1>4. job' = [job EXCEPT !.data = Tail(Rest)] /\ s' = Executed(Command, Head(Rest))
    BY DEF DoOut
  <1>5. CASE job.data \in {<<10, 64>>, <<10, 96>>} /\ s.mode = 1
    <2>1. PICK v \in {64, 96} : job.data = <<10, v>>
      BY <1>5
    <2>2. Command = 10 /\ Head(Rest) = v /\ Tail(Rest) = <<>>
      BY <1>2, <2>1, TwoBytes
    <2>3. s' = out402(s, Bits(v))
      BY <1>4, <2>2, Decoding DEF Executed, setbyte
    <2>4. ModeOf(Bits(v)) \in {2, 3}
      <3>1. CASE v = 64
        BY <3>1, Decoding
      <3>2. CASE v = 96
        BY <3>2, Decoding
      <3> QED
        BY <3>1, <3>2
    <2>5. /\ SameRest([s EXCEPT !.mode = ModeOf(Bits(v))], s') /\ s'.mode \in {2, 3} /\ Emptied(s')
          /\ s' \in Registers
      BY ZenonT(60), <1>1, <1>2, <2>3, <2>4, ModeRest, BitsType, Out402
    <2>6. /\ Wired(s') /\ 5 \notin s'.DCR /\ s'.DDRD = Byte /\ s'.PORTB = s.PORTB
      BY <1>1, <1>2, <2>5 DEF SameRest, Wired, Registers
    <2>7. STB \in s.PORTB /\ words = <<>> /\ g = <<>>
      BY <1>5 DEF OutInv
    <2>8. Contents(s') = <<>> /\ Lines(s', x) = <<>>
      BY <2>5, <2>6, <2>7, EmptiedContents DEF Lines
    <2>9. Flow(g, s, x)' = <<>>
      <3>1. Flow(g, s, x)' = (<<>> \o <<>>) \o <<>>
        BY <1>3, <2>7, <2>8 DEF Flow, Lines, Contents, Count
      <3> QED
        BY <3>1, EmptySeq, ConcatEmptySeq
    <2>10. job'.data = <<>> /\ job'.src = job.src
      BY <1>4, <2>2 DEF TypeInv
    <2>11. HostInv'
      BY <1>2, <1>3, <2>6, <2>10 DEF HostInv, Wired
    <2>13. got' = Arriving(g)'
      BY <1>1, <1>3, <2>7, ArrivingNone DEF Arriving
    <2>12. OutInv(g)'
      BY <1>3, <2>5, <2>6, <2>7, <2>9, <2>10, <2>13 DEF OutInv
    <2> QED
      BY <2>11, <2>12
  <1>6. CASE /\ s.mode # 1 /\ 1 \notin s.ECR
             /\ job.data \in Word1(Len(words))
             /\ words = Append(Flow(g, s, x), WordOf(job.data))
    <2>1. PICK c, v : c \in {8, 0} /\ job.data = <<c, v>>
      BY <1>6 DEF Word1
    <2>2. Command = c /\ Head(Rest) = v /\ Tail(Rest) = <<>>
      BY <1>2, <2>1, TwoBytes
    <2>3. WordOf(job.data) = Bits(v) \cup IF c = 8 THEN {8} ELSE {}
      BY <2>1 DEF WordOf
    <2> DEFINE w == Bits(v) \cup IF c = 8 THEN {8} ELSE {}
    <2>4. w \in Word
      BY DEF Bits, Word, Byte
    <2>5. s.mode \in Fifos
      BY <1>2, <1>6 DEF Fifos
    <2>6. s' = PutFifo(s, w)
      <3>1. CASE c = 8
        <4>1. s' = out400(s, Bits(v))
          BY <1>4, <2>2, <3>1, Decoding DEF Executed, setbyte
        <4> QED
          BY <2>5, <3>1, <4>1 DEF out400
      <3>2. CASE c = 0
        <4>1. s' = out0(s, Bits(v))
          BY <1>4, <2>2, <3>2, Decoding DEF Executed, setbyte
        <4>2. w = Bits(v)
          BY <3>2
        <4> QED
          BY <2>5, <3>2, <4>1, <4>2 DEF out0
      <3> QED
        BY <2>1, <3>1, <3>2
    <2> HIDE DEF w
    <2>7. SameRest(s, s')
      BY <1>1, <2>4, <2>6, FifoRest
    <2>8. Flow(g, s', x) = words
      <3>1. words = Append(Flow(g, s, x), w)
        BY <1>6, <2>3 DEF w
      <3>2. Flow(g, PutFifo(s, w), x) = Append(Flow(g, s, x), w)
        BY <1>1, <1>6, <2>4, FlowPut
      <3> QED
        BY <2>6, <3>1, <3>2
    <2>9. Flow(g, s, x)' = words
      BY <1>3, <2>8 DEF Flow, Lines, Contents, Count
    <2>10. job'.data = <<>> /\ job'.src = job.src
      BY <1>4, <2>2 DEF TypeInv
    <2>11. HostInv'
      BY <1>2, <1>3, <2>7, <2>10 DEF HostInv, Wired, SameRest
    <2>13. got' = Arriving(g)'
      BY <1>1, <1>3, <2>7 DEF Arriving, SameRest
    <2>12. OutInv(g)'
      BY <1>2, <1>3, <1>6, <2>7, <2>9, <2>10, <2>13 DEF OutInv, SameRest
    <2> QED
      BY <2>11, <2>12
  <1> QED
    BY <1>2, <1>5, <1>6 DEF OutInv

\* A step that leaves packets and commands alone, and every word on its way.
LEMMA OutFrame ==
    ASSUME HostInv, NEW g \in Seq(Word), OutInv(g), profile = "ecpout", words \in Seq(Word),
           NEW h \in Seq(Word), got' = Arriving(h),
           UNCHANGED <<profile, PendingByte, ExpectEP1OutToken, host, words, job>>,
           Wired(s'), s'.DCR = s.DCR, s'.DDRD = s.DDRD, s'.mode = s.mode,
           s.mode = 1 => s' = s /\ h = g,
           job.data = <<>> \/ s'.ECR = s.ECR,
           Flow(h, s', x') = Flow(g, s, x)
    PROVE  HostInv' /\ OutInv(h)'
  <1>1. Flow(h, s, x)' = Flow(g, s, x) /\ Contents(s)' = Contents(s')
    BY DEF Flow, Lines, Contents, Count
  <1>9. got' = Arriving(h)'
    BY DEF Arriving
  <1>2. (job.data \in Word1(Len(words)))' <=> job.data \in Word1(Len(words))
    BY DEF Word1
  <1>3. WordOf(job.data)' = WordOf(job.data)
    BY DEF WordOf, Bits
  <1>4. HostInv'
    BY DEF HostInv, Wired
  <1>5. s.mode = 1 => STB \in s'.PORTB /\ words' = <<>> /\ h = <<>> /\ Contents(s)' = <<>>
    BY <1>1 DEF OutInv
  <1>6. \/ job'.data = <<>> /\ words' = Flow(h, s, x)'
        \/ job'.data \in {<<10, 64>>, <<10, 96>>} /\ s'.mode = 1
        \/ /\ s'.mode # 1 /\ 1 \notin s'.ECR
           /\ (job.data \in Word1(Len(words)))'
           /\ words' = Append(Flow(h, s, x)', WordOf(job.data)')
    <2>1. CASE job.data = <<>> /\ words = Flow(g, s, x)
      BY <1>1, <2>1
    <2>2. CASE job.data \in {<<10, 64>>, <<10, 96>>} /\ s.mode = 1
      BY <2>2
    <2>3. CASE /\ s.mode # 1 /\ 1 \notin s.ECR
               /\ job.data \in Word1(Len(words))
               /\ words = Append(Flow(g, s, x), WordOf(job.data))
      <3>1. job.data # <<>>
        <4>1. \A n : <<>> \notin Word1(n)
          BY DEF Word1
        <4> QED
          BY <2>3, <4>1
      <3> QED
        BY <1>1, <1>2, <1>3, <2>3, <3>1
    <2> QED
      BY <2>1, <2>2, <2>3 DEF OutInv
  <1>7. 5 \notin s'.DCR /\ s'.DDRD = Byte /\ s'.mode \in {1, 2, 3}
    BY DEF OutInv
  <1>8. OutInv(h)'
    BY <1>5, <1>6, <1>7, <1>9 DEF OutInv
  <1> QED
    BY <1>4, <1>8

LEMMA OutTransfer ==
    ASSUME TypeInv, FifoOK(s), HostInv, NEW g \in Seq(Word), OutInv(g), profile = "ecpout",
           SppXfer \/ EcpXfer \/ TakeByte \/ Ready
    PROVE  HostInv' /\ \E h \in Seq(Word) : OutInv(h)'
  <1>1. /\ s \in Registers /\ x \in CableLevels /\ got = Arriving(g) /\ words \in Seq(Word)
        /\ Contents(s) \in Seq(Word)
    BY ContentsShape DEF TypeInv, OutInv
  <1>2. Wired(s) /\ s.DDRD = Byte /\ 5 \notin s.DCR
    BY DEF HostInv, OutInv
  <1>3. /\ Level(STB) <=> STB \in s.PORTB
        /\ Level(AF) <=> AF \in s.PORTB
        /\ BSY(s, x) <=> 5 \in x.C
        /\ PIND(s, x) = s.PORTD
    BY <1>1, <1>2, Levels DEF Level
  <1>4. CASE SppXfer
    <2> DEFINE h == FifoWord(s)
               q == GetFifo(s)
               d == h \cap Byte
               b == q.PORTB \cup {STB}
               t == [q EXCEPT !.PORTD = d, !.PORTB = b]
    <2>1. s.mode = 2 /\ 0 \notin s.ECR /\ job.src = "none"
      BY <1>4 DEF SppXfer
    <2>2. q \in Registers /\ SameRest(s, q) /\ h \in Word
      BY <1>1, GetFifoType, FifoRest
    <2>3. s' = t
      BY <1>4, <2>2 DEF SppXfer, Registers
    <2>4. got' = Arriving(Append(g, h))
      <3>1. got' = Append(got, h \cap Byte)
        BY <1>4 DEF SppXfer
      <3> QED
        BY <1>1, <2>1, <2>2, <3>1, ArrivingOne DEF Part
    <2>5. /\ Contents(q) = Tail(Contents(s)) /\ Contents(s) # <<>> /\ Head(Contents(s)) = h
      BY <1>1, <2>1, GetContents
    <2> HIDE DEF q, d, b, h
    <2>6. /\ t.mode = 2 /\ t.DCR = s.DCR /\ t.DDRD = s.DDRD /\ Wired(t) /\ SameFifo(q, t)
      BY <1>2, <2>1, <2>2 DEF Registers, Wired, SameRest, SameFifo
    <2> HIDE DEF t
    <2>7. Contents(t) = Tail(Contents(s))
      BY <2>5, <2>6, SameContents
    <2>8. Lines(t, x') = <<>> /\ Lines(s, x) = <<>>
      BY <2>1, <2>6 DEF Lines
    <2>9. Append(g, h) = g \o <<h>> /\ g \o <<h>> \in Seq(Word)
      <3>1. <<h>> \in Seq(Word)
        BY <2>2
      <3> QED
        BY <1>1, <2>2, <3>1, AppendIsConcat, ConcatProperties
    <2>10. Flow(Append(g, h), t, x') = (g \o <<h>>) \o Tail(Contents(s))
      BY <2>7, <2>8, <2>9, ConcatEmptySeq DEF Flow
    <2>11. (g \o <<h>>) \o Tail(Contents(s)) = Flow(g, s, x)
      BY <1>1, <2>5, <2>8, HeadFirst DEF Flow
    <2>12. job.data = <<>>
      BY <2>1 DEF HostInv
    <2>13. UNCHANGED <<profile, PendingByte, ExpectEP1OutToken, host, words, job>>
      BY <1>4 DEF SppXfer, firmware
    <2>14. /\ Wired(s') /\ s'.DCR = s.DCR /\ s'.DDRD = s.DDRD /\ s'.mode = s.mode
           /\ s.mode # 1 /\ Flow(Append(g, h), s', x') = Flow(g, s, x)
      <3>1. Wired(s') /\ s'.DCR = s.DCR /\ s'.DDRD = s.DDRD
        BY <2>3, <2>6, Zenon
      <3>2. s'.mode = s.mode /\ s.mode # 1
        BY <2>1, <2>3, <2>6
      <3>3. Flow(Append(g, h), s', x') = Flow(g, s, x)
        BY <2>3, <2>10, <2>11, Zenon
      <3> QED
        BY <3>1, <3>2, <3>3
    <2> QED
      <3>1. Append(g, h) \in Seq(Word)
        BY <2>9
      <3> QED
        BY <1>1, <2>4, <2>12, <2>13, <2>14, <3>1, OutFrame
  <1>5. CASE EcpXfer
    <2>1. s.mode = 3 /\ s' = EcpOut(s) /\ job.src = "none"
      BY <1>2, <1>5 DEF EcpXfer, DIRECTION_INPUT
    <2>2. UNCHANGED <<profile, PendingByte, ExpectEP1OutToken, host, words, job, x, got>>
      BY <1>5 DEF EcpXfer, firmware
    <2>3. /\ Flow(g, s', x') = Flow(g, s, x) /\ got' = Arriving(g)
          /\ Wired(s') /\ s'.mode = 3 /\ s'.DDRD = Byte /\ s'.DCR = s.DCR
      BY <1>1, <1>2, <2>1, <2>2, EcpOutFlow
    <2>4. job.data = <<>>
      BY <2>1 DEF HostInv
    <2>5. UNCHANGED <<profile, PendingByte, ExpectEP1OutToken, host, words, job>>
      BY <2>2
    <2>6. s'.DDRD = s.DDRD /\ s'.mode = s.mode /\ s.mode # 1
      BY <1>2, <2>1, <2>3
    <2>7. (s.mode = 1 => s' = s /\ g = g) /\ (job.data = <<>> \/ s'.ECR = s.ECR)
      BY <2>4, <2>6
    <2> QED
      BY <1>1, <2>3, <2>5, <2>6, <2>7, OutFrame
  <1>6. CASE TakeByte
    <2> DEFINE l == s.PORTD \cup IF AF \in s.PORTB THEN {8} ELSE {}
    <2>1. s.mode = 3 /\ STB \notin s.PORTB /\ 5 \notin x.C
      BY <1>3, <1>6 DEF TakeByte
    <2>2. got' = Append(got, l) /\ l \in Word
      <3>1. got' = Append(got, l)
        BY <1>3, <1>6 DEF TakeByte
      <3>2. l \in Word
        BY <1>1 DEF Registers, Word, Byte
      <3> QED
        BY <3>1, <3>2
    <2>3. Lines(s, x) = <<l>>
      BY <2>1 DEF Lines
    <2>4. x' = BusyCable /\ 5 \in x'.C
      BY <1>1, <1>6 DEF TakeByte, BusyCable, CableLevels
    <2> HIDE DEF l
    <2>5. Lines(s, x') = <<>>
      BY <2>4 DEF Lines
    <2>6. Append(g, l) = g \o <<l>> /\ g \o <<l>> \in Seq(Word)
      <3>1. <<l>> \in Seq(Word)
        BY <2>2
      <3> QED
        BY <1>1, <2>2, <3>1, AppendIsConcat, ConcatProperties
    <2>7. Flow(Append(g, l), s, x') = Flow(g, s, x) /\ got' = Arriving(Append(g, l))
      <3>1. Flow(Append(g, l), s, x') = Flow(g, s, x)
        BY <2>2, <2>3, <2>5, <2>6, ConcatEmptySeq DEF Flow
      <3>2. Arriving(Append(g, l)) = Append(got, l)
        BY <1>1, <2>1, <2>2, ArrivingOne DEF Part
      <3> QED
        BY <2>2, <3>1, <3>2
    <2>8. UNCHANGED <<profile, s, PendingByte, ExpectEP1OutToken, host, words, job>>
      BY <1>6 DEF TakeByte, firmware
    <2> QED
      <3>1. Append(g, l) \in Seq(Word)
        BY <2>6
      <3>2. /\ Wired(s') /\ s'.DCR = s.DCR /\ s'.DDRD = s.DDRD /\ s'.mode = s.mode
            /\ s'.ECR = s.ECR /\ s.mode # 1 /\ Flow(Append(g, l), s', x') = Flow(g, s, x)
        BY <1>2, <2>1, <2>7, <2>8
      <3> QED
        BY <1>1, <2>7, <2>8, <3>1, <3>2, OutFrame
  <1>7. CASE Ready
    <2>1. STB \in s.PORTB
      BY <1>3, <1>7 DEF Ready
    <2>2. UNCHANGED <<profile, s, PendingByte, ExpectEP1OutToken, host, words, job, got>>
      BY <1>7 DEF Ready, firmware, history
    <2>3. Lines(s, x') = Lines(s, x)
      BY <2>1 DEF Lines
    <2>4. Flow(g, s, x') = Flow(g, s, x) /\ got' = Arriving(g)
      BY <1>1, <2>2, <2>3 DEF Flow
    <2> QED
      BY <1>1, <1>2, <2>2, <2>4, OutFrame
  <1> QED
    BY <1>4, <1>5, <1>6, <1>7

\* Every step while the program sends.
LEMMA OutStep ==
    ASSUME TypeInv, FifoOK(s), HostInv, NEW g \in Seq(Word), OutInv(g), profile = "ecpout",
           [Next]_vars
    PROVE  HostInv' /\ \E h \in Seq(Word) : OutInv(h)'
  <1>1. PendingByte = 0 /\ host.last = <<>> /\ Wired(s) /\ words \in Seq(Word)
    BY DEF HostInv, TypeInv
  <1>2. job.data # <<>> => ~IsIn(Command) /\ Rest # <<>> /\ ~Waits(Command, Head(Rest))
    <2> SUFFICES ASSUME job.data # <<>> PROVE ~IsIn(Command) /\ Rest # <<>> /\ Command # 36
      BY DEF Waits
    <2>1. PICK c, v : c \in {0, 8, 10} /\ job.data = <<c, v>>
      BY DEF OutInv, Word1
    <2> QED
      BY <1>1, <2>1, TwoBytes, Decoding
  <1>3. ~DoIn /\ ~DoHalf /\ ~waitbit
    BY <1>2 DEF DoIn, DoHalf, waitbit, Running
  <1>4. ~Repeat /\ ~SetupCommands /\ ~SetupRegister /\ ~Restart /\ ~Cable
        /\ ~Offer /\ ~EndOffer
    BY <1>1 DEF Repeat, SetupCommands, SetupRegister, Restart, Cable, Offer, EndOffer
  <1>5. CASE UNCHANGED <<profile, s, x, job, PendingByte, ExpectEP1OutToken, host, words, got>>
    <2>1. got' = Arriving(g)
      BY <1>5 DEF OutInv
    <2> QED
      BY <1>1, <1>5, <2>1, OutFrame
  <1>6. CASE Return
    <2>1. UNCHANGED <<profile, s, x, PendingByte, ExpectEP1OutToken, host, words, got>>
          /\ job' = Idle /\ job.data = <<>>
      BY <1>6 DEF Return, history
    <2>2. job'.data = <<>>
      BY <2>1 DEF Idle
    <2>3. HostInv'
      BY <2>1, <2>2 DEF HostInv, Wired
    <2>4. \A n : job.data \notin Word1(n)
      BY <2>1 DEF Word1
    <2>5. words = Flow(g, s, x)
      BY <2>1, <2>4 DEF OutInv
    <2>6. Flow(g, s, x)' = Flow(g, s, x) /\ Contents(s)' = Contents(s) /\ Arriving(g)' = Arriving(g)
      BY <2>1 DEF Flow, Lines, Contents, Count, Arriving
    <2>7. OutInv(g)'
      BY <2>1, <2>2, <2>5, <2>6 DEF OutInv
    <2> QED
      BY <2>3, <2>7
  <1>7. SaveFeature => UNCHANGED <<profile, s, x, job, PendingByte, ExpectEP1OutToken, host, words, got>>
    BY DEF SaveFeature, firmware, history
  <1>8. UNCHANGED vars => UNCHANGED <<profile, s, x, job, PendingByte, ExpectEP1OutToken, host, words, got>>
    BY DEF vars, firmware, history
  <1> QED
    BY <1>3, <1>4, <1>5, <1>6, <1>7, <1>8, OutPacket, OutCommand, OutTransfer
       DEF Next, MainLoop, Peripheral

\* The program that receives.  Before it has turned the port round nothing
\* moves; what makes the invariant hold again, before and after that.
LEMMA InBefore ==
    ASSUME profile = "ecpin", profile' = "ecpin",
           5 \notin s'.DCR, s'.mode \in {1, 3}, STB \in s'.PORTB, 4 \in x'.C,
           words' = <<>>, NEW g \in Seq(Word), g = <<>>, got' = Arriving(g), Contents(s') = <<>>,
           job'.data \in {<<>>, <<10, 96>>, <<2, 34>>},
           job'.data = <<10, 96>> => s'.mode = 1, job'.data = <<2, 34>> => s'.mode = 3
    PROVE  InInv(g)'
  <1>1. Contents(s)' = Contents(s') /\ Arriving(g)' = Arriving(g)
    BY DEF Contents, Count, Arriving
  <1> QED
    BY <1>1 DEF InInv

LEMMA InAfter ==
    ASSUME profile = "ecpin", profile' = "ecpin",
           5 \in s'.DCR, s'.mode = 3, s'.DDRD = {},
           NEW g \in Seq(Word), got' = Arriving(g), job'.data \in {<<>>, << 24 >>},
           ~Offered' => words' = g \o Contents(s'),
           Offered' => words' = Append(g \o Contents(s'), OfferedWord')
    PROVE  InInv(g)'
  <1>1. Contents(s)' = Contents(s') /\ Arriving(g)' = Arriving(g)
    BY DEF Contents, Count, Arriving
  <1> QED
    BY <1>1 DEF InInv

LEMMA InPacket ==
    ASSUME TypeInv, HostInv, NEW g \in Seq(Word), InInv(g), profile = "ecpin", Packet
    PROVE  HostInv' /\ InInv(g)'
  <1>1. /\ PendingByte = 0 /\ host.tog = ExpectEP1OutToken /\ Wired(s)
    BY DEF HostInv
  <1>2. PICK p \in Packets :
           /\ Sent(p) /\ usbFunctionWriteOut(host.tog, p)
           /\ host' = [host EXCEPT !.tog = 1 - @, !.last = IF profile = "stream" THEN p ELSE <<>>]
    BY DEF Packet
  <1>3. UNCHANGED <<profile, s, x, PendingByte, got, words>>
    BY <1>2 DEF Packet, Sent
  <1>11. got' = Arriving(g)
    BY <1>3 DEF InInv
  <1>4. p # <<>> /\ \/ s.mode = 1 /\ p = <<10, 96>>
                    \/ s.mode # 1 /\ 5 \notin s.DCR /\ p = <<2, 34>>
                    \/ s.mode # 1 /\ 5 \in s.DCR /\ p = <<24>>
    <2>1. /\ s.mode = 1 => Packets = {<<10, 96>>}
          /\ s.mode # 1 /\ 5 \notin s.DCR => Packets = {<<2, 34>>}
          /\ s.mode # 1 /\ 5 \in s.DCR => Packets \subseteq {<< 24 >>}
      BY SMTT(60) DEF Packets
    <2>2. \/ s.mode = 1 /\ p = <<10, 96>>
          \/ s.mode # 1 /\ 5 \notin s.DCR /\ p = <<2, 34>>
          \/ s.mode # 1 /\ 5 \in s.DCR /\ p = << 24 >>
      BY <1>2, <2>1
    <2>3. p # <<>>
      <3>1. <<10, 96>> # <<>> /\ <<2, 34>> # <<>> /\ << 24 >> # <<>>
        OBVIOUS
      <3> QED
        BY Zenon, <2>2, <3>1
    <2> QED
      BY <2>2, <2>3
  <1>5. /\ ExpectEP1OutToken' = 1 - host.tog
        /\ job' = [src |-> "ep1", data |-> p, out |-> <<>>]
    BY <1>1, <1>2, <1>4 DEF usbFunctionWriteOut, ProcessInOut
  <1>6. host'.tog = 1 - host.tog /\ host'.last = <<>>
    BY <1>2 DEF TypeInv
  <1>7. HostInv'
    BY <1>1, <1>3, <1>5, <1>6 DEF HostInv, Wired
  <1>8. job'.data = p
    BY <1>5
  <1>9. CASE 5 \notin s.DCR
    <2>1. /\ s.mode \in {1, 3} /\ STB \in s.PORTB /\ 4 \in x.C
          /\ words = <<>> /\ g = <<>> /\ Contents(s) = <<>>
      BY <1>9 DEF InInv
    <2>2. /\ p \in {<<10, 96>>, <<2, 34>>}
          /\ p = <<10, 96>> => s.mode = 1
          /\ p = <<2, 34>> => s.mode = 3
      BY <1>4, <1>9, <2>1
    <2>3. s' = s /\ x' = x /\ words' = <<>> /\ g = <<>> /\ Contents(s') = <<>>
      BY <1>3, <2>1
    <2> QED
      BY <1>3, <1>7, <1>8, <1>9, <2>1, <2>2, <2>3, <1>11, InBefore
  <1>10. CASE 5 \in s.DCR
    <2>1. /\ s.mode = 3 /\ s.DDRD = {}
          /\ ~Offered => words = g \o Contents(s)
          /\ Offered => words = Append(g \o Contents(s), OfferedWord)
      BY <1>10 DEF InInv
    <2>2. p = <<24>>
      BY <1>4, <1>10, <2>1
    <2>3. s' = s /\ x' = x /\ words' = words
      BY <1>3
    <2>4. (Offered' <=> Offered) /\ OfferedWord' = OfferedWord
      BY <2>3 DEF Offered, OfferedWord
    <2>5. /\ ~Offered' => words' = g \o Contents(s')
          /\ Offered' => words' = Append(g \o Contents(s'), OfferedWord')
      BY <2>1, <2>3, <2>4
    <2> QED
      BY <1>3, <1>7, <1>8, <1>10, <2>1, <2>2, <2>3, <2>5, <1>11, InAfter
  <1> QED
    BY <1>9, <1>10

LEMMA InCommand ==
    ASSUME TypeInv, FifoOK(s), HostInv, NEW g \in Seq(Word), InInv(g), profile = "ecpin",
           DoOut \/ DoIn
    PROVE  HostInv' /\ \E h \in Seq(Word) : InInv(h)'
  <1>1. s \in Registers /\ x \in CableLevels /\ got = Arriving(g) /\ Contents(s) \in Seq(Word)
    BY ContentsShape DEF TypeInv, InInv
  <1>2. /\ job.data # <<>> /\ job.src # "none" /\ PendingByte = 0 /\ Wired(s) /\ host.last = <<>>
        /\ host.tog = ExpectEP1OutToken
    BY DEF DoOut, DoIn, Running, HostInv
  <1>3. UNCHANGED <<profile, x, ExpectEP1OutToken, host, words>> /\ PendingByte' = 0
    BY DEF DoOut, DoIn
  <1>4. DoOut => /\ job' = [job EXCEPT !.data = Tail(Rest)] /\ s' = Executed(Command, Head(Rest))
                 /\ ~IsIn(Command) /\ got' = got
    BY DEF DoOut
  <1>5. ASSUME Wired(s'), job'.data = <<>>, job'.src = job.src PROVE HostInv'
    BY <1>2, <1>3, <1>5 DEF HostInv, Wired
  <1>6. CASE job.data = <<10, 96>> /\ 5 \notin s.DCR
    <2>1. Command = 10 /\ Head(Rest) = 96 /\ Tail(Rest) = <<>>
      BY <1>2, <1>6, TwoBytes
    <2>2. DoOut
      BY <2>1, Decoding DEF DoIn
    <2>3. s' = out402(s, {5, 6})
      <3>1. s' = out402(s, Bits(96))
        BY <1>4, <2>1, <2>2, Decoding DEF Executed, setbyte
      <3> QED
        BY <3>1, Decoding
    <2>4. {5, 6} \in SUBSET Byte
      BY DEF Byte
    <2>5. /\ SameRest([s EXCEPT !.mode = 3], s') /\ s'.mode = 3 /\ Emptied(s') /\ s' \in Registers
      BY <1>1, <1>6, <2>3, <2>4, Decoding, ModeRest, Out402
    <2>6. Wired(s') /\ 5 \notin s'.DCR /\ s'.PORTB = s.PORTB
      BY <1>1, <1>2, <1>6, <2>5 DEF SameRest, Wired, Registers
    <2>7. STB \in s.PORTB /\ 4 \in x.C /\ words = <<>> /\ g = <<>>
      BY <1>6 DEF InInv
    <2>8. Contents(s') = <<>>
      BY <2>5, EmptiedContents
    <2>9. job'.data = <<>> /\ job'.src = job.src
      BY ZenonT(60), <1>4, <2>1, <2>2 DEF TypeInv
    <2>10. got' = Arriving(g)
      BY <1>1, <1>4, <2>2
    <2>11. /\ s'.mode \in {1, 3} /\ STB \in s'.PORTB /\ 4 \in x'.C /\ words' = <<>>
           /\ profile' = "ecpin" /\ job'.data \in {<<>>, <<10, 96>>, <<2, 34>>}
      BY <1>3, <2>5, <2>6, <2>7, <2>9
    <2>12. job'.data # <<10, 96>> /\ job'.data # <<2, 34>>
      BY <2>9
    <2>13. InInv(g)'
      BY <2>6, <2>7, <2>8, <2>10, <2>11, <2>12, InBefore
    <2> QED
      BY <1>5, <2>6, <2>9, <2>13
  <1>7. CASE job.data = <<2, 34>> /\ 5 \notin s.DCR
    <2>1. Command = 2 /\ Head(Rest) = 34 /\ Tail(Rest) = <<>>
      BY <1>2, <1>7, TwoBytes
    <2>2. DoOut
      BY <2>1, Decoding DEF DoIn
    <2>3. s' = out2(s, {1, 5})
      <3>1. s' = out2(s, Bits(34))
        BY <1>4, <2>1, <2>2, Decoding DEF Executed, setbyte
      <3> QED
        BY <3>1, Decoding
    <2>4. /\ s.mode = 3 /\ 4 \in x.C /\ words = <<>> /\ g = <<>> /\ Contents(s) = <<>>
      BY <1>7 DEF InInv
    <2>5. /\ Wired(s') /\ s'.mode = 3 /\ 5 \in s'.DCR /\ s'.DDRD = {} /\ AF \notin s'.PORTB
          /\ SameFifo(s, s')
      BY <1>1, <1>2, <1>7, <2>3, <2>4, InputRest
    <2>6. ~Offered'
      BY <1>3, <2>4, <2>5 DEF Offered
    <2>7. Contents(s') = <<>>
      BY <2>4, <2>5, SameContents
    <2>8. words' = g \o Contents(s')
      BY <1>3, <2>4, <2>7, EmptySeq, ConcatEmptySeq
    <2>10. got' = Arriving(g)
      BY <1>1, <1>4, <2>2
    <2>9. job'.data = <<>> /\ job'.src = job.src
      BY <1>4, <2>1, <2>2 DEF TypeInv
    <2> QED
      BY <1>3, <1>5, <2>5, <2>6, <2>8, <2>9, <2>10, InAfter
  <1>8. CASE job.data = <<24>> /\ 5 \in s.DCR
    <2>1. Command = 24 /\ Rest = <<>>
      BY <1>2, <1>8, OneByte
    <2>2. DoIn
      BY <2>1, Decoding DEF DoOut
    <2>3. /\ s.mode = 3 /\ s.DDRD = {}
          /\ ~Offered => words = g \o Contents(s)
          /\ Offered => words = Append(g \o Contents(s), OfferedWord)
      BY <1>8 DEF InInv
    <2>4. s' = GetFifo(s) /\ got' = IF 0 \notin s.ECR THEN Append(got, FifoWord(s) \cap Byte)
                                         ELSE got
      <3>1. s' = afterget("400", FALSE, s, x) /\ got' = Taken("400")
        BY <2>1, <2>2, Decoding DEF DoIn
      <3>2. s.mode \in Fifos
        BY <2>3 DEF Fifos
      <3> QED
        BY <3>1, <3>2 DEF afterget, Taken
    <2>5. PICK a : job' = [job EXCEPT !.data = <<>>, !.out = a]
      <3>1. job' = [job EXCEPT !.data = Rest,
                      !.out = Append(job.out, getbyte(RegOf[(Command % 16) + 1], FALSE, s, x))]
        BY <2>2 DEF DoIn, TypeInv
      <3> QED
        BY <2>1, <3>1
    <2>6. job'.data = <<>> /\ job'.src = job.src
      BY <2>5 DEF TypeInv
    <2>7. SameRest(s, s')
      <3>1. {} \in Word
        BY DEF Word
      <3> QED
        BY <1>1, <2>4, <3>1, FifoRest
    <2>8. PICK h \in Seq(Word) : got' = Arriving(h) /\ h \o Contents(s') = g \o Contents(s)
      <3>1. CASE 0 \in s.ECR
        <4>1. Contents(s') = <<>> /\ Contents(s) = <<>>
          BY <1>1, <2>4, <3>1, GetMove, EmptyAndFull DEF Left
        <4> QED
          BY <1>1, <2>4, <3>1, <4>1
      <3>2. CASE 0 \notin s.ECR
        <4> DEFINE w == FifoWord(s)
                   c == Contents(s)
        <4>1. Contents(s') = Tail(c) /\ c # <<>> /\ Head(c) = w /\ w \in Word
          BY <1>1, <2>4, <3>2, GetContents, GetFifoType
        <4>2. c \in Seq(Word) /\ got' = Append(got, w \cap Byte)
          BY <1>1, <2>4, <3>2
        <4> HIDE DEF w, c
        <4>3. Append(g, w) = g \o <<w>> /\ g \o <<>> = g /\ Append(g, w) \in Seq(Word)
          BY <4>1, AppendIsConcat, ConcatEmptySeq, AppendProperties
        <4>4. (g \o <<w>>) \o Tail(c) = (g \o <<>>) \o c
          BY <4>1, <4>2, HeadFirst
        <4>5. got' = Arriving(Append(g, w))
          BY <1>1, <4>1, <4>2, ArrivingOne DEF Part
        <4> QED
          BY <4>1, <4>3, <4>4, <4>5 DEF c
      <3> QED
        BY <3>1, <3>2
    <2>9. (Offered' <=> Offered) /\ OfferedWord' = OfferedWord
      BY <1>3, <2>7 DEF Offered, OfferedWord, SameRest
    <2>10. /\ ~Offered' => words' = h \o Contents(s')
           /\ Offered' => words' = Append(h \o Contents(s'), OfferedWord')
      BY <1>3, <2>3, <2>8, <2>9
    <2>11. Wired(s') /\ 5 \in s'.DCR /\ s'.mode = 3 /\ s'.DDRD = {}
      BY <1>2, <1>8, <2>3, <2>7 DEF SameRest, Wired
    <2> QED
      BY <1>3, <1>5, <2>6, <2>8, <2>10, <2>11, InAfter
  <1> QED
    BY <1>2, <1>6, <1>7, <1>8 DEF InInv

\* Bytes that the peripheral offers.
LEMMA InTransfer ==
    ASSUME TypeInv, FifoOK(s), HostInv, NEW g \in Seq(Word), InInv(g), profile = "ecpin",
           EcpXfer \/ Offer \/ EndOffer
    PROVE  HostInv' /\ InInv(g)'
  <1>1. /\ s \in Registers /\ x \in CableLevels /\ got = Arriving(g) /\ words \in Seq(Word)
        /\ Contents(s) \in Seq(Word)
    BY ContentsShape DEF TypeInv, InInv
  <1>11. got' = Arriving(g)
    BY <1>1 DEF EcpXfer, Offer, EndOffer, history
  <1>2. Wired(s)
    BY DEF HostInv
  <1>3. /\ Level(AF) <=> AF \in s.PORTB
        /\ BSY(s, x) <=> 5 \in x.C
        /\ ACK(s, x) <=> 4 \in x.C
        /\ s.DDRD = {} => PIND(s, x) = x.D
    BY <1>1, <1>2, Levels DEF Level
  <1>4. UNCHANGED <<profile, PendingByte, ExpectEP1OutToken, host, job>>
    BY DEF EcpXfer, Offer, EndOffer, firmware, history
  <1>5. ASSUME Wired(s') PROVE HostInv'
    BY <1>4, <1>5 DEF HostInv, Wired
  <1>6. 5 \in s.DCR
    <2> SUFFICES ASSUME 5 \notin s.DCR PROVE FALSE
      OBVIOUS
    <2>1. STB \in s.PORTB /\ 4 \in x.C /\ Contents(s) = <<>>
      BY DEF InInv
    <2>2. 0 \in s.ECR
      BY <1>1, <2>1, EmptyAndFull
    <2>3. EcpOut(s) = s
      BY <2>1, <2>2 DEF EcpOut
    <2> QED
      BY <1>3, <2>1, <2>3 DEF EcpXfer, Offer, EndOffer, DIRECTION_INPUT
  <1>7. /\ s.mode = 3 /\ s.DDRD = {} /\ job.data \in {<<>>, <<24>>}
        /\ ~Offered => words = g \o Contents(s)
        /\ Offered => words = Append(g \o Contents(s), OfferedWord)
    BY <1>6 DEF InInv
  <1>8. CASE EcpXfer
    <2> DEFINE b == s.PORTB \cup {AF}
               t == [s EXCEPT !.PORTB = b]
               w == x.D \cup IF 5 \in x.C THEN {8} ELSE {}
               p == PutFifo(t, w)
               c == p.PORTB \ {AF}
               u == [p EXCEPT !.PORTB = c]
    <2>1. b \in SUBSET Byte /\ w \in Word
      BY <1>1 DEF Registers, CableLevels, AF, Byte, Word
    <2>2. t \in Registers
      BY <1>1, <2>1 DEF Registers
    <2>3. s' = EcpIn(s) /\ s' # s /\ x' = x /\ words' = words /\ got' = got
      BY <1>6, <1>8 DEF EcpXfer, DIRECTION_INPUT
    <2>4. /\ 4 \notin x.C => s' = t
          /\ 4 \in x.C => 1 \notin s.ECR /\ AF \in s.PORTB /\ s' = u
      <3>1. u = [p EXCEPT !.PORTB = @ \ {AF}]
        BY <2>1, <2>2, PutFifoType DEF Registers
      <3> QED
        BY <1>3, <1>7, <2>3, <3>1 DEF EcpIn
    <2> HIDE DEF b, w
    <2>5. CASE 4 \notin x.C
      <3>1. /\ t.mode = 3 /\ t.DCR = s.DCR /\ t.DDRD = {} /\ Wired(t) /\ SameFifo(s, t)
        BY <1>1, <1>2, <1>7 DEF Registers, Wired, SameFifo
      <3>2. Contents(t) = Contents(s)
        BY <3>1, SameContents
      <3> HIDE DEF t
      <3>3. /\ s'.mode = 3 /\ 5 \in s'.DCR /\ s'.DDRD = {} /\ Wired(s')
            /\ Contents(s') = Contents(s)
        BY <1>6, <2>4, <2>5, <3>1, <3>2
      <3>4. Offered' /\ Offered /\ OfferedWord' = OfferedWord
        BY <2>3, <2>5 DEF Offered, OfferedWord
      <3> QED
        BY <1>4, <1>5, <1>7, <2>3, <3>3, <3>4, <1>11, InAfter
    <2>6. CASE 4 \in x.C
      <3>1. SameFifo(s, t) /\ SameRest([s EXCEPT !.PORTB = b], t) /\ t.ECR = s.ECR
        BY <1>1 DEF SameFifo, SameRest, Registers
      <3>2. FifoOK(t) /\ Contents(t) = Contents(s) /\ 1 \notin t.ECR
        BY <2>4, <2>6, <3>1, SameContents
      <3>3. t.mode = 3 /\ t.DCR = s.DCR /\ t.DDRD = {} /\ Wired(t)
        BY <1>1, <1>2, <1>7 DEF Registers, Wired
      <3> HIDE DEF t
      <3>4. p \in Registers /\ SameRest(t, p) /\ Contents(p) = Append(Contents(s), w)
        BY <2>1, <2>2, <3>2, PutFifoType, FifoRest, PutContents
      <3> HIDE DEF p
      <3>5. /\ u.mode = 3 /\ u.DCR = s.DCR /\ u.DDRD = {} /\ Wired(u) /\ SameFifo(p, u)
            /\ AF \notin u.PORTB
        BY <3>3, <3>4 DEF Registers, SameRest, Wired, SameFifo
      <3>6. Contents(u) = Append(Contents(s), w)
        BY <3>4, <3>5, SameContents
      <3> HIDE DEF u
      <3>7. /\ s'.mode = 3 /\ 5 \in s'.DCR /\ s'.DDRD = {} /\ Wired(s')
            /\ Contents(s') = Append(Contents(s), w) /\ AF \notin s'.PORTB
        BY <1>6, <2>4, <2>6, <3>5, <3>6
      <3>8. ~Offered' /\ Offered /\ OfferedWord = w
        BY <2>3, <2>4, <2>6, <3>7 DEF Offered, OfferedWord, w
      <3>9. Append(g \o Contents(s), w) = g \o Append(Contents(s), w)
        <4> DEFINE d == Contents(s)
        <4>1. d \in Seq(Word) /\ <<w>> \in Seq(Word)
          BY <1>1, <2>1
        <4> HIDE DEF d
        <4>2. g \o d \in Seq(Word)
          BY <1>1, <4>1, ConcatProperties
        <4>3. Append(g \o d, w) = (g \o d) \o <<w>> /\ Append(d, w) = d \o <<w>>
          BY <2>1, <4>1, <4>2, AppendIsConcat
        <4>4. (g \o d) \o <<w>> = g \o (d \o <<w>>)
          BY SMTT(30), <1>1, <4>1, ConcatAssociative
        <4> QED
          BY <4>3, <4>4 DEF d
      <3>10. words' = g \o Contents(s')
        BY <1>7, <2>3, <3>7, <3>8, <3>9
      <3> QED
        BY <1>4, <1>5, <1>7, <3>7, <3>8, <3>10, <1>11, InAfter
    <2> QED
      BY <2>5, <2>6
  <1>9. CASE Offer
    <2>1. AF \notin s.PORTB /\ 4 \in x.C /\ s' = s /\ got' = got
      BY <1>3, <1>9 DEF Offer
    <2>2. PICK data \in BOOLEAN :
             /\ x' = [x EXCEPT !.D = Bits(Len(words) + 1), !.C = IF data THEN {5} ELSE {}]
             /\ words' = Append(words, x'.D \cup IF data THEN {8} ELSE {})
      BY <1>9 DEF Offer
    <2>3. x'.C = IF data THEN {5} ELSE {}
      BY <1>1, <2>2 DEF CableLevels
    <2>4. ~Offered /\ Offered'
      BY <2>1, <2>3 DEF Offered
    <2>5. OfferedWord' = x'.D \cup IF data THEN {8} ELSE {}
      BY <2>3 DEF OfferedWord
    <2>6. words' = Append(g \o Contents(s'), OfferedWord')
      BY <1>7, <2>1, <2>2, <2>4, <2>5
    <2> QED
      BY <1>2, <1>4, <1>5, <1>6, <1>7, <2>1, <2>4, <2>6, <1>11, InAfter
  <1>10. CASE EndOffer
    <2>1. /\ AF \in s.PORTB /\ s' = s /\ got' = got /\ words' = words
          /\ x' = [x EXCEPT !.C = @ \cup {4}]
      BY <1>3, <1>10 DEF EndOffer, history
    <2>2. x'.D = x.D /\ x'.C = x.C \cup {4}
      BY <1>1, <2>1 DEF CableLevels
    <2>3. Offered /\ Offered' /\ OfferedWord' = OfferedWord
      BY <2>1, <2>2 DEF Offered, OfferedWord
    <2>4. words' = Append(g \o Contents(s'), OfferedWord')
      BY <1>7, <2>1, <2>3
    <2> QED
      BY <1>2, <1>4, <1>5, <1>6, <1>7, <2>1, <2>3, <2>4, <1>11, InAfter
  <1> QED
    BY <1>8, <1>9, <1>10

\* Every step while the program receives.
LEMMA InStep ==
    ASSUME TypeInv, FifoOK(s), HostInv, NEW g \in Seq(Word), InInv(g), profile = "ecpin",
           [Next]_vars
    PROVE  HostInv' /\ \E h \in Seq(Word) : InInv(h)'
  <1>1. /\ PendingByte = 0 /\ host.last = <<>> /\ Wired(s)
        /\ job.data \in {<<>>, <<10, 96>>, <<2, 34>>, <<24>>} /\ s.mode \in {1, 3}
    BY DEF HostInv, InInv
  <1>2. job.data # <<>> => /\ ~IsIn(Command) => Rest # <<>> /\ Command # 36
    <2>1. ASSUME NEW c \in {2, 10}, NEW v, job.data = <<c, v>> PROVE Rest # <<>> /\ Command # 36
      BY <1>1, <2>1, TwoBytes
    <2>2. CASE job.data = <<24>>
      BY <1>1, <2>2, OneByte, Decoding
    <2> QED
      BY <1>1, <2>1, <2>2
  <1>3. ~DoHalf /\ ~waitbit
    BY <1>2 DEF DoHalf, waitbit, Running, Waits
  <1>4. ~Repeat /\ ~SetupCommands /\ ~SetupRegister /\ ~Restart /\ ~Cable
        /\ ~TakeByte /\ ~Ready /\ ~SppXfer
    BY <1>1 DEF Repeat, SetupCommands, SetupRegister, Restart, Cable, TakeByte, Ready,
                SppXfer
  <1>5. ASSUME UNCHANGED <<profile, s, x, PendingByte, ExpectEP1OutToken, host, words, got>>,
               job' = job \/ (job.data = <<>> /\ job' = Idle)
        PROVE  HostInv' /\ InInv(g)'
    <2>1. job'.data = job.data
      BY <1>5 DEF Idle
    <2>2. HostInv'
      BY <1>1, <1>5, <2>1 DEF HostInv, Wired, Idle
    <2>3. /\ (Offered' <=> Offered) /\ OfferedWord' = OfferedWord /\ Contents(s)' = Contents(s)
          /\ Arriving(g)' = Arriving(g)
      BY <1>5 DEF Offered, OfferedWord, Contents, Count, Arriving
    <2>4. InInv(g)'
      BY <1>5, <2>1, <2>3 DEF InInv
    <2> QED
      BY <2>2, <2>4
  <1>6. CASE Return \/ SaveFeature \/ UNCHANGED vars
    BY <1>5, <1>6 DEF Return, SaveFeature, vars, firmware, history
  <1> QED
    BY <1>3, <1>4, <1>6, InPacket, InCommand, InTransfer DEF Next, MainLoop, Peripheral

LEMMA WordsInit == Init => HostInv /\ OutInv(<<>>) /\ InInv(<<>>)
  <1> SUFFICES ASSUME Init PROVE HostInv /\ OutInv(<<>>) /\ InInv(<<>>)
    OBVIOUS
  <1>1. /\ s = Boot({}) /\ job = Idle /\ PendingByte = 0 /\ ExpectEP1OutToken = 0
        /\ words = <<>> /\ got = <<>> /\ x.C = {4}
    BY DEF Init
  <1>2. host.tog = 0 /\ host.last = <<>>
    BY DEF Init
  <1>3. /\ Wired(s) /\ s.mode = 1 /\ 5 \notin s.DCR /\ s.DDRD = Byte /\ STB \in s.PORTB
    BY <1>1, BootRest
  <1>4. Contents(s) = <<>>
    BY <1>1, BootState0, EmptiedContents
  <1>5. job.data = <<>>
    BY <1>1 DEF Idle
  <1>6. Lines(s, x) = <<>>
    BY <1>3 DEF Lines
  <1>7. Flow(<<>>, s, x) = <<>>
    BY <1>4, <1>6, EmptySeq, ConcatEmptySeq DEF Flow
  <1> QED
    BY <1>1, <1>2, <1>3, <1>4, <1>5, <1>7, ArrivingNone DEF HostInv, OutInv, InInv

WordsInv ==
    /\ FifoOK(s) /\ HostInv
    /\ \E g \in Seq(Word) : OutInv(g)
    /\ \E g \in Seq(Word) : InInv(g)

LEMMA WordsStep ==
    ASSUME TypeInv, Directed(s, spoilt), WordsInv, [Next]_vars
    PROVE  WordsInv'
  <1>1. FifoOK(s)'
    <2>1. s \in Registers /\ s' \in Registers /\ FifoMove(s, s')
      BY RegistersStep DEF TypeInv
    <2>2. FifoOK(s')
      BY <2>1, FifoMoveContents DEF WordsInv
    <2> QED
      BY <2>2 DEF FifoOK
  <1>2. profile' = profile
    BY DEF Next, MainLoop, Peripheral, DoIn, DoHalf, DoOut, waitbit, Return, SppXfer, EcpXfer,
           Packet, Repeat, SetupCommands, SetupRegister, SaveFeature, Restart, Cable,
           TakeByte, Ready, Offer, EndOffer, vars
  <1>3. CASE profile = "ecpout"
    <2>1. PICK g \in Seq(Word) : OutInv(g)
      BY DEF WordsInv
    <2>2. HostInv' /\ \E h \in Seq(Word) : OutInv(h)'
      BY <1>3, <2>1, OutStep DEF WordsInv
    <2>3. \A h : InInv(h)'
      BY <1>2, <1>3 DEF InInv
    <2> QED
      BY <1>1, <2>1, <2>2, <2>3 DEF WordsInv
  <1>4. CASE profile = "ecpin"
    <2>1. PICK g \in Seq(Word) : InInv(g)
      BY DEF WordsInv
    <2>2. HostInv' /\ \E h \in Seq(Word) : InInv(h)'
      BY <1>4, <2>1, InStep DEF WordsInv
    <2>3. \A h : OutInv(h)'
      BY <1>2, <1>4 DEF OutInv
    <2> QED
      BY <1>1, <2>1, <2>2, <2>3 DEF WordsInv
  <1>5. CASE profile \notin {"ecpout", "ecpin"}
    <2>1. HostInv' /\ \A g : InInv(g)' /\ OutInv(g)'
      BY <1>2, <1>5 DEF HostInv, OutInv, InInv
    <2>2. <<>> \in Seq(Word)
      BY EmptySeq
    <2> QED
      BY <1>1, <2>1, <2>2 DEF WordsInv
  <1> QED
    BY <1>3, <1>4, <1>5

\* What the programs that move words rely on: no word is counted twice or
\* missing between the packet, the FIFO, the lines and the peripheral, in
\* any state of the command under way.
THEOREM WordsInvariant == Spec => []WordsInv
  <1>1. Init => WordsInv
    <2>1. <<>> \in Seq(Word)
      BY EmptySeq
    <2> QED
      BY <2>1, WordsInit, BootState0, EmptiedContents DEF Init, WordsInv
  <1>2. (TypeInv /\ Directed(s, spoilt)) /\ WordsInv /\ [Next]_vars => WordsInv'
    BY WordsStep
  <1> QED
    BY <1>1, <1>2, LptInvariant, PTL DEF Spec

LEMMA FrontAppend ==
    ASSUME NEW z \in Seq(Word), NEW w \in Word
    PROVE  Append(z, w) # <<>> /\ Front(Append(z, w)) = z
  <1> DEFINE q == Append(z, w)
  <1>1. PICK n \in Nat : n = Len(z)
    BY LenProperties
  <1>2. /\ q \in Seq(Word) /\ q # <<>> /\ Len(q) = n + 1
        /\ \A i \in 1..n : q[i] = z[i]
    BY <1>1, AppendProperties
  <1> HIDE DEF q
  <1>3. \A i \in 1..n : q[i] \in Word
    BY <1>1, <1>2, ElementOfSeq
  <1> DEFINE p == SubSeq(q, 1, n)
  <1>4. /\ p \in Seq(Word) /\ Len(p) = IF 1 <= n THEN n - 1 + 1 ELSE 0
        /\ \A i \in 1..n - 1 + 1 : p[i] = q[1 + i - 1]
    BY <1>3, SubSeqProperties
  <1>5. Len(p) = n /\ \A i \in 1..n : p[i] = z[i]
    BY <1>2, <1>4
  <1>6. Front(q) = p
    <2>1. Len(q) - 1 = n
      BY <1>2
    <2> QED
      BY <2>1 DEF Front
  <1> HIDE DEF p
  <1>7. p = z
    BY <1>1, <1>4, <1>5, SeqEqual
  <1> QED
    BY <1>2, <1>6, <1>7 DEF q

\* Handshake for every FIFO and every number of words: what the program put
\* into the FIFO reaches the peripheral once and in order, in ECP mode with
\* its bit for data or address, and the same holds the other way round.
THEOREM EveryWordOnce == Spec => []Handshake
  <1>1. ASSUME TypeInv, WordsInv PROVE Handshake
    <2>1. /\ s \in Registers /\ x \in CableLevels /\ words \in Seq(Word)
          /\ Contents(s) \in Seq(Word)
      BY <1>1, ContentsShape DEF TypeInv, WordsInv
    <2>2. CASE profile = "ecpout" /\ job.src = "none"
      <3>1. PICK g \in Seq(Word) : OutInv(g)
        BY <1>1 DEF WordsInv
      <3>2. Wired(s) /\ job.data = <<>> /\ s.DDRD = Byte /\ got = Arriving(g)
        BY <1>1, <2>2, <3>1 DEF WordsInv, HostInv, OutInv
      <3>3. \A n : job.data \notin Word1(n)
        BY <3>2 DEF Word1
      <3>4. words = (g \o Lines(s, x)) \o Contents(s)
        BY <2>2, <3>1, <3>2, <3>3 DEF OutInv, Flow
      <3>5. OnLines = Lines(s, x) /\ Lines(s, x) \in Seq(Word)
        BY <2>1, <3>2, Levels, LinesType DEF OnLines, Lines, Level
      <3>6. Arriving(Lines(s, x)) = Lines(s, x)
        <4>1. CASE s.mode = 3
          BY <2>2, <4>1 DEF Arriving
        <4>2. CASE s.mode # 3
          BY <4>2, ArrivingNone DEF Lines
        <4> QED
          BY <4>1, <4>2
      <3>7. /\ g \o Lines(s, x) \in Seq(Word)
            /\ Arriving(g \o Lines(s, x)) = got \o OnLines
        BY <3>2, <3>5, <3>6, ConcatProperties, ArrivingConcat
      <3>8. Arriving(words) = (got \o OnLines) \o Arriving(Contents(s))
        BY <2>1, <3>4, <3>7, ArrivingConcat
      <3> QED
        BY <2>2, <3>8 DEF Handshake
    <2>3. CASE profile = "ecpin"
      <3>1. PICK g \in Seq(Word) : InInv(g)
        BY <1>1 DEF WordsInv
      <3>2. Wired(s) /\ got = Arriving(g)
        BY <1>1, <2>3, <3>1 DEF WordsInv, HostInv, InInv
      <3>3. (Level(AF) <=> AF \in s.PORTB) /\ (ACK(s, x) <=> 4 \in x.C)
        BY <2>1, <3>2, Levels DEF Level
      <3>4. Latched = g \o Contents(s)
        <4>1. CASE 5 \notin s.DCR
          <5>1. words = <<>> /\ g = <<>> /\ Contents(s) = <<>>
            BY <2>3, <3>1, <4>1 DEF InInv
          <5>2. <<>> = <<>> \o <<>>
            BY EmptySeq, ConcatEmptySeq
          <5> QED
            BY <5>1, <5>2 DEF Latched
        <4>2. CASE 5 \in s.DCR /\ ~Offered
          BY <2>3, <3>1, <3>3, <4>2 DEF InInv, Latched, Offered
        <4>3. CASE 5 \in s.DCR /\ Offered
          <5>1. words = Append(g \o Contents(s), OfferedWord)
            BY <2>3, <3>1, <4>3 DEF InInv
          <5>2. g \o Contents(s) \in Seq(Word)
            BY <2>1, ConcatProperties
          <5>3. OfferedWord \in Word
            BY <2>1 DEF OfferedWord, CableLevels, Word, Byte
          <5>4. words # <<>> /\ Front(words) = g \o Contents(s)
            BY <5>1, <5>2, <5>3, FrontAppend
          <5> QED
            BY <3>3, <4>3, <5>4 DEF Latched, Offered
        <4> QED
          BY <4>1, <4>2, <4>3
      <3>5. Arriving(Latched) = got \o Arriving(Contents(s))
        BY <2>1, <3>2, <3>4, ArrivingConcat
      <3> QED
        BY <2>3, <3>5 DEF Handshake
    <2> QED
      BY <2>2, <2>3 DEF Handshake
  <1>2. TypeInv /\ WordsInv => Handshake
    BY <1>1
  <1> QED
    BY <1>2, LptInvariant, WordsInvariant, PTL

-----------------------------------------------------------------------------
(***************************************************************************)
(* The commands.  Parse is a recursive function over the bytes; what it is *)
(* for one byte more follows by induction over their number, which the     *)
(* library gives as the well-foundedness of < on the naturals.             *)
(***************************************************************************)
LEMMA SetInduction ==
    ASSUME NEW S, 0 \in S, \A n \in Nat : n \in S => n + 1 \in S
    PROVE  Nat \subseteq S
  <1> DEFINE R == {p \in Nat \X Nat : p[1] < p[2]}
             T == Nat \ S
  <1>1. IsWellFoundedOn(R, Nat)
    BY NatLessThanWellFounded DEF OpToRel
  <1>2. ASSUME NEW m \in Nat, NEW n \in Nat, n < m PROVE <<n, m>> \in R
    BY <1>2
  <1> HIDE DEF R
  <1>3. SUFFICES ASSUME T # {} PROVE FALSE
    OBVIOUS
  <1>4. T \subseteq Nat
    OBVIOUS
  <1> HIDE DEF T
  <1>5. PICK m \in T : \A n \in T : ~ (<<n, m>> \in R)
    BY <1>1, <1>3, <1>4, WFMin
  <1> USE DEF T
  <1>6. m \in Nat /\ m \notin S /\ m # 0
    BY <1>5
  <1>7. m - 1 \in Nat /\ m - 1 < m /\ (m - 1) + 1 = m
    BY <1>6
  <1>8. m - 1 \in S
    BY <1>2, <1>5, <1>6, <1>7
  <1> QED
    BY <1>6, <1>7, <1>8

\* f holds what has been parsed of bytes after each of the first n.
Upto(f, bytes, n) ==
    f = [i \in 0..n |-> IF i = 0 THEN Nothing ELSE Parsed(f[i - 1], bytes[i])]

LEMMA UptoExists ==
    ASSUME NEW bytes, NEW m \in Nat
    PROVE  \E f : Upto(f, bytes, m)
  <1> DEFINE S == {n \in Nat : \E f : Upto(f, bytes, n)}
  <1>1. 0 \in S
    <2> DEFINE f == [i \in 0..0 |-> Nothing]
    <2>1. Upto(f, bytes, 0)
      BY DEF Upto
    <2> QED
      BY <2>1
  <1>2. ASSUME NEW n \in Nat, n \in S PROVE n + 1 \in S
    <2>1. PICK f : Upto(f, bytes, n)
      BY <1>2
    <2> DEFINE g == [i \in 0..n + 1 |-> IF i = n + 1 THEN Parsed(f[n], bytes[n + 1]) ELSE f[i]]
               h == [i \in 0..n + 1 |-> IF i = 0 THEN Nothing ELSE Parsed(g[i - 1], bytes[i])]
    <2>2. ASSUME NEW i \in 0..n + 1 PROVE g[i] = h[i]
      <3>1. CASE i = n + 1
        BY <3>1
      <3>2. CASE i = 0
        BY <2>1, <3>2 DEF Upto
      <3>3. CASE i \in 1..n
        <4>1. i - 1 \in 0..n + 1 /\ i - 1 # n + 1 /\ i \in 0..n /\ i # n + 1 /\ i # 0
          BY <3>3
        <4>2. g[i] = f[i] /\ g[i - 1] = f[i - 1]
          BY <4>1
        <4>3. f[i] = Parsed(f[i - 1], bytes[i])
          BY <2>1, <4>1 DEF Upto
        <4>4. h[i] = Parsed(g[i - 1], bytes[i])
          BY <4>1
        <4> QED
          BY <4>2, <4>3, <4>4
      <3> QED
        BY <3>1, <3>2, <3>3
    <2>3. g = h
      BY <2>2
    <2>4. Upto(g, bytes, n + 1)
      BY <2>3 DEF Upto
    <2> QED
      BY <2>4
  <1> HIDE DEF S
  <1>3. Nat \subseteq S
    BY <1>1, <1>2, SetInduction
  <1> QED
    BY <1>3 DEF S

LEMMA UptoSame ==
    ASSUME NEW a, NEW b, NEW m \in Nat, NEW n \in Nat, m <= n, \A i \in 1..m : a[i] = b[i],
           NEW f, NEW g, Upto(f, a, m), Upto(g, b, n)
    PROVE  f[m] = g[m]
  <1> DEFINE S == {i \in Nat : i <= m => f[i] = g[i]}
  <1>1. 0 \in S
    BY DEF Upto
  <1>2. ASSUME NEW i \in Nat, i \in S PROVE i + 1 \in S
    <2> SUFFICES ASSUME i + 1 <= m PROVE f[i + 1] = g[i + 1]
      OBVIOUS
    <2>1. i + 1 \in 0..m /\ i + 1 \in 0..n /\ i + 1 \in 1..m /\ i + 1 # 0 /\ (i + 1) - 1 = i
      OBVIOUS
    <2>2. f[i + 1] = Parsed(f[i], a[i + 1]) /\ g[i + 1] = Parsed(g[i], b[i + 1])
      BY <2>1 DEF Upto
    <2> QED
      BY <1>2, <2>1, <2>2
  <1> HIDE DEF S
  <1>3. m \in S
    BY <1>1, <1>2, SetInduction
  <1> QED
    BY <1>3 DEF S

LEMMA ParseIs ==
    ASSUME NEW bytes \in Seq(Nat)
    PROVE  \E f : Upto(f, bytes, Len(bytes)) /\ Parse(bytes) = f[Len(bytes)]
  <1> DEFINE f == CHOOSE f : Upto(f, bytes, Len(bytes))
  <1>1. Upto(f, bytes, Len(bytes))
    BY UptoExists, LenProperties
  <1>2. Parse(bytes) = f[Len(bytes)]
    BY DEF Parse, Upto
  <1> QED
    BY <1>1, <1>2

LEMMA ParseEmpty == Parse(<<>>) = Nothing
  <1>1. <<>> \in Seq(Nat) /\ Len(<<>>) = 0
    OBVIOUS
  <1>2. PICK f : Upto(f, <<>>, 0) /\ Parse(<<>>) = f[0]
    BY <1>1, ParseIs
  <1> QED
    BY <1>2 DEF Upto

\* One byte more is one step of the parser more.
LEMMA ParseAppend ==
    ASSUME NEW z \in Seq(Nat), NEW b \in Nat
    PROVE  Parse(Append(z, b)) = Parsed(Parse(z), b)
  <1> DEFINE y == Append(z, b)
  <1>1. PICK n \in Nat : n = Len(z)
    BY LenProperties
  <1>2. y \in Seq(Nat) /\ Len(y) = n + 1 /\ y[n + 1] = b /\ \A i \in 1..n : y[i] = z[i]
    BY <1>1, AppendProperties
  <1> HIDE DEF y
  <1>3. PICK f : Upto(f, z, n) /\ Parse(z) = f[n]
    BY <1>1, ParseIs
  <1>4. PICK g : Upto(g, y, n + 1) /\ Parse(y) = g[n + 1]
    BY <1>2, ParseIs
  <1>5. f[n] = g[n]
    <2>1. n \in Nat /\ n + 1 \in Nat /\ n <= n + 1 /\ \A i \in 1..n : z[i] = y[i]
      BY <1>2
    <2>2. Upto(f, z, n) /\ Upto(g, y, n + 1)
      BY <1>3, <1>4
    <2> QED
      BY <2>1, <2>2, UptoSame
  <1>6. g[n + 1] = Parsed(g[n], y[n + 1])
    BY <1>4 DEF Upto
  <1> QED
    BY <1>2, <1>3, <1>4, <1>5, <1>6 DEF y

\* The bytes sent are those read and those of the call under way; what has
\* been done is what the parser makes of the bytes read, and PendingByte is
\* its half command.
Reads(p, d, pending) ==
    /\ d = p.out
    /\ \/ p.half = <<>> /\ pending = 0
       \/ \E c \in Nat : ~IsIn(c) /\ p.half = <<c>> /\ pending = c + 16
StreamInv ==
    profile = "stream" =>
        /\ stream \in Seq(Nat) /\ ExpectEP1OutToken = host.tog
        /\ job.src = "none" => job.data = <<>>
        /\ \E read \in Seq(Nat) :
             stream = read \o job.data /\ Reads(Parse(read), done, PendingByte)

\* What reading one byte does, to the parser and to the two variables.
LEMMA ReadByte ==
    ASSUME NEW read \in Seq(Nat), NEW d, NEW pending, Reads(Parse(read), d, pending), NEW b \in Nat
    PROVE  LET p == Parse(Append(read, b))
           IN  /\ pending # 0 => Reads(p, Append(d, <<pending - 16, b>>), 0)
               /\ pending = 0 /\ IsIn(b) => Reads(p, Append(d, <<b>>), 0)
               /\ pending = 0 /\ ~IsIn(b) => Reads(p, d, b + 16)
  <1> DEFINE a == Parse(read)
             p == Parse(Append(read, b))
  <1>1. p = Parsed(a, b)
    BY ParseAppend
  <1>2. Reads(a, d, pending)
    OBVIOUS
  <1> HIDE DEF a, p
  <1>3. ASSUME NEW c \in Nat, a.half = <<c>>, pending = c + 16
        PROVE  pending # 0 /\ Reads(p, Append(d, <<pending - 16, b>>), 0)
    <2>1. pending # 0 /\ pending - 16 = c
      BY <1>3
    <2>2. <<c>> # <<>> /\ <<c>> \o <<b>> = <<c, b>>
      <3>1. <<c>> \in Seq(Nat) /\ <<b>> \in Seq(Nat) /\ <<c, b>> \in Seq(Nat)
        OBVIOUS
      <3>2. /\ Len(<<c>>) = 1 /\ Len(<<b>>) = 1 /\ Len(<<c, b>>) = 2
            /\ <<c>>[1] = c /\ <<b>>[1] = b /\ <<c, b>>[1] = c /\ <<c, b>>[2] = b
        OBVIOUS
      <3> DEFINE y == <<c>> \o <<b>>
                 w == <<c, b>>
      <3>3. y \in Seq(Nat) /\ Len(y) = 2 /\ y[1] = c /\ y[2] = b
        BY <3>1, <3>2, ConcatProperties
      <3>4. w \in Seq(Nat) /\ Len(w) = 2 /\ w[1] = c /\ w[2] = b
        BY <3>1, <3>2
      <3> HIDE DEF y, w
      <3>5. \A i \in 1..2 : y[i] = w[i]
        BY <3>3, <3>4
      <3>6. y = w
        BY <3>3, <3>4, <3>5, SeqEqual
      <3>7. <<c>> # <<>>
        BY <3>2
      <3> QED
        BY <3>6, <3>7 DEF y, w
    <2>3. p = [half |-> <<>>, out |-> Append(d, <<c, b>>)]
      BY <1>1, <1>2, <1>3, <2>2 DEF Parsed, Reads
    <2> QED
      BY <2>1, <2>3 DEF Reads
  <1>4. ASSUME a.half = <<>>, pending = 0
        PROVE  /\ IsIn(b) => Reads(p, Append(d, <<b>>), 0)
               /\ ~IsIn(b) => Reads(p, d, b + 16)
    <2>1. p = IF IsIn(b) THEN [half |-> <<>>, out |-> Append(d, <<b>>)]
              ELSE [half |-> <<b>>, out |-> d]
      BY <1>1, <1>2, <1>4 DEF Parsed, Reads
    <2> QED
      BY <2>1 DEF Reads
  <1>5. (a.half = <<>> /\ pending = 0) \/ \E c \in Nat : a.half = <<c>> /\ pending = c + 16
    BY <1>2 DEF Reads
  <1> QED
    BY <1>3, <1>4, <1>5 DEF p

LEMMA HeadTail ==
    ASSUME NEW W, NEW z \in Seq(W), z # <<>>, NEW r \in Seq(W)
    PROVE  /\ Head(z) \in W /\ Tail(z) \in Seq(W) /\ Append(r, Head(z)) \in Seq(W)
           /\ r \o z = Append(r, Head(z)) \o Tail(z)
  <1>1. Head(z) \in W /\ Tail(z) \in Seq(W) /\ <<Head(z)>> \o Tail(z) = z
    BY HeadTailProperties, HeadAndTail
  <1>2. <<Head(z)>> \in Seq(W)
    BY <1>1
  <1>3. Append(r, Head(z)) = r \o <<Head(z)>> /\ Append(r, Head(z)) \in Seq(W)
    BY <1>1, AppendIsConcat, AppendProperties
  <1>4. (r \o <<Head(z)>>) \o Tail(z) = r \o (<<Head(z)>> \o Tail(z))
    BY <1>1, <1>2, ConcatAssociative
  <1> QED
    BY <1>1, <1>3, <1>4

\* A command takes its bytes from the call under way.
LEMMA StreamCommand ==
    ASSUME TypeInv, StreamInv, profile = "stream", DoIn \/ DoHalf \/ DoOut
    PROVE  StreamInv'
  <1>1. PICK read \in Seq(Nat) : stream = read \o job.data /\ Reads(Parse(read), done, PendingByte)
    BY DEF StreamInv
  <1>2. /\ Running /\ job.data \in Seq(Nat) /\ job.data # <<>> /\ job.src # "none"
        /\ PendingByte = 0 \/ (PendingByte - 16 \in Nat /\ PendingByte # 0)
    <2>1. Running
      BY DEF DoIn, DoHalf, DoOut
    <2> QED
      BY <2>1 DEF TypeInv, Running
  <1> DEFINE h == Head(job.data)
             t == Tail(job.data)
             r1 == Append(read, h)
  <1>3. h \in Nat /\ t \in Seq(Nat) /\ r1 \in Seq(Nat) /\ stream = r1 \o t
    BY <1>1, <1>2, HeadTail
  <1>4. /\ PendingByte # 0 => Reads(Parse(r1), Append(done, <<PendingByte - 16, h>>), 0)
        /\ PendingByte = 0 /\ IsIn(h) => Reads(Parse(r1), Append(done, <<h>>), 0)
        /\ PendingByte = 0 /\ ~IsIn(h) => Reads(Parse(r1), done, h + 16)
    BY <1>1, <1>3, ReadByte
  <1>5. PendingByte # 0 => ~IsIn(PendingByte - 16)
    BY <1>1 DEF Reads
  <1>6. ASSUME NEW r \in Seq(Nat), stream = r \o job'.data, Reads(Parse(r), done', PendingByte'),
               stream' = stream, job'.src = job.src,
               ExpectEP1OutToken' = ExpectEP1OutToken, host' = host
        PROVE  StreamInv'
    BY <1>2, <1>6 DEF StreamInv
  <1>7. job'.src = job.src /\ stream' = stream /\ host' = host
        /\ ExpectEP1OutToken' = ExpectEP1OutToken
    BY DEF DoIn, DoHalf, DoOut, TypeInv, history
  <1>8. Command = (IF PendingByte # 0 THEN PendingByte - 16 ELSE h)
        /\ Rest = (IF PendingByte # 0 THEN job.data ELSE t)
    BY DEF Command, Rest
  <1> HIDE DEF h, t, r1
  <1>9. CASE DoIn
    <2>1. IsIn(Command) /\ PendingByte' = 0 /\ job'.data = Rest /\ done' = Append(done, <<Command>>)
      BY <1>9 DEF DoIn, TypeInv
    <2>2. PendingByte = 0
      BY <1>5, <1>8, <2>1
    <2>3. job'.data = t /\ done' = Append(done, <<h>>) /\ IsIn(h)
      BY <1>8, <2>1, <2>2
    <2> QED
      BY <1>3, <1>4, <1>6, <1>7, <2>1, <2>2, <2>3
  <1>10. CASE DoHalf
    <2>1. /\ ~IsIn(Command) /\ Rest = <<>> /\ PendingByte' = Command + 16 /\ job'.data = <<>>
          /\ done' = done
      BY <1>10 DEF DoHalf, TypeInv, history
    <2>2. PendingByte = 0
      BY <1>2, <1>8, <2>1
    <2>3. job'.data = t /\ PendingByte' = h + 16 /\ ~IsIn(h)
      BY <1>8, <2>1, <2>2
    <2> QED
      BY <1>3, <1>4, <1>6, <1>7, <2>1, <2>2, <2>3
  <1>11. CASE DoOut
    <2>1. /\ ~IsIn(Command) /\ Rest # <<>> /\ PendingByte' = 0 /\ job'.data = Tail(Rest)
          /\ done' = Append(done, <<Command, Head(Rest)>>)
      BY <1>11 DEF DoOut, TypeInv
    <2>2. CASE PendingByte # 0
      <3>1. job'.data = t /\ done' = Append(done, <<PendingByte - 16, h>>)
        BY <1>8, <2>1, <2>2 DEF h, t
      <3> QED
        BY <1>3, <1>4, <1>6, <1>7, <2>1, <2>2, <3>1
    <2>3. CASE PendingByte = 0
      <3> DEFINE r2 == Append(r1, Head(t))
      <3>1. /\ t # <<>> /\ ~IsIn(h) /\ job'.data = Tail(t)
            /\ done' = Append(done, <<h, Head(t)>>)
        BY <1>8, <2>1, <2>3
      <3>2. Head(t) \in Nat /\ r2 \in Seq(Nat) /\ stream = r2 \o Tail(t)
        BY <1>3, <3>1, HeadTail
      <3>3. Reads(Parse(r1), done, h + 16)
        BY <1>4, <2>3, <3>1
      <3>4. h + 16 # 0 /\ (h + 16) - 16 = h
        BY <1>3
      <3>5. Reads(Parse(r2), Append(done, <<(h + 16) - 16, Head(t)>>), 0)
        BY <1>3, <3>2, <3>3, <3>4, ReadByte
      <3> HIDE DEF r2
      <3> QED
        BY <1>6, <1>7, <2>1, <3>1, <3>2, <3>4, <3>5
    <2> QED
      BY <2>2, <2>3
  <1> QED
    BY <1>9, <1>10, <1>11

LEMMA StreamStep ==
    ASSUME TypeInv, StreamInv, [Next]_vars
    PROVE  StreamInv'
  <1>1. profile' = profile
    BY DEF Next, MainLoop, Peripheral, DoIn, DoHalf, DoOut, waitbit, Return, SppXfer, EcpXfer,
           Packet, Repeat, SetupCommands, SetupRegister, SaveFeature, Restart, Cable,
           TakeByte, Ready, Offer, EndOffer, vars
  <1> SUFFICES ASSUME profile = "stream" PROVE StreamInv'
    BY <1>1 DEF StreamInv
  <1>2. PICK read \in Seq(Nat) : stream = read \o job.data /\ Reads(Parse(read), done, PendingByte)
    BY DEF StreamInv
  <1>3. /\ stream \in Seq(Nat) /\ ExpectEP1OutToken = host.tog /\ host.tog \in {0, 1}
        /\ job.src = "none" => job.data = <<>>
    BY DEF StreamInv, TypeInv
  <1>4. job.src = "none" => stream = read
    BY <1>2, <1>3, ConcatEmptySeq
  <1>5. ~SetupRegister /\ ~Restart /\ ~Cable /\ ~TakeByte /\ ~Ready /\ ~Offer /\ ~EndOffer
    BY DEF SetupRegister, Restart, Cable, TakeByte, Ready, Offer, EndOffer
  <1>6. ASSUME UNCHANGED <<stream, done, PendingByte>>, ExpectEP1OutToken' = host'.tog,
               job' = job \/ (job.data = <<>> /\ job' = Idle)
        PROVE  StreamInv'
    <2>1. job'.data = job.data /\ (job'.src = "none" => job'.data = <<>>)
      BY <1>3, <1>6 DEF Idle
    <2> QED
      BY <1>2, <1>3, <1>6, <2>1 DEF StreamInv
  <1>7. CASE waitbit \/ SppXfer \/ EcpXfer \/ SaveFeature \/ UNCHANGED vars
    BY <1>3, <1>6, <1>7 DEF waitbit, SppXfer, EcpXfer, SaveFeature, vars, firmware, history
  <1>8. CASE Return
    BY <1>3, <1>6, <1>8 DEF Return, history
  <1>9. CASE Repeat
    <2>1. 1 - host.tog # ExpectEP1OutToken
      BY <1>3
    <2>2. UNCHANGED <<ExpectEP1OutToken, job, stream, done, PendingByte, host>>
      BY <1>9, <2>1 DEF Repeat, usbFunctionWriteOut, history
    <2> QED
      BY <1>3, <1>6, <2>2
  <1>11. ASSUME NEW p \in Seq(Nat), job.src = "none", stream' = stream \o p, job'.data = p,
                job'.src = "none" => p = <<>>, UNCHANGED <<done, PendingByte>>,
                ExpectEP1OutToken' = host'.tog
         PROVE  StreamInv'
    <2>1. stream' = read \o p /\ stream' \in Seq(Nat)
      BY <1>4, <1>11, ConcatProperties
    <2> QED
      BY <1>2, <1>11, <2>1 DEF StreamInv
  <1>12. CASE Packet
    <2>1. PICK p \in Packets :
            /\ Sent(p) /\ usbFunctionWriteOut(host.tog, p)
            /\ host' = [host EXCEPT !.tog = 1 - @, !.last = IF profile = "stream" THEN p ELSE <<>>]
      BY <1>12 DEF Packet
    <2>2. p \in Seq(Nat)
      BY <2>1, PacketsType
    <2>3. /\ ExpectEP1OutToken' = 1 - host.tog
          /\ job' = [src |-> IF p = <<>> THEN "none" ELSE "ep1", data |-> p, out |-> <<>>]
      BY <1>3, <2>1 DEF usbFunctionWriteOut, ProcessInOut
    <2>4. host'.tog = 1 - host.tog
      BY <2>1 DEF TypeInv
    <2>5. job.src = "none" /\ UNCHANGED <<done, PendingByte>> /\ stream' = stream \o p
      BY <1>12, <2>1 DEF Packet, Sent
    <2>6. job'.data = p /\ (job'.src = "none" => p = <<>>)
      BY <2>3
    <2> QED
      BY <1>11, <2>2, <2>3, <2>4, <2>5, <2>6
  <1>13. CASE SetupCommands
    <2>1. PICK p \in Packets, src \in {"0x40", "0xC0"} : Sent(p) /\ ProcessInOut(src, p)
      BY <1>13 DEF SetupCommands
    <2>2. p \in Seq(Nat)
      BY <2>1, PacketsType
    <2>3. job'.data = p /\ job'.src # "none"
      BY <2>1 DEF ProcessInOut
    <2>4. /\ job.src = "none" /\ stream' = stream \o p
          /\ UNCHANGED <<done, PendingByte, host, ExpectEP1OutToken>>
      BY <1>13, <2>1 DEF SetupCommands, Sent
    <2> QED
      BY <1>3, <1>11, <2>2, <2>3, <2>4
  <1> QED
    BY <1>5, <1>7, <1>8, <1>9, <1>12, <1>13, StreamCommand DEF Next, MainLoop, Peripheral

LEMMA StreamInit == Init => StreamInv
  <1> SUFFICES ASSUME Init, profile = "stream" PROVE StreamInv
    BY DEF StreamInv
  <1>1. /\ stream = <<>> /\ done = <<>> /\ PendingByte = 0 /\ job = Idle
        /\ ExpectEP1OutToken = 0 /\ host.tog = 0
    BY DEF Init
  <1>2. <<>> \in Seq(Nat) /\ <<>> \o <<>> = <<>>
    BY EmptySeq, ConcatEmptySeq
  <1>3. Reads(Parse(<<>>), done, PendingByte)
    BY <1>1, ParseEmpty DEF Nothing, Reads
  <1> QED
    BY <1>1, <1>2, <1>3 DEF StreamInv, Idle

\* In any state of a call, and wherever packets end: the commands done are
\* what the parser makes of the bytes read so far, and what is not read yet
\* is in the call; the toggle of the device is that of the host, so that a
\* repeated packet is never taken for a new one.
THEOREM StreamInvariant == Spec => []StreamInv
  <1>1. TypeInv /\ Directed(s, spoilt) /\ StreamInv /\ [Next]_vars => StreamInv'
    BY StreamStep
  <1> QED
    BY <1>1, StreamInit, LptInvariant, PTL DEF Spec

\* StreamParsed for any bytes, any number of them and any length of a packet:
\* the firmware does the commands of the bytes sent, each once and in order,
\* wherever the program cuts them and although packets are repeated.
THEOREM CommandsAsSent == Spec => []StreamParsed
  <1>1. ASSUME TypeInv, StreamInv PROVE StreamParsed
    <2> SUFFICES ASSUME profile = "stream", job.src = "none"
                 PROVE  LET p == Parse(stream)
                        IN  /\ done = p.out
                            /\ PendingByte = IF p.half = <<>> THEN 0 ELSE p.half[1] + 16
      BY DEF StreamParsed
    <2>1. PICK read \in Seq(Nat) :
            stream = read \o job.data /\ Reads(Parse(read), done, PendingByte)
      BY <1>1 DEF StreamInv
    <2>2. stream = read
      BY <1>1, <2>1, ConcatEmptySeq DEF StreamInv
    <2>3. \A c : <<c>> # <<>> /\ <<c>>[1] = c
      OBVIOUS
    <2> QED
      BY <2>1, <2>2, <2>3 DEF Reads
  <1>2. TypeInv /\ StreamInv => StreamParsed
    BY <1>1
  <1> QED
    BY <1>2, LptInvariant, StreamInvariant, PTL

=============================================================================
