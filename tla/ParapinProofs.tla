---------------------------- MODULE ParapinProofs ---------------------------
(***************************************************************************)
(* Pins used as inputs are never driven, for every assignment of pins to   *)
(* the registers, any masks and any number of processes.  The argument:    *)
(* each operation on the control register writes the switchable inputs     *)
(* high (Safe) and leaves LP_INPUT_MODE as it is latched (mode), and once  *)
(* the library is initialised the mode bits are outputs of the library, so *)
(* that a change of the direction of the data pins is not ignored.         *)
(* Outputs keep their level since reading a register gives what its        *)
(* outputs latch but for the pins pulled low, and the port is given back   *)
(* since the interrupt bit stays an output of the library (at the end).    *)
(***************************************************************************)
EXTENDS ParapinUse, TLAPS

Ports == [data : SUBSET LP_DATA_PINS, control : SUBSET ControlPins,
          inp : SUBSET Pins, outp : SUBSET Pins]

\* No switchable input is pulled low by its own latch.
Safe(t) == t.inp \cap LP_SWITCHABLE_PINS \subseteq Latched(t)
\* No input of the data port is driven.
Quiet(t) == t.inp \cap LP_DATA_PINS # {} => LP_INPUT_MODE \in t.control

\* What an operation leaves alone.
SameMode(t, u) == LP_INPUT_MODE \in u.control <=> LP_INPUT_MODE \in t.control
SamePins(t, u) == u.inp = t.inp /\ u.outp = t.outp

LEMMA PinFacts ==
    /\ LP_INPUT_MODE \in ControlPins /\ LP_IRQ_MODE \in ControlPins
    /\ LP_INPUT_MODE \notin lp_invert_masks
    /\ LP_INPUT_MODE \notin LP_SWITCHABLE_PINS /\ LP_INPUT_MODE # LP_IRQ_MODE
    /\ LP_DATA_PINS \cap ControlPins = {} /\ LP_ALWAYS_INPUT_PINS \cap ControlPins = {}
    /\ LP_DATA_PINS \cap LP_ALWAYS_INPUT_PINS = {}
    /\ LP_SWITCHABLE_PINS \subseteq ControlPins
    /\ LP_DATA_PINS \subseteq Pins /\ ControlPins \subseteq Pins
  BY PinAssumption DEF ControlPins, LP_INPUT_MODE, LP_IRQ_MODE, lp_invert_masks, Pins

LEMMA FlipTwice ==
    ASSUME NEW m
    PROVE  \A p \in ControlPins : p \in Flip(Flip(m) \cap ControlPins) <=> p \in m
  BY DEF Flip

\* Writing the control register: the latches are the value written.
LEMMA WriteControl ==
    ASSUME NEW t \in Ports, NEW v
    PROVE  LET u == write_control(t, v)
           IN  /\ u \in Ports /\ SamePins(t, u) /\ u.data = t.data
               /\ \A p \in ControlPins : p \in Latched(u) <=> p \in v
               /\ LP_INPUT_MODE \in u.control <=> LP_INPUT_MODE \in v
  <1> DEFINE u == write_control(t, v)
  <1>1. u.control = Flip(v) \cap ControlPins /\ u.data = t.data /\ SamePins(t, u) /\ u \in Ports
    BY DEF write_control, Ports, SamePins
  <1>2. \A p \in ControlPins : p \notin t.data
    BY PinFacts DEF Ports
  <1>3. \A p \in ControlPins : p \in Latched(u) <=> p \in v
    BY <1>1, <1>2, FlipTwice DEF Latched
  <1>4. LP_INPUT_MODE \in u.control <=> LP_INPUT_MODE \in v
    BY <1>1, PinFacts DEF Flip
  <1> QED
    BY <1>1, <1>3, <1>4

\* Reading it back: LP_INPUT_MODE reads as it is latched.
LEMMA ReadMode ==
    ASSUME NEW t \in Ports, NEW y
    PROVE  LP_INPUT_MODE \in read_register(t, ControlPins, y) <=> LP_INPUT_MODE \in t.control
  <1>1. LP_INPUT_MODE \notin t.data
    BY PinFacts DEF Ports
  <1>2. LP_INPUT_MODE \in Latched(t) <=> LP_INPUT_MODE \in t.control
    BY <1>1, PinFacts DEF Latched, Flip
  <1>3. LP_INPUT_MODE \in Levels(t, y) <=> LP_INPUT_MODE \in Latched(t)
    <2>1. LP_INPUT_MODE \notin LP_DATA_PINS /\ LP_INPUT_MODE \notin LP_ALWAYS_INPUT_PINS
      BY PinFacts
    <2> QED
      BY <1>1, <2>1, PinFacts DEF Levels
  <1>4. LP_INPUT_MODE \in INB(t, ControlPins, y) <=> LP_INPUT_MODE \in Levels(t, y)
    BY PinFacts DEF INB
  <1> QED
    BY <1>2, <1>3, <1>4, PinFacts DEF read_register, Flip

LEMMA SetControl ==
    ASSUME NEW t \in Ports, NEW pins, NEW y
    PROVE  LET u == set_controlreg(t, pins, y)
           IN  /\ u \in Ports /\ SamePins(t, u) /\ Safe(u)
               /\ LP_INPUT_MODE \in pins => LP_INPUT_MODE \in u.control
               /\ LP_INPUT_MODE \notin pins => SameMode(t, u)
  <1> DEFINE v == read_register(t, ControlPins, y) \cup pins \cup (t.inp \cap LP_SWITCHABLE_PINS)
             u == write_control(t, v)
  <1>1. u \in Ports /\ SamePins(t, u) /\ (\A p \in ControlPins : p \in Latched(u) <=> p \in v)
        /\ (LP_INPUT_MODE \in u.control <=> LP_INPUT_MODE \in v)
    BY WriteControl
  <1>2. LP_INPUT_MODE \in v <=> LP_INPUT_MODE \in t.control \/ LP_INPUT_MODE \in pins
    BY ReadMode, PinFacts
  <1>3. t.inp \cap LP_SWITCHABLE_PINS \subseteq v
    OBVIOUS
  <1>4. set_controlreg(t, pins, y) = u
    BY DEF set_controlreg
  <1> HIDE DEF u, v
  <1>5. Safe(u)
    BY <1>1, <1>3, PinFacts DEF Safe, SamePins
  <1> QED
    BY <1>1, <1>2, <1>4, <1>5 DEF SameMode

LEMMA ClearControl ==
    ASSUME NEW t \in Ports, NEW pins, NEW y
    PROVE  LET u == clear_controlreg(t, pins, y)
           IN  /\ u \in Ports /\ SamePins(t, u) /\ Safe(u)
               /\ LP_INPUT_MODE \notin pins => SameMode(t, u)
  <1> DEFINE v == (read_register(t, ControlPins, y) \ pins) \cup (t.inp \cap LP_SWITCHABLE_PINS)
             u == write_control(t, v)
  <1>1. u \in Ports /\ SamePins(t, u) /\ (\A p \in ControlPins : p \in Latched(u) <=> p \in v)
        /\ (LP_INPUT_MODE \in u.control <=> LP_INPUT_MODE \in v)
    BY WriteControl
  <1>2. LP_INPUT_MODE \in v <=> LP_INPUT_MODE \in t.control /\ LP_INPUT_MODE \notin pins
    BY ReadMode, PinFacts
  <1>3. t.inp \cap LP_SWITCHABLE_PINS \subseteq v
    OBVIOUS
  <1>4. clear_controlreg(t, pins, y) = u
    BY DEF clear_controlreg
  <1> HIDE DEF u, v
  <1>5. Safe(u)
    BY <1>1, <1>3, PinFacts DEF Safe, SamePins
  <1> QED
    BY <1>1, <1>2, <1>4, <1>5 DEF SameMode

LEMMA SetData ==
    ASSUME NEW t \in Ports, NEW pins, NEW y, Safe(t)
    PROVE  LET u == set_datareg(t, pins \cap LP_DATA_PINS, y)
           IN  u \in Ports /\ SamePins(t, u) /\ Safe(u) /\ SameMode(t, u)
  <1> DEFINE v == read_register(t, LP_DATA_PINS, y) \cup (pins \cap LP_DATA_PINS)
             u == [t EXCEPT !.data = v]
  <1>1. v \subseteq LP_DATA_PINS
    BY DEF read_register
  <1>2. set_datareg(t, pins \cap LP_DATA_PINS, y) = u
    BY DEF set_datareg
  <1> HIDE DEF v
  <1>3. u \in Ports /\ u.control = t.control /\ SamePins(t, u)
    BY <1>1 DEF Ports, SamePins
  <1>4. Safe(u)
    BY <1>3, PinFacts DEF Safe, Latched, Ports, SamePins
  <1> QED
    BY <1>2, <1>3, <1>4 DEF SameMode

LEMMA ClearData ==
    ASSUME NEW t \in Ports, NEW pins, NEW y, Safe(t)
    PROVE  LET u == clear_datareg(t, pins \cap LP_DATA_PINS, y)
           IN  u \in Ports /\ SamePins(t, u) /\ Safe(u) /\ SameMode(t, u)
  <1> DEFINE v == read_register(t, LP_DATA_PINS, y) \ (pins \cap LP_DATA_PINS)
             u == [t EXCEPT !.data = v]
  <1>1. v \subseteq LP_DATA_PINS
    BY DEF read_register
  <1>2. clear_datareg(t, pins \cap LP_DATA_PINS, y) = u
    BY DEF clear_datareg
  <1> HIDE DEF v
  <1>3. u \in Ports /\ u.control = t.control /\ SamePins(t, u)
    BY <1>1 DEF Ports, SamePins
  <1>4. Safe(u)
    BY <1>3, PinFacts DEF Safe, Latched, Ports, SamePins
  <1> QED
    BY <1>2, <1>3, <1>4 DEF SameMode

(***************************************************************************)
(* Setting and clearing pins.                                              *)
(***************************************************************************)
LEMMA SetPin ==
    ASSUME NEW t \in Ports, NEW pins, NEW y, Safe(t)
    PROVE  LET u == set_pin(t, pins, y)
           IN  /\ u \in Ports /\ SamePins(t, u) /\ Safe(u)
               /\ LP_INPUT_MODE \in pins \cap t.outp => LP_INPUT_MODE \in u.control
               /\ LP_INPUT_MODE \notin pins => SameMode(t, u)
  <1> DEFINE p == pins \cap t.outp
             m == IF p \cap LP_DATA_PINS # {} THEN set_datareg(t, p \cap LP_DATA_PINS, y) ELSE t
             u == IF p \cap ControlPins # {} THEN set_controlreg(m, p \cap ControlPins, y) ELSE m
  <1>1. m \in Ports /\ SamePins(t, m) /\ Safe(m) /\ SameMode(t, m)
    BY SetData DEF SamePins, SameMode
  <1>2. set_pin(t, pins, y) = u
    BY DEF set_pin
  <1> HIDE DEF m
  <1>3. CASE p \cap ControlPins # {}
    <2> DEFINE c == set_controlreg(m, p \cap ControlPins, y)
    <2>1. /\ c \in Ports /\ SamePins(m, c) /\ Safe(c)
          /\ LP_INPUT_MODE \in p \cap ControlPins => LP_INPUT_MODE \in c.control
          /\ LP_INPUT_MODE \notin p \cap ControlPins => SameMode(m, c)
      BY <1>1, SetControl
    <2>2. u = c
      BY <1>3
    <2> HIDE DEF c, u
    <2> QED
      BY <1>1, <1>2, <2>1, <2>2, PinFacts DEF SamePins, SameMode
  <1>4. CASE p \cap ControlPins = {}
    <2>1. u = m /\ LP_INPUT_MODE \notin p
      BY <1>4, PinFacts
    <2> HIDE DEF u
    <2> QED
      BY <1>1, <1>2, <2>1
  <1> QED
    BY <1>3, <1>4

LEMMA ClearPin ==
    ASSUME NEW t \in Ports, NEW pins, NEW y, Safe(t)
    PROVE  LET u == clear_pin(t, pins, y)
           IN  /\ u \in Ports /\ SamePins(t, u) /\ Safe(u)
               /\ LP_INPUT_MODE \notin pins => SameMode(t, u)
  <1> DEFINE p == pins \cap t.outp
             m == IF p \cap LP_DATA_PINS # {} THEN clear_datareg(t, p \cap LP_DATA_PINS, y) ELSE t
             u == IF p \cap ControlPins # {} THEN clear_controlreg(m, p \cap ControlPins, y) ELSE m
  <1>1. m \in Ports /\ SamePins(t, m) /\ Safe(m) /\ SameMode(t, m)
    BY ClearData DEF SamePins, SameMode
  <1>2. clear_pin(t, pins, y) = u
    BY DEF clear_pin
  <1> HIDE DEF m
  <1>3. CASE p \cap ControlPins # {}
    <2> DEFINE c == clear_controlreg(m, p \cap ControlPins, y)
    <2>1. /\ c \in Ports /\ SamePins(m, c) /\ Safe(c)
          /\ LP_INPUT_MODE \notin p \cap ControlPins => SameMode(m, c)
      BY <1>1, ClearControl
    <2>2. u = c
      BY <1>3
    <2> HIDE DEF c, u
    <2> QED
      BY <1>1, <1>2, <2>1, <2>2 DEF SamePins, SameMode
  <1>4. CASE p \cap ControlPins = {}
    <2>1. u = m
      BY <1>4
    <2> HIDE DEF u
    <2> QED
      BY <1>1, <1>2, <2>1
  <1> QED
    BY <1>3, <1>4

(***************************************************************************)
(* Changing directions.                                                    *)
(***************************************************************************)
\* A state of the library after it has been initialised.
Ready(t) == t \in Ports /\ Safe(t) /\ LP_INPUT_MODE \in t.outp

LEMMA DataInput ==
    ASSUME NEW t, NEW y, Ready(t)
    PROVE  LET u == dataline_input_mode(t, y) IN Ready(u) /\ Quiet(u)
  <1> DEFINE m == [t EXCEPT !.inp = @ \cup LP_DATA_PINS, !.outp = @ \ LP_DATA_PINS]
  <1>1. m \in Ports /\ LP_INPUT_MODE \in m.outp
    BY PinFacts DEF Ready, Ports
  <1>2. Safe(m)
    BY PinFacts DEF Ready, Ports, Safe, Latched
  <1>3. dataline_input_mode(t, y) = set_pin(m, {LP_INPUT_MODE}, y)
    BY DEF dataline_input_mode
  <1> HIDE DEF m
  <1> QED
    BY <1>1, <1>2, <1>3, SetPin DEF Ready, Quiet, SamePins

LEMMA DataOutput ==
    ASSUME NEW t, NEW y, Ready(t)
    PROVE  LET u == dataline_output_mode(t, y) IN Ready(u) /\ Quiet(u)
  <1> DEFINE m == [t EXCEPT !.inp = @ \ LP_DATA_PINS, !.outp = @ \cup LP_DATA_PINS]
  <1>1. m \in Ports /\ LP_INPUT_MODE \in m.outp /\ m.inp \cap LP_DATA_PINS = {}
    BY PinFacts DEF Ready, Ports
  <1>2. Safe(m)
    BY PinFacts DEF Ready, Ports, Safe, Latched
  <1>3. dataline_output_mode(t, y) = clear_pin(m, {LP_INPUT_MODE}, y)
    BY DEF dataline_output_mode
  <1> HIDE DEF m
  <1> QED
    BY <1>1, <1>2, <1>3, ClearPin DEF Ready, Quiet, SamePins

LEMMA ControlModes ==
    ASSUME NEW t, NEW y, Ready(t), NEW pins \in SUBSET LP_SWITCHABLE_PINS
    PROVE  /\ Ready(controlreg_input_mode(t, pins, y))
           /\ Ready(controlreg_output_mode(t, pins, y))
           /\ Quiet(t) => /\ Quiet(controlreg_input_mode(t, pins, y))
                          /\ Quiet(controlreg_output_mode(t, pins, y))
  <1> DEFINE m == [t EXCEPT !.inp = @ \cup pins, !.outp = @ \ pins]
             n == [t EXCEPT !.inp = @ \ pins, !.outp = @ \cup pins]
  <1>1. m \in Ports /\ n \in Ports
    BY PinFacts DEF Ready, Ports
  <1>2. LP_INPUT_MODE \in m.outp /\ LP_INPUT_MODE \in n.outp
    BY PinFacts DEF Ready, Ports
  <1>3. /\ m.inp \cap LP_DATA_PINS = t.inp \cap LP_DATA_PINS /\ m.control = t.control
        /\ n.inp \cap LP_DATA_PINS = t.inp \cap LP_DATA_PINS /\ n.control = t.control
    BY PinFacts DEF Ready, Ports
  <1>4. /\ controlreg_input_mode(t, pins, y) = set_controlreg(m, {}, y)
        /\ controlreg_output_mode(t, pins, y) = set_controlreg(n, {}, y)
    BY DEF controlreg_input_mode, controlreg_output_mode
  <1> HIDE DEF m, n
  <1>5. ASSUME NEW k \in Ports, LP_INPUT_MODE \in k.outp,
               k.inp \cap LP_DATA_PINS = t.inp \cap LP_DATA_PINS, k.control = t.control
        PROVE  /\ Ready(set_controlreg(k, {}, y))
               /\ Quiet(t) => Quiet(set_controlreg(k, {}, y))
    BY <1>5, SetControl DEF Ready, Quiet, SamePins, SameMode
  <1> QED
    BY <1>1, <1>2, <1>3, <1>4, <1>5

LEMMA Modes ==
    ASSUME NEW t, NEW y, Ready(t), NEW pins
    PROVE  /\ Ready(pin_input_mode(t, pins, y)) /\ Ready(pin_output_mode(t, pins, y))
           /\ Quiet(t) => /\ Quiet(pin_input_mode(t, pins, y))
                          /\ Quiet(pin_output_mode(t, pins, y))
  <1> DEFINE c == pins \cap LP_SWITCHABLE_PINS
             m == IF pins \cap LP_DATA_PINS # {} THEN dataline_input_mode(t, y) ELSE t
             n == IF pins \cap LP_DATA_PINS # {} THEN dataline_output_mode(t, y) ELSE t
  <1>1. Ready(m) /\ (Quiet(t) => Quiet(m)) /\ Ready(n) /\ (Quiet(t) => Quiet(n))
    BY DataInput, DataOutput
  <1>2. /\ pin_input_mode(t, pins, y) = IF c # {} THEN controlreg_input_mode(m, c, y) ELSE m
        /\ pin_output_mode(t, pins, y) = IF c # {} THEN controlreg_output_mode(n, c, y) ELSE n
    BY DEF pin_input_mode, pin_output_mode
  <1> HIDE DEF m, n
  <1>3. c \in SUBSET LP_SWITCHABLE_PINS
    OBVIOUS
  <1> HIDE DEF c
  <1> QED
    BY <1>1, <1>2, <1>3, ControlModes

LEMMA InitInternal ==
    ASSUME NEW t \in Ports
    PROVE  Ready(pin_init_internal(t)) /\ Quiet(pin_init_internal(t))
  <1> DEFINE u == pin_init_internal(t)
  <1>1. /\ u.outp = {LP_INPUT_MODE, LP_IRQ_MODE}
        /\ u.inp = LP_ALWAYS_INPUT_PINS \cup {LP_INPUT_MODE, LP_IRQ_MODE} /\ u \in Ports
    BY PinFacts DEF pin_init_internal, Ports, Pins
  <1>2. u.inp \cap LP_SWITCHABLE_PINS = {} /\ u.inp \cap LP_DATA_PINS = {}
    BY <1>1, PinAssumption, PinFacts DEF ControlPins, LP_IRQ_MODE
  <1> HIDE DEF u
  <1>3. Ready(u) /\ Quiet(u)
    BY <1>1, <1>2 DEF Ready, Safe, Quiet
  <1> QED
    BY <1>3 DEF u

(***************************************************************************)
(* The invariant.                                                          *)
(***************************************************************************)
PinInv ==
    /\ r \in Ports /\ Safe(r)
    /\ ~raw => Quiet(r)
    /\ holders # {} => LP_INPUT_MODE \in r.outp

LEMMA PinInit == Init => PinInv
  <1> SUFFICES ASSUME Init PROVE PinInv
    OBVIOUS
  <1>1. PICK data \in SUBSET LP_DATA_PINS, control \in {{}, {LP_IRQ_MODE}} :
            r = [data |-> data, control |-> control, inp |-> {}, outp |-> {}]
    BY DEF Init
  <1>2. r \in Ports /\ r.inp = {}
    BY <1>1, PinFacts DEF Ports
  <1>3. holders = {}
    BY DEF Init
  <1> QED
    BY <1>2, <1>3 DEF PinInv, Safe, Quiet

\* A call of the library that finds it initialised, or only sets and clears.
LEMMA CallInv ==
    ASSUME PinInv, NEW op \in {"set", "clear", "in", "out"}, NEW pins, Call(op, pins),
           op \in {"in", "out"} => LP_INPUT_MODE \in r.outp, UNCHANGED holders
    PROVE  PinInv'
  <1>1. r' = Result(op, pins) /\ raw' = (raw \/ (op \in {"set", "clear"} /\ LP_INPUT_MODE \in pins))
    BY DEF Call
  <1>2. CASE op = "set"
    <2>1. r' = set_pin(r, pins, x)
      BY <1>1, <1>2 DEF Result
    <2>2. /\ r' \in Ports /\ SamePins(r, r') /\ Safe(r')
          /\ LP_INPUT_MODE \notin pins => SameMode(r, r')
      BY <2>1, SetPin DEF PinInv
    <2>3. ~raw' => ~raw /\ LP_INPUT_MODE \notin pins
      BY <1>1, <1>2
    <2> QED
      BY <2>2, <2>3 DEF PinInv, Quiet, SamePins, SameMode
  <1>3. CASE op = "clear"
    <2>1. r' = clear_pin(r, pins, x)
      BY <1>1, <1>3 DEF Result
    <2>2. /\ r' \in Ports /\ SamePins(r, r') /\ Safe(r')
          /\ LP_INPUT_MODE \notin pins => SameMode(r, r')
      BY <2>1, ClearPin DEF PinInv
    <2>3. ~raw' => ~raw /\ LP_INPUT_MODE \notin pins
      BY <1>1, <1>3
    <2> QED
      BY <2>2, <2>3 DEF PinInv, Quiet, SamePins, SameMode
  <1>4. CASE op \in {"in", "out"}
    <2>1. r' = IF op = "in" THEN pin_input_mode(r, pins, x) ELSE pin_output_mode(r, pins, x)
      BY <1>1, <1>4 DEF Result
    <2>2. Ready(r) /\ (~raw' => Quiet(r))
      BY <1>1, <1>4 DEF Ready, PinInv
    <2>3. Ready(r') /\ (~raw' => Quiet(r'))
      BY <2>1, <2>2, Modes
    <2> QED
      BY <2>3 DEF PinInv, Ready
  <1> QED
    BY <1>2, <1>3, <1>4

LEMMA InterruptBit ==
    ASSUME NEW t \in Ports, Safe(t), NEW set
    PROVE  LET u == change_pin(t, {LP_IRQ_MODE}, set, x)
               c == clear_pin(t, {LP_IRQ_MODE}, x)
           IN  /\ u \in Ports /\ Safe(u) /\ SamePins(t, u) /\ SameMode(t, u)
               /\ c \in Ports /\ Safe(c) /\ SamePins(t, c) /\ SameMode(t, c)
  <1>1. LP_INPUT_MODE \notin {LP_IRQ_MODE}
    BY PinFacts
  <1>2. change_pin(t, {LP_IRQ_MODE}, set, x) \in {set_pin(t, {LP_IRQ_MODE}, x), clear_pin(t, {LP_IRQ_MODE}, x)}
    BY DEF change_pin
  <1> QED
    BY <1>1, <1>2, SetPin, ClearPin

LEMMA DriverStep ==
    ASSUME PinInv, NEW p \in Procs, ppdrv_open(p) \/ ppdrv_release(p) \/ ppdrv_ioctl(p)
    PROVE  PinInv'
  <1>1. CASE ppdrv_open(p)
    <2>1. CASE UNCHANGED <<r, history>> /\ parapin_dev' = None
      <3>1. UNCHANGED <<r, raw, holders>>
        BY <1>1, <2>1 DEF ppdrv_open, history
      <3> QED
        BY <3>1 DEF PinInv
    <2>2. CASE r' = clear_pin(pin_init_internal(r), {LP_IRQ_MODE}, x) /\ Fresh
      <3> DEFINE t == pin_init_internal(r)
      <3>1. Ready(t) /\ Quiet(t)
        BY InitInternal DEF PinInv
      <3>2. r' \in Ports /\ Safe(r') /\ SamePins(t, r') /\ SameMode(t, r')
        BY <2>2, <3>1, InterruptBit DEF Ready
      <3> HIDE DEF t
      <3> QED
        BY <3>1, <3>2 DEF PinInv, Ready, Quiet, SamePins, SameMode
    <2> QED
      BY <1>1, <2>1, <2>2 DEF ppdrv_open, pin_init_kernel
  <1>2. CASE ppdrv_release(p)
    <2>1. r' = change_pin(r, {LP_IRQ_MODE}, old_irq_mode, x) /\ raw' = raw /\ holders' = holders \ {p}
      BY <1>2 DEF ppdrv_release, pin_release, history
    <2>2. r' \in Ports /\ Safe(r') /\ SamePins(r, r') /\ SameMode(r, r')
      BY <2>1, InterruptBit DEF PinInv
    <2> QED
      BY <2>1, <2>2 DEF PinInv, Quiet, SamePins, SameMode
  <1>3. CASE ppdrv_ioctl(p)
    <2>1. PICK op \in {"set", "clear", "in", "out"}, m \in Masks : Call(op, m)
      BY <1>3 DEF ppdrv_ioctl
    <2>2. UNCHANGED holders /\ LP_INPUT_MODE \in r.outp
      BY <1>3 DEF ppdrv_ioctl, kernel, PinInv
    <2> QED
      BY <2>1, <2>2, CallInv
  <1> QED
    BY <1>1, <1>2, <1>3

LEMMA PythonStep == ASSUME PinInv, PythonProgram PROVE PinInv'
  <1> USE DEF Rest, kernel
  <1>1. Ready(pin_init_user) /\ Quiet(pin_init_user)
    BY InitInternal DEF pin_init_user, PinInv
  <1>2. CASE Port_init
    <2>1. PICK inmode, outmode \in {{}} \cup Masks :
            LET u == IF inmode = {} THEN pin_init_user ELSE pin_input_mode(pin_init_user, inmode, x)
            IN  r' = IF outmode = {} THEN u ELSE pin_output_mode(u, outmode, x)
      BY <1>2 DEF Port_init
    <2> DEFINE u == IF inmode = {} THEN pin_init_user ELSE pin_input_mode(pin_init_user, inmode, x)
    <2>2. Ready(u) /\ Quiet(u)
      BY <1>1, Modes
    <2>3. r' = IF outmode = {} THEN u ELSE pin_output_mode(u, outmode, x)
      BY <2>1
    <2> HIDE DEF u
    <2>4. Ready(r') /\ Quiet(r')
      BY <2>2, <2>3, Modes
    <2> QED
      BY <2>4 DEF PinInv, Ready
  <1>3. CASE parapin_pin_init_user
    BY <1>1, <1>3 DEF parapin_pin_init_user, PinInv, Ready
  <1>4. CASE Pin_init \/ Pin_pulse \/ parapin_pulse_pin
    <2>1. UNCHANGED <<r, raw, holders>>
      BY <1>4 DEF Pin_init, Pin_pulse, parapin_pulse_pin, Pulse, history
    <2> QED
      BY <2>1 DEF PinInv
  <1>5. CASE PinCall
    <2>1. \E m : \E op \in {"set", "clear"} : Call(op, m)
      BY <1>5 DEF PinCall, Pin_set, Pin_clear, Pin_change, parapin_set_pin, parapin_clear_pin,
                  parapin_change_pin
    <2>2. UNCHANGED holders
      BY <1>5 DEF PinCall
    <2> QED
      BY <2>1, <2>2, CallInv
  <1>6. CASE ModeCall
    <2>1. \E m : \E op \in {"in", "out"} : Call(op, m)
      BY <1>6 DEF ModeCall, Port_set_input_mode, Port_set_output_mode, parapin_pin_mode,
                  parapin_pin_input_mode, parapin_pin_output_mode
    <2>2. UNCHANGED holders /\ LP_INPUT_MODE \in r.outp
      BY <1>6 DEF ModeCall
    <2> QED
      BY <2>1, <2>2, CallInv
  <1>7. CASE PulseLevel
    <2>1. \E m : \E op \in {"set", "clear"} : Call(op, m)
      BY <1>7 DEF PulseLevel
    <2>2. UNCHANGED holders
      BY <1>7 DEF PulseLevel
    <2> QED
      BY <2>1, <2>2, CallInv
  <1> QED
    BY <1>2, <1>3, <1>4, <1>5, <1>6, <1>7 DEF PythonProgram

LEMMA PinStep == PinInv /\ [Next]_vars => PinInv'
  <1> SUFFICES ASSUME PinInv, [Next]_vars PROVE PinInv'
    OBVIOUS
  <1>1. CASE OtherDriver \/ Outside \/ UNCHANGED vars
    <2>1. UNCHANGED <<r, raw, holders>>
      BY <1>1 DEF OtherDriver, Outside, vars, kernel, history
    <2> QED
      BY <2>1 DEF PinInv
  <1> QED
    BY <1>1, DriverStep, PythonStep DEF Next

\* Types of the registers and masks, and no input that is driven.
THEOREM PinInvariant == Spec => []PinInv
  BY PinInit, PinStep, PTL DEF Spec

\* No pin used as input is driven, by its own latch or by the data port.
THEOREM PinsInputsFree == Spec => []InputsFree
  <1>1. PinInv => InputsFree
    BY DEF PinInv, InputsFree, Safe, Quiet, Driving
  <1> QED
    BY <1>1, PinInvariant, PTL

\* Reading a register gives the levels of its pins, inverted or not.
LEMMA ReadRegister ==
    ASSUME NEW t, NEW pins, NEW y
    PROVE  read_register(t, pins, y) = Levels(t, y) \cap pins
  BY DEF read_register, INB, Flip

LEMMA ReadPins ==
    ASSUME PinInv, NEW inputs,
           inputs \subseteq LP_ALWAYS_INPUT_PINS \cup LP_SWITCHABLE_PINS \cup IF raw THEN {} ELSE LP_DATA_PINS,
           inputs \subseteq r.inp
    PROVE  pin_is_set(r, inputs, x) = inputs \cap x
  <1>1. inputs \subseteq LP_DATA_PINS \cup LP_ALWAYS_INPUT_PINS \cup ControlPins
    BY PinFacts
  <1>2. pin_is_set(r, inputs, x) = Levels(r, x) \cap inputs
    <2>1. inputs \cap r.inp = inputs
      OBVIOUS
    <2>2. pin_is_set(r, inputs, x)
            = UNION {(Levels(r, x) \cap reg) \cap inputs : reg \in {LP_DATA_PINS, LP_ALWAYS_INPUT_PINS, ControlPins}}
      BY <2>1, ReadRegister DEF pin_is_set
    <2> QED
      BY <1>1, <2>2
  <1>3. \A p \in inputs : p \in Levels(r, x) <=> p \in x
    <2> SUFFICES ASSUME NEW p \in inputs PROVE p \in Levels(r, x) <=> p \in x
      OBVIOUS
    <2>1. CASE p \in LP_DATA_PINS
      <3>1. ~raw /\ LP_INPUT_MODE \in r.control
        BY <2>1, PinFacts DEF PinInv, Quiet
      <3> QED
        BY <2>1, <3>1, PinFacts DEF Levels, Driving
    <2>2. CASE p \in LP_ALWAYS_INPUT_PINS
      BY <2>2, PinFacts DEF Levels, PinInv, Ports
    <2>3. CASE p \in LP_SWITCHABLE_PINS
      <3>1. p \in Latched(r)
        BY <2>3 DEF PinInv, Safe
      <3>2. p \notin LP_DATA_PINS /\ p \notin LP_ALWAYS_INPUT_PINS /\ p \notin r.data
            /\ p \notin {LP_IRQ_MODE, LP_INPUT_MODE}
        BY <2>3, PinFacts, PinAssumption DEF PinInv, Ports, LP_IRQ_MODE
      <3> QED
        BY <2>3, <3>1, <3>2 DEF Levels
    <2> QED
      BY <2>1, <2>2, <2>3
  <1> QED
    BY <1>2, <1>3

\* An input reads as what the outside puts on it.
THEOREM PinsInputsTrue == Spec => []InputsTrue
  <1>1. PinInv => InputsTrue
    <2> SUFFICES ASSUME PinInv PROVE InputsTrue
      OBVIOUS
    <2> DEFINE inputs == r.inp \cap (LP_ALWAYS_INPUT_PINS \cup LP_SWITCHABLE_PINS
                                     \cup IF raw THEN {} ELSE LP_DATA_PINS)
    <2>1. pin_is_set(r, inputs, x) = inputs \cap x
      BY ReadPins
    <2>2. \A p \in inputs : pin_is_set(r, {p}, x) = {p} \cap x
      BY ReadPins
    <2> HIDE DEF inputs
    <2>3. /\ Pin_is_set(inputs) = inputs \cap x
          /\ \A p \in inputs : Pin_nonzero({p}) <=> p \in x
          /\ parapin_pin_is_set(inputs) = inputs \cap x
      BY <2>1, <2>2 DEF Pin_is_set, Pin_nonzero, parapin_pin_is_set
    <2> QED
      BY <2>3 DEF InputsTrue, inputs
  <1> QED
    BY <1>1, PinInvariant, PTL

(***************************************************************************)
(* Outputs keep their level.                                               *)
(***************************************************************************)
ModeBits == {LP_IRQ_MODE, LP_INPUT_MODE}
Apart(t) == t.inp \cap t.outp \subseteq ModeBits /\ t.outp \subseteq LP_DATA_PINS \cup ControlPins
Driven(t) == t.outp \cap LP_DATA_PINS # {} => Driving(t)

\* p is latched in u as it is in t, unless the outside y pulls it low.
Same(t, u, y, p) ==
    /\ p \in Latched(t) /\ (p \in LP_SWITCHABLE_PINS => p \in y) => p \in Latched(u)
    /\ p \notin Latched(t) => p \notin Latched(u)

LEMMA ReadSwitchable ==
    ASSUME NEW t \in Ports, NEW y, NEW p \in LP_SWITCHABLE_PINS
    PROVE  p \in read_register(t, ControlPins, y) <=> p \in Latched(t) /\ p \in y
  <1>1. p \notin LP_DATA_PINS /\ p \notin LP_ALWAYS_INPUT_PINS /\ p \notin t.data
        /\ p \notin {LP_IRQ_MODE, LP_INPUT_MODE} /\ p \in ControlPins
    BY PinFacts, PinAssumption DEF Ports, LP_IRQ_MODE
  <1>2. p \in Levels(t, y) <=> p \in Latched(t) /\ p \in y
    BY <1>1 DEF Levels
  <1> QED
    BY <1>1, <1>2, ReadRegister

LEMMA DataLatched ==
    ASSUME NEW t \in Ports, NEW p \in LP_DATA_PINS
    PROVE  p \in Latched(t) <=> p \in t.data
  BY PinFacts DEF Latched

LEMMA ControlLevels ==
    ASSUME NEW t \in Ports, NEW pins, NEW y
    PROVE  LET u == set_controlreg(t, pins, y)
               c == clear_controlreg(t, pins, y)
           IN  /\ u.data = t.data /\ c.data = t.data
               /\ \A p \in LP_SWITCHABLE_PINS :
                    /\ p \in pins => p \in Latched(u)
                    /\ p \in pins /\ p \notin t.inp => p \notin Latched(c)
                    /\ p \notin pins /\ p \notin t.inp => Same(t, u, y, p) /\ Same(t, c, y, p)
  <1> DEFINE v == read_register(t, ControlPins, y) \cup pins \cup (t.inp \cap LP_SWITCHABLE_PINS)
             w == (read_register(t, ControlPins, y) \ pins) \cup (t.inp \cap LP_SWITCHABLE_PINS)
             u == write_control(t, v)
             c == write_control(t, w)
  <1>1. u.data = t.data /\ \A p \in ControlPins : p \in Latched(u) <=> p \in v
    BY WriteControl
  <1>2. c.data = t.data /\ \A p \in ControlPins : p \in Latched(c) <=> p \in w
    BY WriteControl
  <1>3. set_controlreg(t, pins, y) = u /\ clear_controlreg(t, pins, y) = c
    BY DEF set_controlreg, clear_controlreg
  <1>4. \A p \in LP_SWITCHABLE_PINS :
            p \in read_register(t, ControlPins, y) <=> p \in Latched(t) /\ p \in y
    BY ReadSwitchable
  <1>5. \A p \in LP_SWITCHABLE_PINS : p \in ControlPins
    BY PinFacts
  <1> HIDE DEF u, c
  <1> QED
    BY <1>1, <1>2, <1>3, <1>4, <1>5 DEF Same

LEMMA DataLevels ==
    ASSUME NEW t \in Ports, NEW pins, NEW y, Driving(t)
    PROVE  /\ set_datareg(t, pins, y).data = t.data \cup pins
           /\ clear_datareg(t, pins, y).data = t.data \ pins
  <1>1. read_register(t, LP_DATA_PINS, y) = Levels(t, y) \cap LP_DATA_PINS
    BY ReadRegister
  <1>2. Levels(t, y) \cap LP_DATA_PINS = t.data
    <2>1. \A p \in LP_DATA_PINS : p \in Levels(t, y) <=> p \in t.data
      BY PinFacts DEF Levels
    <2> QED
      BY <2>1 DEF Ports
  <1> QED
    BY <1>1, <1>2 DEF set_datareg, clear_datareg, Ports

\* Outputs that a call does not name keep their level, the others get it.
LEMMA PinLevels ==
    ASSUME NEW t \in Ports, NEW pins, NEW y, Safe(t), Apart(t), Driven(t)
    PROVE  LET u == set_pin(t, pins, y)
               c == clear_pin(t, pins, y)
           IN  \A p \in t.outp \ ModeBits :
                 /\ p \in pins => p \in Latched(u) /\ p \notin Latched(c)
                 /\ p \notin pins => Same(t, u, y, p) /\ Same(t, c, y, p)
  <1> DEFINE q == pins \cap t.outp
             d == q \cap LP_DATA_PINS
             k == q \cap ControlPins
             m == IF d # {} THEN set_datareg(t, d, y) ELSE t
             n == IF d # {} THEN clear_datareg(t, d, y) ELSE t
             u == IF k # {} THEN set_controlreg(m, k, y) ELSE m
             c == IF k # {} THEN clear_controlreg(n, k, y) ELSE n
  <1>1. set_pin(t, pins, y) = u /\ clear_pin(t, pins, y) = c
    BY DEF set_pin, clear_pin
  <1>2. m.data = t.data \cup d /\ n.data = t.data \ d
    <2>1. CASE d # {}
      <3>1. Driving(t)
        BY <2>1 DEF Driven
      <3> QED
        BY <2>1, <3>1, DataLevels
    <2>2. CASE d = {}
      BY <2>2
    <2> QED
      BY <2>1, <2>2
  <1>3. m \in Ports /\ n \in Ports /\ m.control = t.control /\ n.control = t.control
        /\ m.inp = t.inp /\ n.inp = t.inp
    <2>1. set_datareg(t, d, y) \in Ports /\ clear_datareg(t, d, y) \in Ports
          /\ SamePins(t, set_datareg(t, d, y)) /\ SamePins(t, clear_datareg(t, d, y))
      BY SetData, ClearData
    <2>2. set_datareg(t, d, y).control = t.control /\ clear_datareg(t, d, y).control = t.control
      BY DEF set_datareg, clear_datareg, Ports
    <2> QED
      BY <2>1, <2>2 DEF SamePins
  <1> HIDE DEF m, n
  <1>4. u.data = m.data /\ c.data = n.data /\ u \in Ports /\ c \in Ports
    BY <1>3, ControlLevels, SetControl, ClearControl
  <1>5. \A p \in LP_SWITCHABLE_PINS : /\ p \in Latched(m) <=> p \in Latched(t)
                                      /\ p \in Latched(n) <=> p \in Latched(t)
    BY <1>3, PinFacts DEF Latched, Ports
  <1>6. \A p \in LP_SWITCHABLE_PINS \ t.inp :
          /\ p \in k => p \in Latched(u) /\ p \notin Latched(c)
          /\ p \notin k => Same(m, u, y, p) /\ Same(n, c, y, p)
    <2>1. \A p : Same(m, m, y, p) /\ Same(n, n, y, p)
      BY DEF Same
    <2> QED
      BY <1>3, <2>1, ControlLevels
  <1> HIDE DEF u, c
  <1>7. ASSUME NEW p \in t.outp \ ModeBits
        PROVE  /\ p \in pins => p \in Latched(u) /\ p \notin Latched(c)
               /\ p \notin pins => Same(t, u, y, p) /\ Same(t, c, y, p)
    <2>1. CASE p \in LP_DATA_PINS
      <3>1. /\ p \in Latched(u) <=> p \in t.data \cup d
            /\ p \in Latched(c) <=> p \in t.data \ d
            /\ p \in Latched(t) <=> p \in t.data
        BY <1>2, <1>4, <2>1, DataLatched
      <3>2. p \in d <=> p \in pins
        BY <2>1
      <3> QED
        BY <3>1, <3>2 DEF Same
    <2>2. CASE p \in LP_SWITCHABLE_PINS
      <3>1. p \notin t.inp
        BY DEF Apart
      <3>2. p \in k <=> p \in pins
        BY <2>2, PinFacts
      <3> QED
        BY <1>5, <1>6, <2>2, <3>1, <3>2 DEF Same
    <2>3. p \in LP_DATA_PINS \/ p \in LP_SWITCHABLE_PINS
      BY DEF Apart, ControlPins, ModeBits
    <2> QED
      BY <2>1, <2>2, <2>3
  <1> QED
    BY <1>1, <1>7

LEMMA ControlSame ==
    ASSUME NEW t \in Ports, Apart(t), NEW pins, NEW y
    PROVE  LET u == set_controlreg(t, pins, y)
               c == clear_controlreg(t, pins, y)
           IN  \A p \in t.outp \ ModeBits : p \notin pins => Same(t, u, y, p) /\ Same(t, c, y, p)
  <1> DEFINE u == set_controlreg(t, pins, y)
             c == clear_controlreg(t, pins, y)
  <1>1. u \in Ports /\ c \in Ports /\ u.data = t.data /\ c.data = t.data
    BY SetControl, ClearControl, ControlLevels
  <1>2. \A p \in LP_SWITCHABLE_PINS :
          p \notin pins /\ p \notin t.inp => Same(t, u, y, p) /\ Same(t, c, y, p)
    BY ControlLevels
  <1> HIDE DEF u, c
  <1>3. ASSUME NEW p \in t.outp \ ModeBits, p \notin pins
        PROVE  Same(t, u, y, p) /\ Same(t, c, y, p)
    <2>1. CASE p \in LP_DATA_PINS
      BY <1>1, <2>1, DataLatched DEF Same
    <2>2. CASE p \in LP_SWITCHABLE_PINS
      BY <1>2, <1>3, <2>2 DEF Apart
    <2>3. p \in LP_DATA_PINS \/ p \in LP_SWITCHABLE_PINS
      BY DEF Apart, ControlPins, ModeBits
    <2> QED
      BY <2>1, <2>2, <2>3
  <1> QED
    BY <1>3 DEF u, c

\* LP_INPUT_MODE is an output of its own register only.
LEMMA ModeBitCall ==
    ASSUME NEW t \in Ports, LP_INPUT_MODE \in t.outp, NEW y
    PROVE  /\ set_pin(t, {LP_INPUT_MODE}, y) = set_controlreg(t, {LP_INPUT_MODE}, y)
           /\ clear_pin(t, {LP_INPUT_MODE}, y) = clear_controlreg(t, {LP_INPUT_MODE}, y)
           /\ Driving(clear_pin(t, {LP_INPUT_MODE}, y))
  <1>1. {LP_INPUT_MODE} \cap t.outp = {LP_INPUT_MODE} /\ {LP_INPUT_MODE} \cap LP_DATA_PINS = {}
        /\ {LP_INPUT_MODE} \cap ControlPins = {LP_INPUT_MODE} /\ {LP_INPUT_MODE} # {}
    BY PinFacts
  <1>2. /\ set_pin(t, {LP_INPUT_MODE}, y) = set_controlreg(t, {LP_INPUT_MODE}, y)
        /\ clear_pin(t, {LP_INPUT_MODE}, y) = clear_controlreg(t, {LP_INPUT_MODE}, y)
    BY <1>1 DEF set_pin, clear_pin
  <1>3. Driving(clear_controlreg(t, {LP_INPUT_MODE}, y))
    <2> DEFINE v == (read_register(t, ControlPins, y) \ {LP_INPUT_MODE})
                    \cup (t.inp \cap LP_SWITCHABLE_PINS)
    <2>1. LP_INPUT_MODE \in write_control(t, v).control <=> LP_INPUT_MODE \in v
      BY WriteControl
    <2>2. LP_INPUT_MODE \notin v
      BY PinFacts
    <2> QED
      BY <2>1, <2>2 DEF Driving, clear_controlreg
  <1> QED
    BY <1>2, <1>3

\* A change of direction keeps the levels of the pins that stay outputs.
Steady(t, u, y) == /\ Apart(u) /\ (Driven(t) => Driven(u))
                   /\ \A p \in (t.outp \cap u.outp) \ ModeBits : Same(t, u, y, p)

LEMMA DataSteady ==
    ASSUME NEW t, NEW y, Ready(t), Apart(t)
    PROVE  LET u == dataline_input_mode(t, y)
               c == dataline_output_mode(t, y)
           IN  Steady(t, u, y) /\ Steady(t, c, y) /\ u.outp \subseteq t.outp /\ t.outp \subseteq c.outp
  <1> DEFINE m == [t EXCEPT !.inp = @ \cup LP_DATA_PINS, !.outp = @ \ LP_DATA_PINS]
             n == [t EXCEPT !.inp = @ \ LP_DATA_PINS, !.outp = @ \cup LP_DATA_PINS]
             u == set_pin(m, {LP_INPUT_MODE}, y)
             c == clear_pin(n, {LP_INPUT_MODE}, y)
  <1>1. /\ m \in Ports /\ m.outp = t.outp \ LP_DATA_PINS /\ m.inp = t.inp \cup LP_DATA_PINS
        /\ n \in Ports /\ n.outp = t.outp \cup LP_DATA_PINS /\ n.inp = t.inp \ LP_DATA_PINS
        /\ Latched(m) = Latched(t) /\ Latched(n) = Latched(t)
    BY PinFacts DEF Ready, Ports, Latched
  <1>2. LP_INPUT_MODE \in m.outp /\ LP_INPUT_MODE \in n.outp
    BY <1>1, PinFacts DEF Ready
  <1>3. dataline_input_mode(t, y) = u /\ dataline_output_mode(t, y) = c
    BY DEF dataline_input_mode, dataline_output_mode
  <1> HIDE DEF m, n
  <1>4. Apart(m) /\ Apart(n)
    BY <1>1, PinFacts DEF Apart
  <1>5. /\ u = set_controlreg(m, {LP_INPUT_MODE}, y) /\ c = clear_controlreg(n, {LP_INPUT_MODE}, y)
        /\ Driving(c)
    BY <1>1, <1>2, ModeBitCall
  <1>6. SamePins(m, u) /\ SamePins(n, c)
    BY <1>1, <1>5, SetControl, ClearControl
  <1>7. \A p \in m.outp \ ModeBits : Same(m, u, y, p)
    <2>1. \A p \in m.outp \ ModeBits : p \notin {LP_INPUT_MODE}
      BY DEF ModeBits
    <2> QED
      BY <1>1, <1>4, <1>5, <2>1, ControlSame
  <1>8. \A p \in n.outp \ ModeBits : Same(n, c, y, p)
    <2>1. \A p \in n.outp \ ModeBits : p \notin {LP_INPUT_MODE}
      BY DEF ModeBits
    <2> QED
      BY <1>1, <1>4, <1>5, <2>1, ControlSame
  <1> HIDE DEF u, c
  <1>9. Steady(t, u, y) /\ u.outp \subseteq t.outp
    BY <1>1, <1>4, <1>6, <1>7 DEF Steady, Apart, Driven, SamePins, Same
  <1>10. Steady(t, c, y) /\ t.outp \subseteq c.outp
    BY <1>1, <1>4, <1>5, <1>6, <1>8 DEF Steady, Apart, Driven, SamePins, Same
  <1> QED
    BY <1>3, <1>9, <1>10

LEMMA ControlSteady ==
    ASSUME NEW t, NEW y, Ready(t), Apart(t), NEW pins \in SUBSET LP_SWITCHABLE_PINS
    PROVE  LET u == controlreg_input_mode(t, pins, y)
               c == controlreg_output_mode(t, pins, y)
           IN  Steady(t, u, y) /\ Steady(t, c, y) /\ u.outp \subseteq t.outp /\ t.outp \subseteq c.outp
  <1> DEFINE m == [t EXCEPT !.inp = @ \cup pins, !.outp = @ \ pins]
             n == [t EXCEPT !.inp = @ \ pins, !.outp = @ \cup pins]
  <1>1. /\ m \in Ports /\ m.outp = t.outp \ pins /\ m.inp = t.inp \cup pins
        /\ n \in Ports /\ n.outp = t.outp \cup pins /\ n.inp = t.inp \ pins
        /\ Latched(m) = Latched(t) /\ Latched(n) = Latched(t)
        /\ m.control = t.control /\ n.control = t.control
    BY PinFacts DEF Ready, Ports, Latched
  <1>2. /\ controlreg_input_mode(t, pins, y) = set_controlreg(m, {}, y)
        /\ controlreg_output_mode(t, pins, y) = set_controlreg(n, {}, y)
    BY DEF controlreg_input_mode, controlreg_output_mode
  <1> HIDE DEF m, n
  <1>3. ASSUME NEW k \in Ports, Apart(k), k.outp \cap LP_DATA_PINS = t.outp \cap LP_DATA_PINS,
               k.control = t.control, Latched(k) = Latched(t)
        PROVE  Steady(t, set_controlreg(k, {}, y), y) /\ set_controlreg(k, {}, y).outp = k.outp
    <2> DEFINE u == set_controlreg(k, {}, y)
    <2>1. SamePins(k, u) /\ SameMode(k, u)
      BY SetControl
    <2>2. \A p \in k.outp \ ModeBits : Same(k, u, y, p)
      BY <1>3, ControlSame
    <2> HIDE DEF u
    <2>3. Apart(u)
      BY <1>3, <2>1 DEF Apart, SamePins
    <2>4. Driven(t) => Driven(u)
      BY <1>3, <2>1 DEF Driven, Driving, SamePins, SameMode
    <2>5. \A p \in (t.outp \cap u.outp) \ ModeBits : Same(t, u, y, p)
      BY <1>3, <2>1, <2>2 DEF SamePins, Same
    <2> QED
      BY <2>1, <2>3, <2>4, <2>5 DEF Steady, SamePins, u
  <1>4. Apart(m) /\ Apart(n)
    BY <1>1, PinFacts DEF Apart
  <1>5. /\ m.outp \cap LP_DATA_PINS = t.outp \cap LP_DATA_PINS
        /\ n.outp \cap LP_DATA_PINS = t.outp \cap LP_DATA_PINS
    BY <1>1, PinFacts
  <1> QED
    BY <1>1, <1>2, <1>3, <1>4, <1>5

LEMMA ModesSteady ==
    ASSUME NEW t, NEW y, Ready(t), Apart(t), NEW pins
    PROVE  Steady(t, pin_input_mode(t, pins, y), y) /\ Steady(t, pin_output_mode(t, pins, y), y)
  <1> DEFINE c == pins \cap LP_SWITCHABLE_PINS
             m == IF pins \cap LP_DATA_PINS # {} THEN dataline_input_mode(t, y) ELSE t
             n == IF pins \cap LP_DATA_PINS # {} THEN dataline_output_mode(t, y) ELSE t
             u == IF c # {} THEN controlreg_input_mode(m, c, y) ELSE m
             w == IF c # {} THEN controlreg_output_mode(n, c, y) ELSE n
  <1>1. pin_input_mode(t, pins, y) = u /\ pin_output_mode(t, pins, y) = w
    BY DEF pin_input_mode, pin_output_mode
  <1>2. \A k : Apart(k) => Steady(k, k, y)
    BY DEF Steady, Same
  <1>3. Ready(m) /\ Steady(t, m, y) /\ m.outp \subseteq t.outp
    BY <1>2, DataInput, DataSteady
  <1>4. Ready(n) /\ Steady(t, n, y) /\ t.outp \subseteq n.outp
    BY <1>2, DataOutput, DataSteady
  <1>5. c \in SUBSET LP_SWITCHABLE_PINS
    OBVIOUS
  <1> HIDE DEF m, n, c
  <1>6. Apart(m) /\ Apart(n)
    BY <1>3, <1>4 DEF Steady
  <1>7. Steady(m, u, y) /\ u.outp \subseteq m.outp
    BY <1>2, <1>3, <1>5, <1>6, ControlSteady
  <1>8. Steady(n, w, y) /\ n.outp \subseteq w.outp
    BY <1>2, <1>4, <1>5, <1>6, ControlSteady
  <1> HIDE DEF u, w
  <1>9. Steady(t, u, y)
    BY <1>3, <1>7 DEF Steady, Same
  <1>10. Steady(t, w, y)
    BY <1>4, <1>8 DEF Steady, Same
  <1> QED
    BY <1>1, <1>9, <1>10

(***************************************************************************)
(* The invariant of the levels.  A pin the outside pulls low is not high   *)
(* for the history, so that reading the register gives what is latched.    *)
(***************************************************************************)
LevelInv ==
    /\ Apart(r)
    /\ high \subseteq r.outp \ ModeBits /\ low \subseteq r.outp \ ModeBits
    /\ (LP_SWITCHABLE_PINS \cap high) \ x \subseteq pulled
    /\ ~raw => Driven(r) /\ high \ pulled \subseteq Latched(r) /\ low \cap Latched(r) = {}

LEMMA LevelInit == Init => LevelInv
  BY DEF Init, LevelInv, Apart, Driven

LEMMA SwitchLevels ==
    ASSUME PinInv, LevelInv, NEW op \in {"set", "clear"}, NEW pins, Call(op, pins), UNCHANGED x
    PROVE  LevelInv'
  <1> DEFINE outs == (pins \cap r.outp) \ ModeBits
  <1>1. /\ r' = IF op = "set" THEN set_pin(r, pins, x) ELSE clear_pin(r, pins, x)
        /\ high' = (IF op = "set" THEN high \cup outs ELSE high \ outs) \cap r'.outp
        /\ low' = (IF op = "set" THEN low \ outs ELSE low \cup outs) \cap r'.outp
        /\ pulled' = ((IF op = "set" THEN pulled \ outs ELSE pulled)
                      \cup ((LP_SWITCHABLE_PINS \cap high') \ x)) \cap high'
        /\ raw' = (raw \/ LP_INPUT_MODE \in pins)
    <2>1. outs = (pins \cap r.outp) \ {LP_IRQ_MODE, LP_INPUT_MODE}
      BY DEF ModeBits
    <2> HIDE DEF outs
    <2>2. CASE op = "set"
      BY <2>1, <2>2 DEF Call, Result
    <2>3. CASE op = "clear"
      BY <2>1, <2>3 DEF Call, Result
    <2> QED
      BY <2>2, <2>3
  <1>2. SamePins(r, r') /\ (LP_INPUT_MODE \notin pins => SameMode(r, r'))
    BY <1>1, SetPin, ClearPin DEF PinInv
  <1>3. Apart(r')
    BY <1>2 DEF LevelInv, Apart, SamePins
  <1>4. high' \subseteq r'.outp \ ModeBits /\ low' \subseteq r'.outp \ ModeBits
    BY <1>1 DEF LevelInv
  <1>5. (LP_SWITCHABLE_PINS \cap high') \ x' \subseteq pulled'
    BY <1>1
  <1>6. ASSUME ~raw'
        PROVE  Driven(r') /\ high' \ pulled' \subseteq Latched(r') /\ low' \cap Latched(r') = {}
    <2>1. ~raw /\ LP_INPUT_MODE \notin pins /\ Driven(r)
      BY <1>1, <1>6 DEF LevelInv
    <2>2. Driven(r')
      BY <1>2, <2>1 DEF Driven, Driving, SamePins, SameMode
    <2>3. \A p \in r.outp \ ModeBits :
            /\ p \in pins => IF op = "set" THEN p \in Latched(r') ELSE p \notin Latched(r')
            /\ p \notin pins => Same(r, r', x, p)
      BY <1>1, <2>1, PinLevels DEF PinInv, LevelInv
    <2>4. ASSUME NEW p \in high', p \notin pulled' PROVE p \in Latched(r')
      <3>1. p \in LP_SWITCHABLE_PINS => p \in x
        BY <1>5, <2>4
      <3>2. p \in r.outp \ ModeBits
        BY <1>2, <1>4, <2>4 DEF SamePins
      <3>3. CASE p \in pins
        BY <1>1, <2>3, <2>4, <3>2, <3>3
      <3>4. CASE p \notin pins
        <4>1. p \in high /\ p \notin pulled
          BY <1>1, <2>4, <3>4
        <4>2. p \in Latched(r)
          BY <2>1, <4>1 DEF LevelInv
        <4> QED
          BY <2>3, <3>1, <3>2, <3>4, <4>2 DEF Same
      <3> QED
        BY <3>3, <3>4
    <2>5. ASSUME NEW p \in low' PROVE p \notin Latched(r')
      <3>1. p \in r.outp \ ModeBits
        BY <1>2, <1>4, <2>5 DEF SamePins
      <3>2. CASE p \in pins
        BY <1>1, <2>3, <2>5, <3>1, <3>2
      <3>3. CASE p \notin pins
        <4>1. p \in low
          BY <1>1, <2>5, <3>3
        <4>2. p \notin Latched(r)
          BY <2>1, <4>1 DEF LevelInv
        <4> QED
          BY <2>3, <3>1, <3>3, <4>2 DEF Same
      <3> QED
        BY <3>2, <3>3
    <2> QED
      BY <2>2, <2>4, <2>5
  <1> QED
    BY <1>3, <1>4, <1>5, <1>6 DEF LevelInv

LEMMA DirectionLevels ==
    ASSUME PinInv, LevelInv, LP_INPUT_MODE \in r.outp, NEW op \in {"in", "out"}, NEW pins,
           Call(op, pins), UNCHANGED x
    PROVE  LevelInv'
  <1>1. /\ r' = IF op = "in" THEN pin_input_mode(r, pins, x) ELSE pin_output_mode(r, pins, x)
        /\ high' = high \cap r'.outp /\ low' = low \cap r'.outp
        /\ pulled' = (pulled \cup ((LP_SWITCHABLE_PINS \cap high') \ x)) \cap high'
        /\ ~raw' => ~raw
    <2>1. CASE op = "in"
      BY <2>1 DEF Call, Result
    <2>2. CASE op = "out"
      BY <2>2 DEF Call, Result
    <2> QED
      BY <2>1, <2>2
  <1>2. Ready(r)
    BY DEF Ready, PinInv
  <1>3. Steady(r, r', x)
    BY <1>1, <1>2, ModesSteady DEF LevelInv
  <1>4. high' \subseteq r'.outp \ ModeBits /\ low' \subseteq r'.outp \ ModeBits
        /\ high' \subseteq r.outp /\ low' \subseteq r.outp
    BY <1>1 DEF LevelInv
  <1>5. (LP_SWITCHABLE_PINS \cap high') \ x' \subseteq pulled'
    BY <1>1
  <1>6. ASSUME ~raw'
        PROVE  Driven(r') /\ high' \ pulled' \subseteq Latched(r') /\ low' \cap Latched(r') = {}
    <2>1. Driven(r') /\ ~raw
      BY <1>1, <1>3, <1>6 DEF LevelInv, Steady
    <2>2. \A p \in high' \cup low' : Same(r, r', x, p)
      BY <1>3, <1>4 DEF Steady
    <2>3. high' \ pulled' \subseteq Latched(r) /\ \A p \in high' \ pulled' : p \in LP_SWITCHABLE_PINS => p \in x
      BY <1>1, <2>1 DEF LevelInv
    <2>4. \A p \in low' : p \notin Latched(r)
      BY <1>1, <2>1 DEF LevelInv
    <2> QED
      BY <2>1, <2>2, <2>3, <2>4 DEF Same
  <1> QED
    BY <1>3, <1>4, <1>5, <1>6 DEF LevelInv, Steady

LEMMA FreshLevels == ASSUME Fresh, Apart(r'), Driven(r') PROVE LevelInv'
  BY DEF Fresh, LevelInv

LEMMA InternalLevels ==
    ASSUME NEW t \in Ports
    PROVE  Apart(pin_init_internal(t)) /\ Driven(pin_init_internal(t))
  <1> DEFINE u == pin_init_internal(t)
  <1>1. u.outp = ModeBits
    BY DEF pin_init_internal, Ports, ModeBits
  <1>2. ModeBits \subseteq ControlPins /\ ModeBits \cap LP_DATA_PINS = {}
    BY PinFacts DEF ModeBits
  <1> HIDE DEF u
  <1>3. Apart(u) /\ Driven(u)
    BY <1>1, <1>2 DEF Apart, Driven
  <1> QED
    BY <1>3 DEF u

\* Giving the interrupt bit back writes the control register once more.
LEMMA ReleaseLevels ==
    ASSUME PinInv, LevelInv, UNCHANGED <<x, history>>, NEW set,
           r' = change_pin(r, {LP_IRQ_MODE}, set, x)
    PROVE  LevelInv'
  <1>1. SamePins(r, r') /\ SameMode(r, r')
    BY InterruptBit DEF PinInv
  <1>2. Apart(r') /\ (Driven(r) => Driven(r'))
    BY <1>1 DEF LevelInv, Apart, Driven, Driving, SamePins, SameMode
  <1>3. UNCHANGED <<high, low, pulled, raw>>
    BY DEF history
  <1>4. ASSUME ~raw
        PROVE  high \ pulled \subseteq Latched(r') /\ low \cap Latched(r') = {}
    <2>1. \A p \in r.outp \ ModeBits : Same(r, r', x, p)
      <3>1. \A p \in r.outp \ ModeBits : p \notin {LP_IRQ_MODE}
        BY DEF ModeBits
      <3> QED
        BY <1>4, <3>1, PinLevels DEF PinInv, LevelInv, change_pin
    <2>2. ASSUME NEW p \in high, p \notin pulled PROVE p \in Latched(r')
      BY <1>4, <2>1, <2>2 DEF LevelInv, Same
    <2>3. ASSUME NEW p \in low PROVE p \notin Latched(r')
      BY <1>4, <2>1, <2>3 DEF LevelInv, Same
    <2> QED
      BY <2>2, <2>3
  <1> QED
    BY <1>1, <1>2, <1>3, <1>4 DEF LevelInv, SamePins

LEMMA DriverLevels ==
    ASSUME PinInv, LevelInv, NEW p \in Procs, ppdrv_open(p) \/ ppdrv_release(p) \/ ppdrv_ioctl(p)
    PROVE  LevelInv'
  <1>1. CASE ppdrv_open(p)
    <2>1. CASE UNCHANGED <<r, history>> /\ parapin_dev' = None
      <3>1. UNCHANGED <<r, x, high, low, pulled, raw>>
        BY <1>1, <2>1 DEF ppdrv_open, history
      <3> QED
        BY <3>1 DEF LevelInv
    <2>2. CASE r' = clear_pin(pin_init_internal(r), {LP_IRQ_MODE}, x) /\ Fresh
      <3> DEFINE t == pin_init_internal(r)
      <3>1. Ready(t) /\ Apart(t) /\ Driven(t)
        BY InitInternal, InternalLevels DEF PinInv
      <3>2. SamePins(t, r') /\ SameMode(t, r')
        BY <2>2, <3>1, InterruptBit DEF Ready
      <3> HIDE DEF t
      <3>3. Apart(r') /\ Driven(r')
        BY <3>1, <3>2 DEF Apart, Driven, Driving, SamePins, SameMode
      <3> QED
        BY <2>2, <3>3, FreshLevels
    <2> QED
      BY <1>1, <2>1, <2>2 DEF ppdrv_open, pin_init_kernel
  <1>2. CASE ppdrv_release(p)
    BY <1>2, ReleaseLevels DEF ppdrv_release, pin_release
  <1>3. CASE ppdrv_ioctl(p)
    <2>1. PICK op \in {"set", "clear", "in", "out"}, m \in Masks : Call(op, m)
      BY <1>3 DEF ppdrv_ioctl
    <2>2. UNCHANGED x /\ LP_INPUT_MODE \in r.outp
      BY <1>3 DEF ppdrv_ioctl, PinInv
    <2> QED
      BY <2>1, <2>2, SwitchLevels, DirectionLevels
  <1> QED
    BY <1>1, <1>2, <1>3

LEMMA PythonLevels == ASSUME PinInv, LevelInv, PythonProgram PROVE LevelInv'
  <1> USE DEF Rest
  <1>1. Ready(pin_init_user) /\ Apart(pin_init_user) /\ Driven(pin_init_user)
    BY InitInternal, InternalLevels DEF pin_init_user, PinInv
  <1>2. CASE Port_init
    <2>1. PICK inmode, outmode \in {{}} \cup Masks :
            LET u == IF inmode = {} THEN pin_init_user ELSE pin_input_mode(pin_init_user, inmode, x)
            IN  r' = IF outmode = {} THEN u ELSE pin_output_mode(u, outmode, x)
      BY <1>2 DEF Port_init
    <2> DEFINE u == IF inmode = {} THEN pin_init_user ELSE pin_input_mode(pin_init_user, inmode, x)
    <2>2. Ready(u) /\ Apart(u) /\ Driven(u)
      BY <1>1, Modes, ModesSteady DEF Steady
    <2>3. r' = IF outmode = {} THEN u ELSE pin_output_mode(u, outmode, x)
      BY <2>1
    <2> HIDE DEF u
    <2>4. Apart(r') /\ Driven(r')
      BY <2>2, <2>3, ModesSteady DEF Steady
    <2> QED
      BY <1>2, <2>4, FreshLevels DEF Port_init
  <1>3. CASE parapin_pin_init_user
    BY <1>1, <1>3, FreshLevels DEF parapin_pin_init_user
  <1>4. CASE Pin_init \/ Pin_pulse \/ parapin_pulse_pin
    <2>1. UNCHANGED <<r, x, high, low, pulled, raw>>
      BY <1>4 DEF Pin_init, Pin_pulse, parapin_pulse_pin, Pulse, history
    <2> QED
      BY <2>1 DEF LevelInv
  <1>5. CASE PinCall
    <2>1. \E m : \E op \in {"set", "clear"} : Call(op, m)
      BY <1>5 DEF PinCall, Pin_set, Pin_clear, Pin_change, parapin_set_pin, parapin_clear_pin,
                  parapin_change_pin
    <2>2. UNCHANGED x
      BY <1>5 DEF PinCall
    <2> QED
      BY <2>1, <2>2, SwitchLevels
  <1>6. CASE ModeCall
    <2>1. \E m : \E op \in {"in", "out"} : Call(op, m)
      BY <1>6 DEF ModeCall, Port_set_input_mode, Port_set_output_mode, parapin_pin_mode,
                  parapin_pin_input_mode, parapin_pin_output_mode
    <2>2. UNCHANGED x /\ LP_INPUT_MODE \in r.outp
      BY <1>6 DEF ModeCall
    <2> QED
      BY <2>1, <2>2, DirectionLevels
  <1>7. CASE PulseLevel
    <2>1. \E m : \E op \in {"set", "clear"} : Call(op, m)
      BY <1>7 DEF PulseLevel
    <2>2. UNCHANGED x
      BY <1>7 DEF PulseLevel
    <2> QED
      BY <2>1, <2>2, SwitchLevels
  <1> QED
    BY <1>2, <1>3, <1>4, <1>5, <1>6, <1>7 DEF PythonProgram

LEMMA LevelStep == PinInv /\ LevelInv /\ [Next]_vars => LevelInv'
  <1> SUFFICES ASSUME PinInv, LevelInv, [Next]_vars PROVE LevelInv'
    OBVIOUS
  <1>1. CASE OtherDriver \/ UNCHANGED vars
    <2>1. UNCHANGED <<r, x, high, low, pulled, raw>>
      BY <1>1 DEF OtherDriver, vars, history
    <2> QED
      BY <2>1 DEF LevelInv
  <1>2. CASE Outside
    BY <1>2 DEF Outside, LevelInv
  <1> QED
    BY <1>1, <1>2, DriverLevels, PythonLevels DEF Next

\* An output that the outside has not pulled low keeps the level it was last
\* given, whatever is done to the other pins of its register.
THEOREM PinsLevelsKept == Spec => []LevelsKept
  <1>1. LevelInv => LevelsKept
    BY DEF LevelInv, LevelsKept
  <1>2. PinInv /\ PinInv' /\ LevelInv /\ [Next]_vars => LevelInv'
    BY LevelStep
  <1> QED
    BY <1>1, <1>2, LevelInit, PinInvariant, PTL DEF Spec

(***************************************************************************)
(* Giving the port back.  From the open to the release the interrupt bit   *)
(* is an output of the library, so that what the release writes arrives;   *)
(* only one process has the port, unless an open has failed since 2.6.     *)
(***************************************************************************)
IrqHigh(t) == LP_IRQ_MODE \in Latched(t)
IrqOut(t) == LP_IRQ_MODE \in t.outp

\* One process has the device, and the driver remembers the interrupt.
Held == /\ \E p \in Procs : holders = {p} /\ parapin_dev = p /\ registered = {p}
        /\ old_irq_mode = irqbefore /\ IrqOut(r)
Free == holders = {} /\ registered = {} /\ IrqHigh(r) = irqbefore

ReturnInv ==
    /\ version \in {"2.4", "2.6"} /\ registered \subseteq Procs
    /\ registered = {} => holders = {}
    /\ version = "2.4" => use = IF holders = {} THEN 0 ELSE 1
    /\ old_irq_mode \in BOOLEAN
    /\ (version = "2.6" => parapin_dev # None) => Held \/ Free

LEMMA IrqWritten ==
    ASSUME NEW t \in Ports, Safe(t), IrqOut(t), NEW set \in BOOLEAN, NEW y
    PROVE  IrqHigh(change_pin(t, {LP_IRQ_MODE}, set, y)) = set
  <1>1. {LP_IRQ_MODE} \cap t.outp = {LP_IRQ_MODE} /\ {LP_IRQ_MODE} \cap LP_DATA_PINS = {}
        /\ {LP_IRQ_MODE} \cap ControlPins = {LP_IRQ_MODE} /\ {LP_IRQ_MODE} # {}
    BY PinFacts DEF IrqOut
  <1>2. /\ set_pin(t, {LP_IRQ_MODE}, y) = set_controlreg(t, {LP_IRQ_MODE}, y)
        /\ clear_pin(t, {LP_IRQ_MODE}, y) = clear_controlreg(t, {LP_IRQ_MODE}, y)
    BY <1>1 DEF set_pin, clear_pin
  <1>3. LP_IRQ_MODE \in ControlPins /\ LP_IRQ_MODE \notin LP_SWITCHABLE_PINS
    BY PinFacts, PinAssumption DEF LP_IRQ_MODE
  <1>4. IrqHigh(set_controlreg(t, {LP_IRQ_MODE}, y))
    BY <1>3, WriteControl DEF IrqHigh, set_controlreg
  <1>5. ~IrqHigh(clear_controlreg(t, {LP_IRQ_MODE}, y))
    BY <1>3, WriteControl DEF IrqHigh, clear_controlreg
  <1> QED
    BY <1>2, <1>4, <1>5 DEF change_pin, IrqHigh

\* The interrupt bit stays an output when directions change.
LEMMA IrqStaysOut ==
    ASSUME NEW t, NEW y, Ready(t), IrqOut(t), NEW pins
    PROVE  IrqOut(pin_input_mode(t, pins, y)) /\ IrqOut(pin_output_mode(t, pins, y))
  <1> DEFINE c == pins \cap LP_SWITCHABLE_PINS
             m == IF pins \cap LP_DATA_PINS # {} THEN dataline_input_mode(t, y) ELSE t
             n == IF pins \cap LP_DATA_PINS # {} THEN dataline_output_mode(t, y) ELSE t
  <1>1. LP_IRQ_MODE \notin LP_DATA_PINS /\ LP_IRQ_MODE \notin LP_SWITCHABLE_PINS
    BY PinFacts, PinAssumption DEF LP_IRQ_MODE
  <1>2. Ready(m) /\ Ready(n)
    BY DataInput, DataOutput
  <1>3. IrqOut(dataline_input_mode(t, y)) /\ IrqOut(dataline_output_mode(t, y))
    <2> DEFINE k == [t EXCEPT !.inp = @ \cup LP_DATA_PINS, !.outp = @ \ LP_DATA_PINS]
               l == [t EXCEPT !.inp = @ \ LP_DATA_PINS, !.outp = @ \cup LP_DATA_PINS]
    <2>1. k \in Ports /\ IrqOut(k) /\ l \in Ports /\ IrqOut(l)
      BY <1>1, PinFacts DEF Ready, Ports, IrqOut
    <2>2. Safe(k) /\ Safe(l)
      BY PinFacts DEF Ready, Ports, Safe, Latched
    <2>3. /\ dataline_input_mode(t, y) = set_pin(k, {LP_INPUT_MODE}, y)
          /\ dataline_output_mode(t, y) = clear_pin(l, {LP_INPUT_MODE}, y)
      BY DEF dataline_input_mode, dataline_output_mode
    <2> HIDE DEF k, l
    <2> QED
      BY <2>1, <2>2, <2>3, SetPin, ClearPin DEF IrqOut, SamePins
  <1>4. IrqOut(m) /\ IrqOut(n)
    BY <1>3
  <1> HIDE DEF m, n
  <1>5. IrqOut(controlreg_input_mode(m, c, y)) /\ IrqOut(controlreg_output_mode(n, c, y))
    <2> DEFINE k == [m EXCEPT !.inp = @ \cup c, !.outp = @ \ c]
               l == [n EXCEPT !.inp = @ \ c, !.outp = @ \cup c]
    <2>1. k \in Ports /\ IrqOut(k) /\ l \in Ports /\ IrqOut(l)
      BY <1>1, <1>2, <1>4, PinFacts DEF Ready, Ports, IrqOut
    <2>2. /\ controlreg_input_mode(m, c, y) = set_controlreg(k, {}, y)
          /\ controlreg_output_mode(n, c, y) = set_controlreg(l, {}, y)
      BY DEF controlreg_input_mode, controlreg_output_mode
    <2> HIDE DEF k, l
    <2> QED
      BY <2>1, <2>2, SetControl DEF IrqOut, SamePins
  <1>6. /\ pin_input_mode(t, pins, y) = IF c # {} THEN controlreg_input_mode(m, c, y) ELSE m
        /\ pin_output_mode(t, pins, y) = IF c # {} THEN controlreg_output_mode(n, c, y) ELSE n
    BY DEF pin_input_mode, pin_output_mode, m, n
  <1> QED
    BY <1>4, <1>5, <1>6

\* What pin_init_kernel remembers is the interrupt bit it finds.
LEMMA IrqRemembered ==
    ASSUME NEW t \in Ports, NEW y
    PROVE  LET u == pin_init_internal(t)
           IN  /\ IrqOut(u) /\ IrqHigh(u) = IrqHigh(t)
               /\ (pin_is_set(u, {LP_IRQ_MODE}, y) # {}) = IrqHigh(t)
  <1> DEFINE u == pin_init_internal(t)
  <1>1. u \in Ports /\ LP_IRQ_MODE \in u.inp /\ IrqOut(u) /\ Latched(u) = Latched(t)
    BY PinFacts DEF pin_init_internal, Ports, Pins, IrqOut, Latched
  <1>2. LP_IRQ_MODE \notin LP_DATA_PINS /\ LP_IRQ_MODE \notin LP_ALWAYS_INPUT_PINS
        /\ LP_IRQ_MODE \notin LP_SWITCHABLE_PINS /\ LP_IRQ_MODE \in ControlPins
    BY PinFacts, PinAssumption DEF LP_IRQ_MODE
  <1> HIDE DEF u
  <1>3. LP_IRQ_MODE \notin u.data
    BY <1>1, <1>2 DEF Ports
  <1>4. LP_IRQ_MODE \in Levels(u, y) <=> IrqHigh(t)
    BY <1>1, <1>2, <1>3 DEF Levels, IrqHigh
  <1>5. pin_is_set(u, {LP_IRQ_MODE}, y) = Levels(u, y) \cap {LP_IRQ_MODE}
    <2>1. {LP_IRQ_MODE} \cap u.inp = {LP_IRQ_MODE}
      BY <1>1
    <2>2. pin_is_set(u, {LP_IRQ_MODE}, y)
            = UNION {(Levels(u, y) \cap reg) \cap {LP_IRQ_MODE} : reg \in {LP_DATA_PINS, LP_ALWAYS_INPUT_PINS, ControlPins}}
      BY <2>1, ReadRegister DEF pin_is_set
    <2> QED
      BY <1>2, <2>2
  <1>6. (pin_is_set(u, {LP_IRQ_MODE}, y) # {}) = IrqHigh(t)
    BY <1>4, <1>5 DEF IrqHigh
  <1> QED
    BY <1>1, <1>6 DEF IrqHigh, u

LEMMA ReturnInit == Init => ReturnInv
  BY UseAssumption DEF Init, ReturnInv, Free, IrqHigh

LEMMA OpenReturn ==
    ASSUME PinInv, ReturnInv, NEW p \in Procs, ppdrv_open(p) PROVE ReturnInv'
  <1>1. UNCHANGED version /\ ~Refused /\ p # None
    BY UseAssumption DEF ppdrv_open
  <1>2. CASE registered # {} \/ other
    <2>1. parapin_dev' = None /\ UNCHANGED <<r, registered, old_irq_mode, use, holders, irqbefore>>
      BY <1>2 DEF ppdrv_open, pin_init_kernel
    <2>2. version = "2.4" => holders = {}
      BY <1>1 DEF ReturnInv, Refused
    <2>3. version = "2.4" => Free'
      BY <2>1, <2>2 DEF ReturnInv, Held, Free
    <2> QED
      BY <1>1, <2>1, <2>3 DEF ReturnInv
  <1>3. CASE ~(registered # {} \/ other)
    <2>1. holders = {} /\ (version = "2.4" => use = 0)
      BY <1>3 DEF ReturnInv
    <2> DEFINE t == pin_init_internal(r)
    <2>2. /\ parapin_dev' = p /\ registered' = {p} /\ r' = clear_pin(t, {LP_IRQ_MODE}, x)
          /\ old_irq_mode' = (pin_is_set(t, {LP_IRQ_MODE}, x) # {})
      BY <1>3 DEF ppdrv_open, pin_init_kernel
    <2>3. /\ use' = (IF version = "2.4" THEN use + 1 ELSE use)
          /\ holders' = {p} /\ irqbefore' = IrqHigh(r)
      BY <1>1, <2>1, <2>2 DEF ppdrv_open, IrqHigh
    <2>4. IrqOut(t) /\ old_irq_mode' = IrqHigh(r) /\ Ready(t)
      BY <2>2, IrqRemembered, InitInternal DEF PinInv
    <2>5. IrqOut(r')
      BY <2>2, <2>4, InterruptBit DEF Ready, IrqOut, SamePins
    <2> HIDE DEF t
    <2>6. Held'
      BY <2>2, <2>3, <2>4, <2>5 DEF Held
    <2> QED
      BY <1>1, <2>1, <2>2, <2>3, <2>6 DEF ReturnInv
  <1> QED
    BY <1>2, <1>3

LEMMA ReleaseReturn ==
    ASSUME PinInv, ReturnInv, NEW p \in Procs, ppdrv_release(p) PROVE ReturnInv'
  <1>1. /\ p \in holders /\ registered' = registered \ {parapin_dev} /\ holders' = holders \ {p}
        /\ use' = (IF version = "2.4" THEN use - 1 ELSE use)
        /\ UNCHANGED <<version, parapin_dev, old_irq_mode, irqbefore>>
        /\ r' = change_pin(r, {LP_IRQ_MODE}, old_irq_mode, x)
    BY DEF ppdrv_release, pin_release
  <1>2. ~Free
    BY <1>1 DEF Free
  <1>3. CASE Held
    <2>1. holders' = {} /\ registered' = {}
      BY <1>1, <1>3 DEF Held
    <2>2. IrqHigh(r') = irqbefore'
      <3>1. old_irq_mode \in BOOLEAN
        BY DEF ReturnInv
      <3> QED
        BY <1>1, <1>3, <3>1, IrqWritten DEF Held, PinInv
    <2>3. Free'
      BY <2>1, <2>2 DEF Free
    <2>4. version = "2.4" => use' = 0
      BY <1>1 DEF ReturnInv
    <2> QED
      BY <1>1, <2>1, <2>3, <2>4 DEF ReturnInv
  <1>4. CASE ~Held
    <2>1. version = "2.6" /\ parapin_dev = None
      BY <1>2, <1>4 DEF ReturnInv
    <2>2. registered' = registered
      BY <1>1, <2>1, UseAssumption DEF ReturnInv
    <2> QED
      BY <1>1, <2>1, <2>2 DEF ReturnInv
  <1> QED
    BY <1>3, <1>4

LEMMA IoctlReturn ==
    ASSUME PinInv, ReturnInv, NEW p \in Procs, ppdrv_ioctl(p) PROVE ReturnInv'
  <1>1. UNCHANGED <<version, kernel>> /\ holders # {}
    BY DEF ppdrv_ioctl
  <1>2. PICK op \in {"set", "clear", "in", "out"}, m \in Masks : Call(op, m)
    BY DEF ppdrv_ioctl
  <1>3. r' = Result(op, m)
    BY <1>2 DEF Call
  <1>4. Ready(r)
    BY <1>1 DEF PinInv, Ready
  <1>5. IrqOut(r) => IrqOut(r')
    <2>1. CASE op \in {"set", "clear"}
      <3>1. SamePins(r, set_pin(r, m, x)) /\ SamePins(r, clear_pin(r, m, x))
        BY <1>4, SetPin, ClearPin DEF Ready
      <3>2. r' = set_pin(r, m, x) \/ r' = clear_pin(r, m, x)
        BY <1>3, <2>1 DEF Result
      <3> QED
        BY <3>1, <3>2 DEF IrqOut, SamePins
    <2>2. CASE op \in {"in", "out"}
      <3>1. r' = pin_input_mode(r, m, x) \/ r' = pin_output_mode(r, m, x)
        BY <1>3, <2>2 DEF Result
      <3> QED
        BY <1>4, <3>1, IrqStaysOut
    <2> QED
      BY <2>1, <2>2
  <1>6. Held => Held'
    BY <1>1, <1>5 DEF Held, kernel
  <1>7. ~Free
    BY <1>1 DEF Free
  <1> QED
    BY <1>1, <1>6, <1>7 DEF ReturnInv, kernel

LEMMA ReturnStep ==
    PinInv /\ (client = "driver" => ReturnInv) /\ [Next]_vars => (client = "driver" => ReturnInv)'
  <1> SUFFICES ASSUME PinInv, client = "driver" => ReturnInv, [Next]_vars, client' = "driver"
               PROVE  ReturnInv'
    OBVIOUS
  <1>1. CASE OtherDriver \/ Outside \/ UNCHANGED vars
    <2>1. UNCHANGED <<client, version, r, use, holders, parapin_dev, registered, old_irq_mode, irqbefore>>
      BY <1>1 DEF OtherDriver, Outside, vars, kernel
    <2> QED
      BY <2>1 DEF ReturnInv, Held, Free
  <1>2. CASE \E p \in Procs : ppdrv_open(p) \/ ppdrv_release(p) \/ ppdrv_ioctl(p)
    <2>1. ReturnInv
      BY <1>2 DEF ppdrv_open, ppdrv_release, ppdrv_ioctl
    <2> QED
      BY <1>2, <2>1, OpenReturn, ReleaseReturn, IoctlReturn
  <1>3. CASE PythonProgram
    <2>1. client = "python" /\ UNCHANGED client
      BY <1>3 DEF PythonProgram, Port_init, parapin_pin_init_user, Pin_init, PinCall, ModeCall,
                  Pin_pulse, parapin_pulse_pin, Pulse, PulseLevel, PythonTurn, Rest
    <2> QED
      BY <2>1
  <1> QED
    BY <1>1, <1>2, <1>3 DEF Next

\* When no process has the device the port is free and the interrupt enable
\* bit is as before the open, unless an open has failed since 2.6.
THEOREM PinsPortReturned == Spec => []PortReturned
  <1>1. (client = "driver" => ReturnInv) => PortReturned
    BY DEF ReturnInv, Held, Free, PortReturned, IrqHigh
  <1>2. Init => (client = "driver" => ReturnInv)
    BY ReturnInit
  <1>3. PinInv /\ (client = "driver" => ReturnInv) /\ [Next]_vars => (client = "driver" => ReturnInv)'
    BY ReturnStep
  <1> QED
    BY <1>1, <1>2, <1>3, PinInvariant, PTL DEF Spec
=============================================================================
