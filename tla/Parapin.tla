------------------------------- MODULE Parapin ------------------------------
(***************************************************************************)
(* parapin.c: a parallel port as a set of pins.  A pin is the number of    *)
(* its bit in the three registers put side by side, as in parapin.h; a     *)
(* mask is a set of pins.  An operation maps r, what is latched in the     *)
(* ports and the two masks of the library, to a new r.                     *)
(*                                                                         *)
(* x is the set of pins the outside leaves or pulls high.  The control     *)
(* port has open collectors: such a pin is high when both sides let it be. *)
(* lp_register is left out: the library reads a register anew each time.   *)
(***************************************************************************)
EXTENDS Integers

CONSTANTS
    LP_DATA_PINS,         \* some of 0..7
    LP_ALWAYS_INPUT_PINS, \* some of 8..15
    LP_SWITCHABLE_PINS    \* some of 16..19

ASSUME PinAssumption ==
    /\ LP_DATA_PINS \subseteq 0..7
    /\ LP_ALWAYS_INPUT_PINS \subseteq 8..15
    /\ LP_SWITCHABLE_PINS \subseteq 16..19

LP_IRQ_MODE == 20
LP_INPUT_MODE == 21
ControlPins == LP_SWITCHABLE_PINS \cup {LP_IRQ_MODE, LP_INPUT_MODE}
Pins == LP_DATA_PINS \cup LP_ALWAYS_INPUT_PINS \cup ControlPins
lp_invert_masks == {15, 16, 17, 19}

\* The pin of a number on the connector: 0 and 18..25 cannot be controlled.
LP_PIN == LET bit == <<16, 0, 1, 2, 3, 4, 5, 6, 7, 14, 15, 13, 12, 17, 11, 18, 19>>
          IN  [n \in 0..25 |-> IF n \in 1..17 THEN {bit[n]} \cap Pins ELSE {}]

\* A register read or written inverted.
Flip(mask) == (mask \ lp_invert_masks) \cup (lp_invert_masks \ mask)

(***************************************************************************)
(* The port (external): what the latches drive and what reading gives.     *)
(***************************************************************************)
Latched(r) == r.data \cup (Flip(r.control) \cap ControlPins)
Driving(r) == LP_INPUT_MODE \notin r.control
Levels(r, x) ==
    (IF Driving(r) THEN r.data ELSE LP_DATA_PINS \cap x)
    \cup (LP_ALWAYS_INPUT_PINS \cap x)
    \cup (Latched(r) \cap (LP_SWITCHABLE_PINS \cap x))
    \cup (Latched(r) \cap {LP_IRQ_MODE, LP_INPUT_MODE})
INB(r, pins, x) == (pins \cap (Levels(r, x) \ lp_invert_masks))
                   \cup ((lp_invert_masks \cap pins) \ Levels(r, x))

(***************************************************************************)
(* Registers.  pins is what the register holds.                            *)
(***************************************************************************)
read_register(r, pins, x) == Flip(INB(r, pins, x)) \cap pins
write_control(r, value) == [r EXCEPT !.control = Flip(value) \cap ControlPins]

pin_init_internal(r) ==
    [r EXCEPT !.outp = {LP_INPUT_MODE, LP_IRQ_MODE},
              !.inp = LP_ALWAYS_INPUT_PINS \cup {LP_INPUT_MODE, LP_IRQ_MODE}]

\* Mutants: the data register is written without being read; a pin used as
\* input is written low when it was read low; a level is not inverted back.
clear_dataregWhole(r, pins, x) == [r EXCEPT !.data = LP_DATA_PINS \ pins]
clear_controlregPlain(r, pins, x) == write_control(r, read_register(r, ControlPins, x) \ pins)
pin_is_setRaw(r, pins, x) ==
    LET p == pins \cap r.inp
    IN  UNION {INB(r, reg, x) \cap p : reg \in {LP_DATA_PINS, LP_ALWAYS_INPUT_PINS, ControlPins}}

set_datareg(r, pins, x) == [r EXCEPT !.data = read_register(r, LP_DATA_PINS, x) \cup pins]
clear_datareg(r, pins, x) == [r EXCEPT !.data = read_register(r, LP_DATA_PINS, x) \ pins]

\* Pins used as inputs are written high.
set_controlreg(r, pins, x) ==
    write_control(r, read_register(r, ControlPins, x) \cup pins
                     \cup (r.inp \cap LP_SWITCHABLE_PINS))
clear_controlreg(r, pins, x) ==
    write_control(r, (read_register(r, ControlPins, x) \ pins)
                     \cup (r.inp \cap LP_SWITCHABLE_PINS))

(***************************************************************************)
(* Pins.                                                                   *)
(***************************************************************************)
set_pin(r, pins, x) ==
    LET p == pins \cap r.outp
        t == IF p \cap LP_DATA_PINS # {} THEN set_datareg(r, p \cap LP_DATA_PINS, x) ELSE r
    IN  IF p \cap ControlPins # {} THEN set_controlreg(t, p \cap ControlPins, x) ELSE t

clear_pin(r, pins, x) ==
    LET p == pins \cap r.outp
        t == IF p \cap LP_DATA_PINS # {} THEN clear_datareg(r, p \cap LP_DATA_PINS, x) ELSE r
    IN  IF p \cap ControlPins # {} THEN clear_controlreg(t, p \cap ControlPins, x) ELSE t

change_pin(r, pins, set, x) == IF set THEN set_pin(r, pins, x) ELSE clear_pin(r, pins, x)

pin_is_set(r, pins, x) ==
    LET p == pins \cap r.inp
    IN  UNION {read_register(r, reg, x) \cap p :
               reg \in {LP_DATA_PINS, LP_ALWAYS_INPUT_PINS, ControlPins}}

(***************************************************************************)
(* Directions.                                                             *)
(***************************************************************************)
dataline_input_mode(r, x) ==
    set_pin([r EXCEPT !.inp = @ \cup LP_DATA_PINS, !.outp = @ \ LP_DATA_PINS], {LP_INPUT_MODE}, x)
dataline_output_mode(r, x) ==
    clear_pin([r EXCEPT !.inp = @ \ LP_DATA_PINS, !.outp = @ \cup LP_DATA_PINS], {LP_INPUT_MODE}, x)
controlreg_input_mode(r, pins, x) ==
    set_controlreg([r EXCEPT !.inp = @ \cup pins, !.outp = @ \ pins], {}, x)
controlreg_output_mode(r, pins, x) ==
    set_controlreg([r EXCEPT !.inp = @ \ pins, !.outp = @ \cup pins], {}, x)

pin_input_mode(r, pins, x) ==
    LET t == IF pins \cap LP_DATA_PINS # {} THEN dataline_input_mode(r, x) ELSE r
        c == pins \cap LP_SWITCHABLE_PINS
    IN  IF c # {} THEN controlreg_input_mode(t, c, x) ELSE t
pin_output_mode(r, pins, x) ==
    LET t == IF pins \cap LP_DATA_PINS # {} THEN dataline_output_mode(r, x) ELSE r
        c == pins \cap LP_SWITCHABLE_PINS
    IN  IF c # {} THEN controlreg_output_mode(t, c, x) ELSE t
pin_mode(r, pins, input, x) == IF input THEN pin_input_mode(r, pins, x) ELSE pin_output_mode(r, pins, x)
=============================================================================
