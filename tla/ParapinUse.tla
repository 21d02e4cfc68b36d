----------------------------- MODULE ParapinUse -----------------------------
(***************************************************************************)
(* parapin in use: by processes through the character device of            *)
(* parapindriver.c, over pin_init_kernel and pin_release, or by a Python   *)
(* program through parapin_py.c.  The kernel serialises the calls of the   *)
(* driver and Python holds its lock even while it sleeps in a pulse, so    *)
(* calls do not overlap; the outside pulls pins at any time.               *)
(***************************************************************************)
EXTENDS Parapin, FiniteSets

CONSTANTS
    Clients,    \* subset of {"driver", "python"}
    Versions,   \* kernels: "2.4" (before 2.6.0), "2.6"
    Procs,      \* processes that open the device
    MaxOpens,   \* bound on the successful opens
    Masks,      \* masks the processes use
    Numbers,    \* pin numbers the Python program names, 0..25
    Kept,       \* masks of the Pin objects it keeps (a bound)
    MaxPulses   \* bound on n of a pulse

None == "none"

ASSUME UseAssumption ==
    /\ Clients \subseteq {"driver", "python"} /\ Versions \subseteq {"2.4", "2.6"}
    /\ None \notin Procs /\ MaxOpens \in Nat /\ MaxPulses \in Nat
    /\ \A m \in Masks : m \subseteq 0..31
    /\ Numbers \subseteq 0..25

VARIABLES
    client, version,
    r, x,        \* see Parapin
    use,         \* use count of the module, before 2.6
    holders,     \* processes that have the device open
    parapin_dev, \* process whose open registered it, or None
    registered,  \* external: devices registered on the port
    other,       \* external: another driver has the port
    old_irq_mode,
    opens,
    pin,         \* the Pin object the Python program works with
    pulse,       \* pulse under way
    high, low,   \* history: outputs last set and last cleared
    pulled,      \* history: of those set, the ones the outside pulled low since
    raw,         \* history: LP_INPUT_MODE has been written as a pin
    irqbefore    \* history: interrupt enable bit before the open

kernel == <<use, holders, parapin_dev, registered, other, old_irq_mode, opens, irqbefore>>
python == <<pin, pulse>>
history == <<high, low, pulled, raw>>
vars == <<client, version, r, x, kernel, python, history>>

NoPulse == [pins |-> {}, pol |-> FALSE, n |-> 0]

Init ==
    /\ client \in Clients /\ version \in Versions
    /\ \E data \in SUBSET LP_DATA_PINS, control \in {{}, {LP_IRQ_MODE}} :
        r = [data |-> data, control |-> control, inp |-> {}, outp |-> {}]
    /\ x = Pins
    /\ use = 0 /\ holders = {} /\ parapin_dev = None /\ registered = {} /\ other = FALSE
    /\ old_irq_mode = FALSE /\ opens = 0
    /\ irqbefore = (LP_IRQ_MODE \in Latched(r))
    /\ pin = {} /\ pulse = NoPulse
    /\ high = {} /\ low = {} /\ pulled = {} /\ raw = FALSE

(***************************************************************************)
(* A call of the library and what it leaves in the history.                *)
(***************************************************************************)
Result(op, pins) ==
    CASE op = "set" -> set_pin(r, pins, x) [] op = "clear" -> clear_pin(r, pins, x)
      [] op = "in" -> pin_input_mode(r, pins, x) [] op = "out" -> pin_output_mode(r, pins, x)

Call(op, pins) ==
    LET outs == (pins \cap r.outp) \ {LP_IRQ_MODE, LP_INPUT_MODE}
    IN  /\ r' = Result(op, pins)
        /\ high' = (IF op = "set" THEN high \cup outs ELSE IF op = "clear" THEN high \ outs ELSE high)
                   \cap r'.outp
        /\ low' = (IF op = "clear" THEN low \cup outs ELSE IF op = "set" THEN low \ outs ELSE low)
                  \cap r'.outp
        /\ pulled' = ((IF op = "set" THEN pulled \ outs ELSE pulled)
                      \cup ((LP_SWITCHABLE_PINS \cap high') \ x)) \cap high'
        /\ raw' = (raw \/ (op \in {"set", "clear"} /\ LP_INPUT_MODE \in pins))

\* The library starts: it knows no inputs and no outputs.
Fresh == high' = {} /\ low' = {} /\ pulled' = {} /\ raw' = FALSE

(***************************************************************************)
(* The driver.                                                             *)
(***************************************************************************)
Refused == version = "2.4" /\ use > 0

\* Mutant: the interrupt is disabled before its state is remembered.
pin_init_kernelDisablesFirst(p) ==
    IF registered # {} \/ other
    THEN parapin_dev' = None /\ UNCHANGED <<r, registered, old_irq_mode, history>>
    ELSE LET t == clear_pin(pin_init_internal(r), {LP_IRQ_MODE}, x)
         IN  /\ parapin_dev' = p /\ registered' = {p}
             /\ old_irq_mode' = (pin_is_set(t, {LP_IRQ_MODE}, x) # {})
             /\ r' = t
             /\ Fresh

\* pin_init_kernel for process p: the device, the masks, the interrupt.  When
\* the port is not free nothing is registered.  What disable_irq does beyond
\* the port's own enable bit is left out.
pin_init_kernel(p) ==
    IF registered # {} \/ other
    THEN parapin_dev' = None /\ UNCHANGED <<r, registered, old_irq_mode, history>>
    ELSE LET t == pin_init_internal(r)
         IN  /\ parapin_dev' = p /\ registered' = {p}
             /\ old_irq_mode' = (pin_is_set(t, {LP_IRQ_MODE}, x) # {})
             /\ r' = clear_pin(t, {LP_IRQ_MODE}, x)
             /\ Fresh

ppdrv_open(p) ==
    /\ client = "driver" /\ p \notin holders /\ opens < MaxOpens /\ ~Refused
    /\ pin_init_kernel(p)
    /\ IF parapin_dev' = None THEN UNCHANGED <<use, holders, opens, irqbefore>>
       ELSE /\ use' = (IF version = "2.4" THEN use + 1 ELSE use)
            /\ holders' = holders \cup {p} /\ opens' = opens + 1
            /\ irqbefore' = IF holders = {} THEN LP_IRQ_MODE \in Latched(r) ELSE irqbefore
    /\ UNCHANGED <<client, version, x, other, python>>

\* The interrupt as it was, and the device that parapin_dev names, which is
\* none when an open has failed since.
pin_release ==
    /\ r' = change_pin(r, {LP_IRQ_MODE}, old_irq_mode, x)
    /\ registered' = registered \ {parapin_dev}

\* Closing, by the process or by its end.
ppdrv_release(p) ==
    /\ client = "driver" /\ p \in holders
    /\ pin_release
    /\ use' = (IF version = "2.4" THEN use - 1 ELSE use)
    /\ holders' = holders \ {p}
    /\ UNCHANGED <<client, version, x, parapin_dev, other, old_irq_mode, opens, irqbefore,
                   python, history>>

\* PINGET changes nothing.
ppdrv_ioctl(p) ==
    /\ client = "driver" /\ p \in holders
    /\ \E op \in {"set", "clear", "in", "out"}, m \in Masks : Call(op, m)
    /\ UNCHANGED <<client, version, x, kernel, python>>

\* lp or another driver takes the port while it is free, and gives it back.
OtherDriver ==
    /\ client = "driver" /\ other' = ~other /\ (other' => registered = {})
    /\ UNCHANGED <<client, version, r, x, use, holders, parapin_dev, registered, old_irq_mode,
                   opens, irqbefore, python, history>>

(***************************************************************************)
(* The Python module.  Its functions take masks and are the library's own; *)
(* Pin objects hold a mask.  Shifts work on 32 bits with a sign.           *)
(***************************************************************************)
PythonTurn == client = "python" /\ pulse = NoPulse
Rest == <<client, version, x, kernel>>

\* Port(base, inmode, outmode), or pin_init_user: all Port objects share the
\* library's masks.  When the system refuses the ports nothing happens.
pin_init_user == pin_init_internal(r)
Port_init ==
    /\ PythonTurn
    /\ \E inmode, outmode \in {{}} \cup Masks :
        LET u == IF inmode = {} THEN pin_init_user ELSE pin_input_mode(pin_init_user, inmode, x)
        IN  r' = IF outmode = {} THEN u ELSE pin_output_mode(u, outmode, x)
    /\ Fresh
    /\ UNCHANGED <<Rest, python>>
parapin_pin_init_user == PythonTurn /\ r' = pin_init_user /\ Fresh /\ UNCHANGED <<Rest, python>>

\* Masks with a name in parapin.CONST, and the masks Port objects give.
CONST == {LP_PIN[n] : n \in Numbers} \cup {{LP_IRQ_MODE}, {LP_INPUT_MODE}}
         \cup {LP_ALWAYS_INPUT_PINS, LP_DATA_PINS, LP_SWITCHABLE_PINS}
Port_raw_pin == CONST
Port_getitem == {LP_PIN[n] : n \in Numbers}
Port_get_pin == {LP_PIN[n] \cup LP_PIN[k] : n, k \in Numbers}
Port_getslice(ilow, ihigh) ==
    LET first == IF ilow < 0 THEN 0 ELSE ilow
        last == IF ihigh > 26 THEN 26 ELSE ihigh
    IN  [i \in 1..last - first |-> LP_PIN[first + i - 1]]

Pin_lshift(m, n) == {i + n : i \in m} \cap 0..31
Pin_rshift(m, n) == ({i - n : i \in m} \cap 0..31) \cup IF 31 \in m THEN (32 - n)..31 ELSE {}
Pin_and(m, k) == m \cap k
Pin_or(m, k) == m \cup k
Pin_xor(m, k) == (m \ k) \cup (k \ m)

\* A Pin object is made from the port, or from the one the program has.
Pin_init ==
    /\ PythonTurn
    /\ pin' \in Port_raw_pin \cup Port_getitem \cup Port_get_pin
               \cup {Port_getslice(n, n + 2)[1] : n \in Numbers}
               \cup {Pin_lshift(pin, 1), Pin_rshift(pin, 1)}
               \cup {Pin_and(pin, m) : m \in Masks} \cup {Pin_or(pin, m) : m \in Masks}
               \cup {Pin_xor(pin, m) : m \in Masks}
    /\ pin' \in Kept
    /\ UNCHANGED <<Rest, r, pulse, history>>

Pin_set == Call("set", pin)
Pin_clear == Call("clear", pin)
Pin_change(state) == (state = 1 /\ Pin_set) \/ (state = 0 /\ Pin_clear)
parapin_set_pin(pins) == Call("set", pins)
parapin_clear_pin(pins) == Call("clear", pins)
parapin_change_pin(pins, state) ==
    (state = 1 /\ parapin_set_pin(pins)) \/ (state = 0 /\ parapin_clear_pin(pins))
PinCall ==
    /\ PythonTurn
    /\ \/ Pin_set \/ Pin_clear \/ \E state \in 0..1 : Pin_change(state)
       \/ \E m \in Masks :
            \/ parapin_set_pin(m) \/ parapin_clear_pin(m)
            \/ \E state \in 0..1 : parapin_change_pin(m, state)
    /\ UNCHANGED <<Rest, python>>

\* pin_init_user comes before any switching of modes, as the manual asks:
\* before it the two mode bits are not outputs of the library.
Port_set_input_mode(mode) == Call("in", mode)
Port_set_output_mode(mode) == Call("out", mode)
parapin_pin_input_mode(pins) == Call("in", pins)
parapin_pin_output_mode(pins) == Call("out", pins)
parapin_pin_mode(pins, input) ==
    IF input THEN parapin_pin_input_mode(pins) ELSE parapin_pin_output_mode(pins)
ModeCall ==
    /\ PythonTurn /\ LP_INPUT_MODE \in r.outp
    /\ \E m \in CONST \cup {pin} :
        \/ Port_set_input_mode(m) \/ Port_set_output_mode(m)
        \/ \E input \in BOOLEAN : parapin_pin_mode(m, input)
    /\ UNCHANGED <<Rest, python>>

\* pulse(pol, secs, msecs, n): n levels, each held for a while.
Pulse(pins) ==
    /\ PythonTurn
    /\ \E pol \in BOOLEAN, n \in 1..MaxPulses : pulse' = [pins |-> pins, pol |-> pol, n |-> n]
    /\ UNCHANGED <<Rest, r, pin, history>>
Pin_pulse == Pulse(pin)
parapin_pulse_pin == \E m \in Masks : Pulse(m)

PulseLevel ==
    /\ client = "python" /\ pulse.n > 0
    /\ Call(IF pulse.pol THEN "set" ELSE "clear", pulse.pins)
    /\ pulse' = IF pulse.n = 1 THEN NoPulse ELSE [pulse EXCEPT !.pol = ~@, !.n = @ - 1]
    /\ UNCHANGED <<Rest, pin>>

\* Reading.  The module's function builds its value with the format of a
\* byte, which leaves the integer of the library as it is.
Pin_is_set(pins) == pin_is_set(r, pins, x)
Pin_nonzero(pins) == pin_is_set(r, pins, x) # {}
parapin_pin_is_set(pins) == pin_is_set(r, pins, x)

PythonProgram ==
    \/ Port_init \/ parapin_pin_init_user \/ Pin_init
    \/ PinCall \/ ModeCall \/ Pin_pulse \/ parapin_pulse_pin \/ PulseLevel

(***************************************************************************)
(* The outside (external) pulls a pin low or lets it go.                   *)
(***************************************************************************)
Outside ==
    /\ \E p \in LP_DATA_PINS \cup LP_SWITCHABLE_PINS :
        x' = IF p \in x THEN x \ {p} ELSE x \cup {p}
    /\ pulled' = pulled \cup ((LP_SWITCHABLE_PINS \cap high) \ x')
    /\ UNCHANGED <<client, version, r, kernel, python, high, low, raw>>

Next ==
    \/ \E p \in Procs : ppdrv_open(p) \/ ppdrv_release(p) \/ ppdrv_ioctl(p)
    \/ OtherDriver \/ PythonProgram \/ Outside

Spec == Init /\ [][Next]_vars

(***************************************************************************)
(* Properties.                                                             *)
(***************************************************************************)
\* A pin used as input is never driven: not by its own latch, and not by the
\* drivers of the data port, whatever else is set, cleared or switched and
\* whatever the outside did while a register was read.  A program that
\* writes LP_INPUT_MODE itself takes the data pins out of the promise.
InputsFree ==
    /\ r.inp \cap LP_SWITCHABLE_PINS \subseteq Latched(r)
    /\ ~raw /\ r.inp \cap LP_DATA_PINS # {} => ~Driving(r)

\* An input reads as what the outside puts on it, whatever the library and
\* the other pins are doing: through a Pin object as an integer, as a truth
\* value, and through the module's function, of which the manual says that
\* the pins that are high are the ones set in its result.
InputsTrue ==
    LET inputs == r.inp \cap (LP_ALWAYS_INPUT_PINS \cup LP_SWITCHABLE_PINS
                              \cup IF raw THEN {} ELSE LP_DATA_PINS)
    IN  /\ Pin_is_set(inputs) = inputs \cap x
        /\ \A p \in inputs : Pin_nonzero({p}) <=> p \in x
        /\ parapin_pin_is_set(inputs) = inputs \cap x

\* An output keeps the level it was given last, although calls about other
\* pins write the same registers.  What the outside has pulled low is
\* exempt: it is read back low and written low by the next call.
LevelsKept ==
    ~raw => high \ pulled \subseteq Latched(r) /\ low \cap Latched(r) = {}

\* A port that no process has open is free for other drivers, and its
\* interrupt enable bit is what it was before it was opened.  From 2.6 on an
\* open that fails while the port is in use takes parapin_dev away from the
\* process that has it, and its port is never returned: the exempted case.
PortReturned ==
    client = "driver" /\ holders = {} /\ (version = "2.6" => parapin_dev # None) =>
        registered = {} /\ (LP_IRQ_MODE \in Latched(r)) = irqbefore
=============================================================================
