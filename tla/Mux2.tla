-------------------------------- MODULE Mux2 --------------------------------
(***************************************************************************)
(* DeluxeUSBmux2.c: firmware that lights rows of lamps, one row (cathode)  *)
(* at a time.  The host's report fills the rows 1..Rows; one more row      *)
(* carries the firmware's own animation.  A row is the set of its lamps.   *)
(* The driver below it is the one of UsbDrv.                               *)
(***************************************************************************)
EXTENDS Integers

CONSTANTS
    Rows,      \* rows of the host's report, 4 in the code
    LampCount, \* lamps of a row, 8 in the code
    DarkSteps  \* steps of the animation, 16 in the code

ASSUME RowsAssumption ==
    Rows \in Nat \ {0} /\ LampCount \in Nat \ {0} /\ DarkSteps \in Nat \ {0}

Lamps == 0..LampCount - 1

VARIABLES
    reportBuffer, \* rows 1..Rows+1; byte 0, the report id, is left out
    AutoT, MuxK,  \* registers, not cleared by a reset
    lamps         \* external: what the eye sees of the rows 1..Rows

mux == <<reportBuffer, AutoT, MuxK, lamps>>

NoLamps == [k \in 1..Rows + 1 |-> {}]
Dark == [k \in 1..Rows |-> {}]
MuxInit == reportBuffer = NoLamps /\ AutoT = 0 /\ MuxK = 0 /\ lamps = Dark

\* Once a millisecond the next row is lit.
DoMux ==
    /\ MuxK # 0
    /\ MuxK' = IF MuxK + 1 >= Rows + 2 THEN 1 ELSE MuxK + 1
    /\ lamps' = [k \in 1..Rows |-> IF k = MuxK' THEN reportBuffer[k] ELSE lamps[k]]
    /\ UNCHANGED <<reportBuffer, AutoT>>

\* Every 256 ms: one light runs through the last row.
AutoPlay ==
    LET t == AutoT - 1
        shifted == [reportBuffer EXCEPT ![Rows + 1] = {i + 1 : i \in @} \cap Lamps]
    IN  /\ IF t = -DarkSteps
           THEN /\ AutoT' = 0 /\ reportBuffer' = [reportBuffer EXCEPT ![Rows + 1] = {0}]
                /\ MuxK' = IF MuxK = 0 THEN 1 ELSE MuxK
           ELSE AutoT' = t /\ reportBuffer' = shifted /\ UNCHANGED MuxK
        /\ UNCHANGED lamps

\* The data of SET_REPORT, five bytes in one packet, and the first row lit.
usbFunctionWrite(report) ==
    /\ reportBuffer' = [k \in 1..Rows + 1 |-> IF k <= Rows THEN report[k] ELSE reportBuffer[k]]
    /\ MuxK' = IF MuxK = 0 THEN 1 ELSE MuxK
    /\ UNCHANGED <<AutoT, lamps>>

OutLedOff == MuxK' = 0 /\ lamps' = Dark

\* The watchdog resets the processor when there has been no frame for 15 ms.
\* The report is cleared with the memory; an idle bus is a suspend, so the
\* lamps go out until the host resumes.
main ==
    /\ reportBuffer' = NoLamps /\ AutoT' = 0
    /\ \/ OutLedOff
       \/ UNCHANGED <<MuxK, lamps>>
=============================================================================
