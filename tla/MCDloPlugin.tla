----------------------------- MODULE MCDloPlugin ----------------------------
EXTENDS DloPlugin

MCBounds == [data |-> 2, reopen |-> 1, start |-> 2, fault |-> 1]
=============================================================================
