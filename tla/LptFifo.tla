------------------------------ MODULE LptFifo -------------------------------
(***************************************************************************)
(* What the FIFO of usb2lpt5 promises: a queue of at most N words that a   *)
(* program fills and a transfer empties, or the other way round.  last is  *)
(* the word delivered last, none since the queue was cleared: a reader of  *)
(* the empty queue gets it again.  Turn is a bit command at the address of *)
(* the FIFO: it takes a word and puts one.  Only Clear loses words, and it *)
(* shows in epoch: it is a write to ECR, or a restart.                     *)
(***************************************************************************)
EXTENDS Naturals, Sequences

CONSTANT N
VARIABLES q, last, epoch

Extends(old, new) == Len(new) = Len(old) + 1 /\ SubSeq(new, 1, Len(old)) = old
Rest == IF q = <<>> THEN <<>> ELSE Tail(q)
\* What a reader gets is the head; of an empty queue the last one again, and
\* anything if there was none.
Delivers == IF q # <<>> THEN last' = <<Head(q)>> ELSE last = <<>> \/ last' = last

Init == q = <<>> /\ last = <<>> /\ epoch = 0
Put == Len(q) < N /\ Extends(q, q') /\ UNCHANGED <<last, epoch>>
Get == Delivers /\ q' = Rest /\ UNCHANGED epoch
Turn == Delivers /\ Extends(Rest, q') /\ UNCHANGED epoch
Clear == q' = <<>> /\ last' = <<>> /\ epoch' = 1 - epoch
Next == Put \/ Get \/ Turn \/ Clear
Spec == Init /\ [][Next]_<<q, last, epoch>>
=============================================================================
