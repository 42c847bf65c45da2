----------------------------- MODULE MCBrothers -----------------------------
(* Brothers for TLC: processors are interchangeable; the last device of a  *)
(* directory of eleven slots (vector 234) or of twelve (vector 240).       *)
EXTENDS Brothers, TLC

Eleven == {[slots |-> 11, slot |-> 10]}
ElevenOrTwelve == Eleven \cup {[slots |-> 12, slot |-> 11]}

(* A pending vector whose class is in service, or below it, is never       *)
(* delivered any more, since nothing is ever taken out of service, and it  *)
(* keeps no other one from being delivered: states that differ in such     *)
(* vectors only have the same future.                                      *)
Live == [p \in Processors |-> {v \in irr[p] : Class(v) > isr[p]}]

View == <<pc, tpr, iflag, Live, isr, cr1, cr7, calendar, device, marked, directory,
          preempted>>

Symmetry == Permutations(Processors)
=============================================================================
