------------------------------- MODULE MCPool -------------------------------
(* Pool for TLC: the callers are interchangeable.                          *)
EXTENDS Pool, TLC

Symmetry == Permutations(Callers)
=============================================================================
