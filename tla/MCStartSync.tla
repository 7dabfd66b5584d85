---------------------------- MODULE MCStartSync ----------------------------
(* Two instances of an actor; for invariants they are interchangeable.     *)
EXTENDS StartSync, TLC

CONSTANTS i1, i2

TwoInsts == {i1, i2}
InstSymmetry == Permutations(TwoInsts)
=============================================================================
