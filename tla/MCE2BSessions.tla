---------------------------- MODULE MCE2BSessions ----------------------------
(* Instances of E2BSessions for TLC: commands are interchangeable.          *)
EXTENDS E2BSessions, TLC

MCSymmetry == Permutations(Requests)
==============================================================================
