------------------------------ MODULE MCAppLock ------------------------------
(***************************************************************************)
(* Small instances of AppLock: two PINs, one or two salts and checks at a  *)
(* time, one or two failed attempts for a cool-down.                       *)
(***************************************************************************)
EXTENDS AppLock, TLC

Symmetry == Permutations(Pins) \cup Permutations(Salts) \cup Permutations(Checks)
=============================================================================
