----------------------------- MODULE MCRegSync -----------------------------
(* RegSync for TLC.  The values of the word are alike: nothing compares them *)
(* but for equality, so the safety runs may exchange them.                   *)
EXTENDS RegSync, TLC

Alike == Permutations(Value)
=============================================================================
