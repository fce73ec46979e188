------------------------------ MODULE MCVapor ------------------------------
(***************************************************************************)
(* Vapor for TLC.  Neither the callers nor the ids differ in anything but  *)
(* their names.                                                            *)
(***************************************************************************)
EXTENDS Vapor, TLC

Interchangeable == Permutations(Callers) \cup Permutations(Ids)

============================================================================
