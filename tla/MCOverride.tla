------------------------------ MODULE MCOverride -----------------------------
(***************************************************************************)
(* Override for TLC.  Task slots, managers and levels are interchangeable: *)
(* nothing orders them, and the initial states treat all levels alike.     *)
(* (Fallback is one of the levels, but it is only sent if the device may   *)
(* leave out its reserve, as it may not in the runs with symmetry.)        *)
(***************************************************************************)
EXTENDS Override, TLC

Symmetry == Permutations(Tasks) \cup Permutations(Managers) \cup Permutations(Socs)
=============================================================================
