----------------------------- MODULE MCAsyncOps -----------------------------
(***************************************************************************)
(* AsyncOps for TLC.                                                       *)
(***************************************************************************)
EXTENDS AsyncOps, TLC

Symmetry == Permutations(Ops) \cup Permutations(Devices)
=============================================================================
