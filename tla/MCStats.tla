------------------------------ MODULE MCStats ------------------------------
(***************************************************************************)
(* Stats for TLC: threads are interchangeable, and so are slaves.          *)
(***************************************************************************)
EXTENDS Stats, TLC

MCSymmetry == Permutations(Threads) \cup Permutations(Slaves)
=============================================================================
