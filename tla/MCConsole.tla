----------------------------- MODULE MCConsole -----------------------------
(* Small instances of Console for TLC.                                     *)
EXTENDS Console, TLC

MCSize == <<2, 1>>
Symmetry == Permutations(Conn) \cup Permutations(Inst)
=============================================================================
