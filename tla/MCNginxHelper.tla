--------------------------- MODULE MCNginxHelper ---------------------------
(* Small instances of NginxHelper for TLC.                                 *)
EXTENDS NginxHelper, TLC

Symmetry == Permutations(Conn) \cup Permutations(Site)
=============================================================================
