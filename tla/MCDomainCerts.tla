--------------------------- MODULE MCDomainCerts ---------------------------
(* Small instances of DomainCerts for TLC.                                 *)
EXTENDS DomainCerts, TLC

Symmetry == Permutations(Host) \cup Permutations(App) \cup Permutations(Req)
                \cup Permutations(Slot)
=============================================================================
