----------------------------- MODULE MCRegistry -----------------------------
(* Small instances of Registry for TLC.                                    *)
EXTENDS Registry, TLC

Symmetry == Permutations(App) \cup Permutations(Slug) \cup Permutations(Port)
                \cup Permutations(Mount) \cup Permutations(Handler)
=============================================================================
