----------------------------- MODULE MCAccounts -----------------------------
(* Small instances of Accounts for TLC.                                    *)
EXTENDS Accounts, TLC

Symmetry == Permutations(User) \cup Permutations(Email \ {Root})
                \cup Permutations(Token) \cup Permutations(Session)
                \cup Permutations(Browser)
=============================================================================
