----------------------------- MODULE MCOperator -----------------------------
(* Small instances of Operator for TLC.                                    *)
EXTENDS Operator, TLC
=============================================================================
