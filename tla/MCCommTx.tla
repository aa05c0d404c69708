------------------------------ MODULE MCCommTx ------------------------------
(* CommTx on a small instance.                                             *)
EXTENDS CommTx

CONSTANTS c1, c2

CallersDef == {c1, c2}
=============================================================================
