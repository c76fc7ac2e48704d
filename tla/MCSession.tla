------------------------------ MODULE MCSession ------------------------------
(* Instances of Session for TLC.                                           *)
EXTENDS Session

CONSTANTS d1, d2

MCData == {d1, d2}
=============================================================================
