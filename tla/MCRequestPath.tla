---------------------------- MODULE MCRequestPath ----------------------------
(* An instance of RequestPath for TLC.                                     *)
EXTENDS RequestPath

MCMinSigned == -1
=============================================================================
