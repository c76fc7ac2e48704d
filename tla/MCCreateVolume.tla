--------------------------- MODULE MCCreateVolume ---------------------------
(* Instances of CreateVolume for TLC.                                      *)
EXTENDS CreateVolume

CONSTANTS c1, c2, r1

MCCommands == {c1, c2}
MCExplicit == {r1}
=============================================================================
