---------------------------- MODULE MCNbdStream ----------------------------
(* Instances of NbdStream for TLC.                                         *)
EXTENDS NbdStream, TLC

CONSTANTS h1, h2

MCHandles == {h1, h2}

\* Handles are only compared.
MCSymmetry == Permutations(MCHandles)
=============================================================================
