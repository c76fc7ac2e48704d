---------------------------- MODULE MCFlushTiming ----------------------------
(* Instances of FlushTiming for TLC: the numbers are in the .cfg files.    *)
EXTENDS FlushTiming
=============================================================================
