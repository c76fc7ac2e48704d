--------------------------- MODULE BackendTransport ---------------------------
(***************************************************************************)
(* The contract between the engine and its transport: the methods of trait *)
(* BackendTransport as their callers and implementations use them.  One    *)
(* call is outstanding at a time (every method takes &mut self).  A call   *)
(* of write_batch stores any of its blocks, in any order, and returns Ok   *)
(* only when all of them are stored; a call that has returned an error may *)
(* have stored some of them, and stores nothing after it has returned.     *)
(* read_blocks changes nothing, so it has no action here: its result is    *)
(* the part of backend it was asked for, or an error.                      *)
(***************************************************************************)
EXTENDS Blocks

VARIABLES
  backend,   \* the blocks of the remote volume
  batch,     \* the blocks of the outstanding write_batch, NoBlocks if none
  outcome    \* its result, "none" until it has one

transportVars == <<backend, batch, outcome>>

Results == {"ok", "retryable", "terminal"}

TransportTypeOK ==
  /\ backend \in Volume
  /\ batch \in BlockMap
  /\ outcome \in Results \cup {"none"}

TransportInit ==
  /\ backend \in Volume
  /\ batch = NoBlocks
  /\ outcome = "none"

Call(w) ==
  /\ batch = NoBlocks
  /\ w # NoBlocks
  /\ batch' = w
  /\ UNCHANGED <<backend, outcome>>

\* Some blocks of the outstanding batch reach the backend.
Store(S) ==
  /\ outcome = "none"
  /\ S # {}
  /\ backend' = Overlay(Restricted(batch, S), backend)
  /\ UNCHANGED <<batch, outcome>>

Return(res) ==
  /\ batch # NoBlocks
  /\ outcome = "none"
  /\ res = "ok" => Overlay(batch, backend) = backend
  /\ outcome' = res
  /\ UNCHANGED <<backend, batch>>

\* The caller has taken the result, or is gone.
EndCall ==
  /\ batch' = NoBlocks
  /\ outcome' = "none"
  /\ UNCHANGED backend

TransportNext ==
  \/ \E w \in BlockMap : Call(w)
  \/ \E S \in SUBSET Keys(batch) : Store(S)
  \/ \E res \in Results : Return(res)
  \/ EndCall

TransportSpec == TransportInit /\ [][TransportNext]_transportVars
=============================================================================
