----------------------------- MODULE BlockDevice -----------------------------
(***************************************************************************)
(* What the engine promises to whoever submits requests to it: a block     *)
(* device with a volatile write cache.  A reader sees view; what survives  *)
(* a loss of the process is stable.  An acknowledged write is in view, an  *)
(* acknowledged flush (or disconnect) finds nothing of view missing in     *)
(* stable, a read returns view, and only a loss of the process takes       *)
(* anything out of view.  A write answered EIO may or may not have taken   *)
(* effect.                                                                 *)
(***************************************************************************)
EXTENDS Blocks

CONSTANT Requests      \* the requests that may be submitted, a subset of Request

VARIABLES
  view,      \* what a read returns
  stable,    \* what survives the loss of the process
  pending,   \* the request being served, or NoRequest
  reply      \* the last reply

vars == <<view, stable, pending, reply>>

WellFormed(r) ==
  /\ RangeOf(r) # {}
  /\ RangeOf(r) \subseteq Lba
  /\ ~r.ragged

Acceptable(r) == r.op \in {"flush", "disconnect"} \/ WellFormed(r)

Init ==
  /\ view \in Volume
  /\ stable = view
  /\ pending = NoRequest
  /\ reply = NoReply

Submit(r) ==
  /\ pending = NoRequest
  /\ pending' = r
  /\ reply' = NoReply
  /\ UNCHANGED <<view, stable>>

Answer(status, data) ==
  /\ reply' = [op |-> pending.op, status |-> status, data |-> data]
  /\ pending' = NoRequest

\* The payload becomes visible before the write is acknowledged.
TakeWrite ==
  /\ pending.op = "write" /\ WellFormed(pending)
  /\ view' = Written(pending, view)
  /\ UNCHANGED <<stable, pending, reply>>

AckWrite ==
  /\ pending.op = "write" /\ WellFormed(pending)
  /\ view' = Written(pending, view)
  /\ Answer("ok", NoBlocks)
  /\ UNCHANGED stable

AckRead ==
  /\ pending.op = "read" /\ WellFormed(pending)
  /\ Answer("ok", Restricted(view, RangeOf(pending)))
  /\ UNCHANGED <<view, stable>>

AckFlush ==
  /\ pending.op \in {"flush", "disconnect"}
  /\ stable = view
  /\ Answer("ok", NoBlocks)
  /\ UNCHANGED <<view, stable>>

Refuse ==
  /\ pending.op \in {"read", "write"} /\ ~WellFormed(pending)
  /\ Answer("EINVAL", NoBlocks)
  /\ UNCHANGED <<view, stable>>

Fail ==
  /\ pending # NoRequest /\ Acceptable(pending)
  /\ Answer("EIO", NoBlocks)
  /\ UNCHANGED <<view, stable>>

\* Any blocks of view may reach stable storage at any time.
Destage(S) ==
  /\ stable' = [b \in Lba |-> IF b \in S THEN view[b] ELSE stable[b]]
  /\ UNCHANGED <<view, pending, reply>>

PowerLoss ==
  /\ view' = stable
  /\ pending' = NoRequest
  /\ reply' = NoReply
  /\ UNCHANGED stable

Next ==
  \/ \E r \in Requests : Submit(r)
  \/ TakeWrite \/ AckWrite \/ AckRead \/ AckFlush \/ Refuse \/ Fail
  \/ \E S \in SUBSET Lba : Destage(S)
  \/ PowerLoss

Spec == Init /\ [][Next]_vars
=============================================================================
