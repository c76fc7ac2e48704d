------------------------------- MODULE Engine -------------------------------
(***************************************************************************)
(* CachingBlockEngine (src/engine.rs) serving one request after another,   *)
(* as the bridge calls it, over any transport that keeps the contract of   *)
(* BackendTransport.  The engine is one task: it is between two of its     *)
(* actions exactly when it awaits the transport or a timer, and pc says    *)
(* which.  The process may die at any moment and be started again.         *)
(***************************************************************************)
EXTENDS BackendTransport

CONSTANTS
  Requests,          \* the requests that may be submitted
  MaxBlocksPerRpc,   \* MAX_BLOCKS_PER_RPC
  HighWaterConfig    \* dirty_high_watermark_blocks, as configured

ASSUME RequestsAssumption == Requests \subseteq Request
ASSUME MaxBlocksAssumption == MaxBlocksPerRpc \in Nat \ {0}
ASSUME HighWaterAssumption == HighWaterConfig \in Nat

VARIABLES
  dirty,     \* the write cache
  cmd,       \* the request being served, or NoRequest
  pc,        \* where the task is
  cursor,    \* read_blocks: current_lba
  output,    \* read_blocks: the blocks copied to the output so far
  expired,   \* flush_with_deadline: the deadline has passed
  reply      \* the last response

engineVars == <<dirty, cmd, pc, cursor, output, expired, reply>>
vars == <<transportVars, engineVars>>

Serving == {"start", "reading", "flushing", "writing", "sleeping"}

TypeOK ==
  /\ TransportTypeOK
  /\ dirty \in BlockMap
  /\ cmd \in Requests \cup {NoRequest}
  /\ pc \in Serving \cup {"idle", "closed"}
  /\ cursor \in 0 .. TotalBlocks
  /\ output \in BlockMap
  /\ expired \in BOOLEAN
  /\ reply \in Reply

-----------------------------------------------------------------------------
(* The checks and the helpers of the engine.                               *)

\* ensure_range: checked_add of the two, against total_blocks.
InRange(start, count) == start + count <= TotalBlocks

\* ensure_read_range, ensure_write_payload, ensure_range.
Valid(r) ==
  CASE r.op = "read"  -> r.count > 0 /\ InRange(r.start, r.count)
    [] r.op = "write" -> /\ Len(r.data) > 0 /\ ~r.ragged
                         /\ InRange(r.start, Len(r.data))
    [] OTHER -> TRUE

\* CachingBlockEngine::new replaces a mark of 0.
HighWater == IF HighWaterConfig = 0 THEN 1 ELSE HighWaterConfig

\* Faulty variant: the mark itself is let through.
AboveHighWaterStrictly(m) == Cardinality(Keys(m)) > HighWater

AboveHighWater(m) == Cardinality(Keys(m)) >= HighWater

\* The writes of one chunk of flush_once.
NextBatch(m) == Restricted(m, LowestKeys(m, MaxBlocksPerRpc))

\* Faulty variant: an accepted chunk clears the whole cache.
WithoutAnything(m, w) == NoBlocks

\* The cache without the blocks whose batch was accepted.
WithoutBatch(m, w) == Restricted(m, Lba \ Keys(w))

\* Faulty variant: the last chunk is as long as the others.
WholeChunk(from, r) == from .. from + MaxBlocksPerRpc - 1

\* One chunk of a read: its blocks, from the cursor on.
Chunk(from, r) ==
  LET end == r.start + r.count
  IN  from .. (IF end - from > MaxBlocksPerRpc THEN from + MaxBlocksPerRpc
                                               ELSE end) - 1

\* Faulty variant: no overlay of the dirty blocks.
FetchedOnly(fetched, cache, r) == fetched

\* The result of a read: what was fetched, with the dirty blocks over it.
ReadResult(fetched, cache, r) ==
  Overlay(Restricted(cache, RangeOf(r)), fetched)

\* Faulty variant: the deadline is not looked at.
AlwaysRetry(res) == res = "retryable"

MayRetry(res) == res = "retryable" /\ ~expired

-----------------------------------------------------------------------------
Init ==
  /\ TransportInit
  /\ dirty = NoBlocks
  /\ cmd = NoRequest
  /\ pc = "idle"
  /\ cursor = 0
  /\ output = NoBlocks
  /\ expired = FALSE
  /\ reply = NoReply

Submit(r) ==
  /\ pc = "idle"
  /\ cmd' = r
  /\ pc' = "start"
  /\ reply' = NoReply
  /\ UNCHANGED <<transportVars, dirty, cursor, output, expired>>

\* The method returns.  After disconnect the engine is not used again.
Conclude(status, data) ==
  /\ reply' = [op |-> cmd.op, status |-> status, data |-> data]
  /\ cmd' = NoRequest
  /\ pc' = IF cmd.op = "disconnect" THEN "closed" ELSE "idle"
  /\ cursor' = 0
  /\ output' = NoBlocks
  /\ expired' = FALSE

Reject ==
  /\ pc = "start"
  /\ ~Valid(cmd)
  /\ Conclude("EINVAL", NoBlocks)
  /\ UNCHANGED <<transportVars, dirty>>

-----------------------------------------------------------------------------
(* read_blocks                                                             *)

StartRead ==
  /\ pc = "start" /\ cmd.op = "read" /\ Valid(cmd)
  /\ cursor' = cmd.start
  /\ pc' = "reading"
  /\ UNCHANGED <<transportVars, dirty, cmd, output, expired, reply>>

ReadChunk ==
  /\ pc = "reading"
  /\ cursor < cmd.start + cmd.count
  /\ LET c == Chunk(cursor, cmd)
     IN  /\ output' = Overlay(Restricted(backend, c), output)
         /\ cursor' = cursor + Cardinality(c)
  /\ UNCHANGED <<transportVars, dirty, cmd, pc, expired, reply>>

\* The transport fails, or answers a chunk of another length.
ReadChunkFails ==
  /\ pc = "reading"
  /\ cursor < cmd.start + cmd.count
  /\ Conclude("EIO", NoBlocks)
  /\ UNCHANGED <<transportVars, dirty>>

FinishRead ==
  /\ pc = "reading"
  /\ cursor = cmd.start + cmd.count
  /\ Conclude("ok", ReadResult(output, dirty, cmd))
  /\ UNCHANGED <<transportVars, dirty>>

-----------------------------------------------------------------------------
(* write_blocks, flush, disconnect                                         *)

StartFlush ==
  /\ pc' = "flushing"
  /\ expired' = FALSE
  /\ UNCHANGED <<cmd, cursor, output, reply>>

WriteBlocks ==
  /\ pc = "start" /\ cmd.op = "write" /\ Valid(cmd)
  /\ dirty' = Written(cmd, dirty)
  /\ IF AboveHighWater(dirty') THEN StartFlush ELSE Conclude("ok", NoBlocks)
  /\ UNCHANGED transportVars

BeginFlush ==
  /\ pc = "start" /\ cmd.op \in {"flush", "disconnect"}
  /\ StartFlush
  /\ UNCHANGED <<transportVars, dirty>>

\* flush_with_deadline returns.  disconnect then calls the transport's
\* disconnect, whose error stands in for a flush that went well.
FlushEnds(ok) ==
  \E transportClosed \in IF cmd.op = "disconnect" THEN BOOLEAN ELSE {TRUE} :
    Conclude(IF ok /\ transportClosed THEN "ok" ELSE "EIO", NoBlocks)

\* Faulty variant: the blocks leave the cache when they are sent.
SendAndForget ==
  /\ pc = "flushing"
  /\ dirty # NoBlocks
  /\ Call(NextBatch(dirty))
  /\ dirty' = WithoutBatch(dirty, NextBatch(dirty))
  /\ pc' = "writing"
  /\ UNCHANGED <<cmd, cursor, output, expired, reply>>

SendBatch ==
  /\ pc = "flushing"
  /\ dirty # NoBlocks
  /\ Call(NextBatch(dirty))
  /\ pc' = "writing"
  /\ UNCHANGED <<dirty, cmd, cursor, output, expired, reply>>

FlushSucceeds ==
  /\ pc = "flushing"
  /\ dirty = NoBlocks
  /\ FlushEnds(TRUE)
  /\ UNCHANGED <<transportVars, dirty>>

BatchAccepted ==
  /\ pc = "writing" /\ outcome = "ok"
  /\ dirty' = WithoutBatch(dirty, batch)
  /\ EndCall
  /\ pc' = "flushing"
  /\ UNCHANGED <<cmd, cursor, output, expired, reply>>

BatchRetried ==
  /\ pc = "writing" /\ MayRetry(outcome)
  /\ EndCall
  /\ pc' = "sleeping"
  /\ UNCHANGED <<dirty, cmd, cursor, output, expired, reply>>

\* Faulty variant: a failed flush gives the cache up.
BatchGivenUp ==
  /\ pc = "writing" /\ outcome \in {"retryable", "terminal"}
  /\ ~MayRetry(outcome)
  /\ EndCall
  /\ FlushEnds(FALSE)
  /\ dirty' = NoBlocks

BatchFailed ==
  /\ pc = "writing" /\ outcome \in {"retryable", "terminal"}
  /\ ~MayRetry(outcome)
  /\ EndCall
  /\ FlushEnds(FALSE)
  /\ UNCHANGED dirty

RetryFlush ==
  /\ pc = "sleeping"
  /\ pc' = "flushing"
  /\ UNCHANGED <<transportVars, dirty, cmd, cursor, output, expired, reply>>

-----------------------------------------------------------------------------
(* The environment: the transport, time, and the life of the process.      *)

StoreBlocks(S) == Store(S) /\ UNCHANGED engineVars

ReturnResult(res) == Return(res) /\ UNCHANGED engineVars

DeadlinePasses ==
  /\ pc \in {"flushing", "writing", "sleeping"}
  /\ ~expired
  /\ expired' = TRUE
  /\ UNCHANGED <<transportVars, dirty, cmd, pc, cursor, output, reply>>

\* The process ends, killed or detached, and the volume is attached again.
Restart ==
  /\ EndCall
  /\ dirty' = NoBlocks
  /\ cmd' = NoRequest
  /\ pc' = "idle"
  /\ cursor' = 0
  /\ output' = NoBlocks
  /\ expired' = FALSE
  /\ reply' = NoReply

EngineStep ==
  \/ Reject
  \/ StartRead \/ ReadChunk \/ ReadChunkFails \/ FinishRead
  \/ WriteBlocks \/ BeginFlush \/ SendBatch \/ FlushSucceeds
  \/ BatchAccepted \/ BatchRetried \/ BatchFailed \/ RetryFlush

TransportReturns == \E res \in Results : ReturnResult(res)

Next ==
  \/ \E r \in Requests : Submit(r)
  \/ EngineStep
  \/ \E S \in SUBSET Keys(batch) : StoreBlocks(S)
  \/ TransportReturns
  \/ DeadlinePasses
  \/ Restart

Spec == Init /\ [][Next]_vars

\* The runtime polls a ready task; every call of the transport returns,
\* since its attempts are bounded and each has a timeout; time passes.
Fairness ==
  /\ WF_vars(EngineStep)
  /\ WF_vars(TransportReturns)
  /\ WF_vars(DeadlinePasses)

FairSpec == Spec /\ Fairness

-----------------------------------------------------------------------------
(* Properties                                                              *)

\* While a batch is on its way, each of its blocks is still in the cache with
\* the same contents (engine.rs asserts in flush_once that the entries it
\* removes exist); nothing is on its way otherwise.
BatchInDirty ==
  /\ \A b \in Keys(batch) : dirty[b] = batch[b]
  /\ pc # "writing" => batch = NoBlocks /\ outcome = "none"

\* What the task knows where it awaits: a read has copied the backend's blocks
\* up to its cursor; a write that is flushing is already in the cache.
TaskInv ==
  /\ pc \in {"idle", "closed"} <=> cmd = NoRequest
  /\ pc = "reading" =>
       /\ cmd.op = "read" /\ Valid(cmd)
       /\ cursor \in cmd.start .. cmd.start + cmd.count
       /\ output = Restricted(backend, cmd.start .. cursor - 1)
  /\ pc # "reading" => output = NoBlocks
  /\ pc \in {"flushing", "writing", "sleeping"} =>
       \/ cmd.op \in {"flush", "disconnect"}
       \/ /\ cmd.op = "write" /\ Valid(cmd)
          /\ Written(cmd, Overlay(dirty, backend)) = Overlay(dirty, backend)

\* A result of Ok is honest until the engine has taken it: nothing overwrites
\* a stored batch in between.
ResultHonest == outcome = "ok" => Overlay(batch, backend) = backend

\* The inductive invariant behind the theorems of EngineProofs.
IInv == TypeOK /\ BatchInDirty /\ ResultHonest /\ TaskInv

\* A batch has at most MAX_BLOCKS_PER_RPC blocks, and leaves no dirty block
\* below its highest one out: a flush goes up the volume.
BatchIsLowestChunk ==
  pc = "writing" =>
    /\ Cardinality(Keys(batch)) \in 1 .. MaxBlocksPerRpc
    /\ \A b \in Keys(batch) : \A k \in Keys(dirty) : k < b => k \in Keys(batch)

\* An entry leaves the cache only when the backend holds its contents, except
\* when the process ends: no path of flush, retry or error drops one.
NeverDropped ==
  [][(\E b \in Lba : /\ dirty[b] # Absent
                     /\ dirty'[b] = Absent
                     /\ backend[b] # dirty[b]) => Restart]_vars

\* A write is acknowledged only with the cache below the high-water mark: a
\* cache filled up by writes that failed lets no later write through before
\* a flush has emptied it.
AckedWriteBelowHighWater ==
  reply.op = "write" /\ reply.status = "ok" =>
    Cardinality(Keys(dirty)) < HighWater

\* The engine is a block device with a volatile write cache (BlockDevice):
\* reads see every write taken so far over what was stored, an acknowledged
\* FLUSH or DISC left nothing to store, and a crash loses no flushed block.
Device ==
  INSTANCE BlockDevice WITH view <- Overlay(dirty, backend),
                            stable <- backend,
                            pending <- cmd
ImplementsDevice == Device!Spec

\* Every request is answered: no loop of reads, chunks or retries goes on for
\* ever, whatever the transport returns.
Answered == pc \in Serving ~> pc \in {"idle", "closed"}
=============================================================================
