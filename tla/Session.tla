------------------------------- MODULE Session -------------------------------
(***************************************************************************)
(* VolumeSession (src/session.rs): opening the volume, and the read_blocks *)
(* and write_batch calls of the engine as RPCs with timeouts, bounded      *)
(* retries and reconnection.  A write_batch is cut into chunks, one RPC at *)
(* a time.  The frontend serves an RPC block by block and may be anywhere  *)
(* in it when the client stops waiting.  In Spec it drops the rest of an   *)
(* abandoned RPC; in LateSpec it may carry it out at any later time, for   *)
(* no field of the WriteBatchRequest orders one request after another.     *)
(***************************************************************************)
EXTENDS Blocks

CONSTANTS
  MaxWritesPerRpc,     \* MAX_WRITES_PER_WRITE_BATCH_RPC
  MaxAttemptsConfig,   \* retry.max_attempts, as configured
  MaxLate              \* bound: the abandoned RPCs that are kept track of

ASSUME MaxWritesAssumption == MaxWritesPerRpc \in Nat \ {0}
ASSUME AttemptsAssumption == MaxAttemptsConfig \in Nat
ASSUME LateAssumption == MaxLate \in Nat

VARIABLES
  backend,     \* the blocks of the volume, at the frontend
  serving,     \* of the RPC in progress, the blocks not stored yet
  late,        \* abandoned RPCs the frontend may still carry out
  connected,   \* client.is_some()
  call,        \* the method that runs: "none", "open", "read" or "write"
  batch,       \* the argument of write_batch, NoBlocks otherwise
  rest,        \* the blocks of batch in chunks not acknowledged yet
  attempt,     \* the attempt of the current RPC
  pc,          \* where the method is
  result,      \* what it returned
  durable      \* history: what each block was last known to be stored as

frontendVars == <<backend, serving, late>>
clientVars == <<connected, call, batch, rest, attempt, pc, result>>
vars == <<frontendVars, clientVars, durable>>

Results == {"ok", "retryable", "terminal"}

\* capped_attempts
MaxAttempts == IF MaxAttemptsConfig = 0 THEN 1 ELSE MaxAttemptsConfig

\* The blocks of the next RPC: writes.chunks(..) of a batch in LBA order.
NextChunk(m) == Restricted(m, LowestKeys(m, MaxWritesPerRpc))

TypeOK ==
  /\ backend \in Volume
  /\ serving \in BlockMap
  /\ late \subseteq BlockMap
  /\ connected \in BOOLEAN
  /\ call \in {"none", "open", "read", "write"}
  /\ batch \in BlockMap
  /\ rest \in BlockMap
  /\ attempt \in 0 .. MaxAttempts
  /\ pc \in {"down", "idle", "connecting", "awaiting", "sleeping", "returned"}
  /\ result \in Results \cup {"none"}
  /\ durable \in BlockMap

Init ==
  /\ backend \in Volume
  /\ serving = NoBlocks
  /\ late = {}
  /\ connected = FALSE
  /\ call = "none"
  /\ batch = NoBlocks
  /\ rest = NoBlocks
  /\ attempt = 0
  /\ pc = "down"
  /\ result = "none"
  /\ durable = NoBlocks

-----------------------------------------------------------------------------
(* Calls                                                                   *)

Begin(method) ==
  /\ call' = method
  /\ attempt' = 1
  /\ pc' = "connecting"

\* connect_and_open, by a process that starts.
Open ==
  /\ pc = "down"
  /\ Begin("open")
  /\ UNCHANGED <<frontendVars, connected, batch, rest, result, durable>>

ReadBlocks ==
  /\ pc = "idle"
  /\ Begin("read")
  /\ UNCHANGED <<frontendVars, connected, batch, rest, result, durable>>

WriteBatch(w) ==
  /\ pc = "idle"
  /\ w # NoBlocks
  /\ Begin("write")
  /\ batch' = w
  /\ rest' = w
  /\ durable' = Restricted(durable, Lba \ Keys(w))
  /\ UNCHANGED <<frontendVars, connected, result>>

Disconnect ==
  /\ pc = "idle"
  /\ connected' = FALSE
  /\ UNCHANGED <<frontendVars, call, batch, rest, attempt, pc, result, durable>>

\* The method returns.  A session that could not be opened does not exist,
\* and a successful connect_and_open leaves an idle one.
Return(res) ==
  /\ attempt' = 0
  /\ IF call = "open"
       THEN /\ pc' = IF res = "ok" THEN "idle" ELSE "down"
            /\ call' = "none"
            /\ UNCHANGED result
       ELSE /\ pc' = "returned"
            /\ result' = res
            /\ UNCHANGED call

\* The engine takes the result.
EndCall ==
  /\ pc = "returned"
  /\ pc' = "idle"
  /\ call' = "none"
  /\ batch' = NoBlocks
  /\ rest' = NoBlocks
  /\ result' = "none"
  /\ UNCHANGED <<frontendVars, connected, attempt, durable>>

-----------------------------------------------------------------------------
(* One attempt of an RPC                                                   *)

\* ensure_connected, or the connect_client of connect_and_open, and the send.
Send ==
  /\ pc = "connecting"
  /\ connected' = TRUE
  /\ serving' = NextChunk(rest)
  /\ pc' = "awaiting"
  /\ UNCHANGED <<backend, late, call, batch, rest, attempt, result, durable>>

AttemptsLeft == attempt < MaxAttempts

\* Faulty variant: a loop that runs out of attempts ends as a success.
RetryOrFallThrough(mayRetry, error) ==
  IF mayRetry /\ AttemptsLeft
    THEN /\ pc' = "sleeping"
         /\ UNCHANGED <<call, attempt, result>>
    ELSE Return(IF mayRetry THEN "ok" ELSE error)

\* Sleep before the next attempt, or give up.
RetryOrReturn(mayRetry, error) ==
  IF mayRetry /\ AttemptsLeft
    THEN /\ pc' = "sleeping"
         /\ UNCHANGED <<call, attempt, result>>
    ELSE Return(error)

ConnectFails ==
  /\ pc = "connecting"
  /\ ~connected
  /\ RetryOrReturn(TRUE, "retryable")
  /\ UNCHANGED <<frontendVars, connected, batch, rest, durable>>

\* Faulty variant: the attempts are not counted.
SleepEndsUncounted ==
  /\ pc = "sleeping"
  /\ pc' = "connecting"
  /\ UNCHANGED <<frontendVars, connected, call, batch, rest, attempt, result,
                 durable>>

SleepEnds ==
  /\ pc = "sleeping"
  /\ attempt' = attempt + 1
  /\ pc' = "connecting"
  /\ UNCHANGED <<frontendVars, connected, call, batch, rest, result, durable>>

\* Faulty variants: the first chunk passes for the whole batch; the chunk
\* after an acknowledged one starts a block late.
NothingLeft(m, sent) == NoBlocks
SkipOne(m, sent) ==
  LET left == Keys(m) \ Keys(sent)
  IN  Restricted(m, {b \in left : \E k \in left : k < b})

\* What is left of the batch once a chunk is acknowledged.
Unacknowledged(m, sent) == Restricted(m, Lba \ Keys(sent))

\* An answer to open or read, and the last one to a write, end the call.
\* An answer to a chunk of a write starts the next chunk.
AnswerOk ==
  /\ pc = "awaiting"
  /\ serving = NoBlocks
  /\ rest' = Unacknowledged(rest, NextChunk(rest))
  /\ IF rest' = NoBlocks
       THEN /\ Return("ok")
            /\ durable' = IF call = "write" THEN Overlay(batch, durable) ELSE durable
       ELSE /\ Begin(call)
            /\ UNCHANGED <<result, durable>>
  /\ UNCHANGED <<frontendVars, connected, batch>>

\* OpenVolume answers another volume or an impossible geometry.
OpenMismatch ==
  /\ pc = "awaiting" /\ call = "open"
  /\ connected' = FALSE
  /\ Return("terminal")
  /\ UNCHANGED <<frontendVars, batch, rest, durable>>

\* The client stops waiting: what is left of the RPC is dropped, or late.
Abandon ==
  /\ serving' = NoBlocks
  /\ late' = IF serving # NoBlocks /\ Cardinality(late) < MaxLate
               THEN late \cup {serving} ELSE late
  /\ UNCHANGED backend

\* An error status, of those is_retryable_status names or another one.
AnswerStatus(retryable) ==
  /\ pc = "awaiting"
  /\ connected' = FALSE
  /\ RetryOrReturn(retryable, IF retryable THEN "retryable" ELSE "terminal")
  /\ Abandon
  /\ UNCHANGED <<batch, rest, durable>>

\* Faulty variant: the client is kept.
TimeoutKeepsClient ==
  /\ pc = "awaiting"
  /\ RetryOrReturn(TRUE, "retryable")
  /\ Abandon
  /\ UNCHANGED <<connected, batch, rest, durable>>

Timeout ==
  /\ pc = "awaiting"
  /\ connected' = FALSE
  /\ RetryOrReturn(TRUE, "retryable")
  /\ Abandon
  /\ UNCHANGED <<batch, rest, durable>>

-----------------------------------------------------------------------------
(* The frontend, and the death of the process                              *)

ServeBlock(b) ==
  /\ serving[b] # Absent
  /\ backend' = [backend EXCEPT ![b] = serving[b]]
  /\ serving' = [serving EXCEPT ![b] = Absent]
  /\ UNCHANGED <<late, clientVars, durable>>

ServeLate(w) ==
  /\ backend' = Overlay(w, backend)
  /\ late' = late \ {w}
  /\ UNCHANGED <<serving, clientVars, durable>>

Die ==
  /\ pc # "down"
  /\ Abandon
  /\ connected' = FALSE
  /\ call' = "none"
  /\ batch' = NoBlocks
  /\ rest' = NoBlocks
  /\ attempt' = 0
  /\ pc' = "down"
  /\ result' = "none"
  /\ UNCHANGED durable

ClientStep ==
  \/ Send \/ ConnectFails \/ SleepEnds
  \/ AnswerOk \/ OpenMismatch
  \/ \E retryable \in BOOLEAN : AnswerStatus(retryable)
  \/ Timeout

Next ==
  \/ Open \/ ReadBlocks \/ Disconnect \/ EndCall
  \/ \E w \in BlockMap : WriteBatch(w)
  \/ ClientStep
  \/ \E b \in Lba : ServeBlock(b)
  \/ Die

LateNext == Next \/ \E w \in late : ServeLate(w)

Spec == Init /\ [][Next]_vars

\* The frontend may finish what its client gave up.
LateSpec == Init /\ [][LateNext]_vars

\* The runtime drives the method; a connect, an RPC and a sleep each end by
\* their timeout at the latest.
FairSpec == Spec /\ WF_vars(ClientStep)

-----------------------------------------------------------------------------
(* Properties                                                              *)

\* A client whose RPC failed serves no other: neither the next attempt, nor,
\* when the call gives up, the calls that follow.
FailedClientDropped ==
  pc = "sleeping" \/ (pc = "returned" /\ result # "ok") => ~connected

\* The chunks of a batch that were acknowledged are stored while the others
\* are sent or retried: an error return leaves whole chunks in LBA order
\* behind, and parts of one more.
AcknowledgedChunksStored ==
  \A b \in Keys(batch) : rest[b] = Absent => backend[b] = batch[b]

\* The frontend keeps what it acknowledged until the block is written again:
\* no delayed copy of an older write lands on it.
LastWriteWins ==
  \A b \in Lba : durable[b] # Absent => backend[b] = durable[b]

\* The inductive invariant.  A block the frontend still has to store is one of
\* the chunk the client waits for; the blocks of that chunk the frontend has
\* stored stay stored until the answer; what is left of the batch is as the
\* batch has it, and nothing the frontend has acknowledged since.
InProgress == {"connecting", "awaiting", "sleeping"}

ChunkInv ==
  /\ \A b \in Keys(serving) : pc = "awaiting" /\ serving[b] = rest[b]
  /\ pc = "awaiting" =>
       \A b \in Keys(NextChunk(rest)) \ Keys(serving) : backend[b] = rest[b]
  /\ \A b \in Keys(rest) : rest[b] = batch[b] /\ durable[b] = Absent

CallInv ==
  /\ call = "none" <=> pc \in {"down", "idle"}
  /\ call = "write" <=> batch # NoBlocks
  /\ pc = "returned" <=> result # "none"
  /\ pc = "returned" /\ result = "ok" => rest = NoBlocks
  /\ pc = "sleeping" => attempt < MaxAttempts

IInv ==
  /\ TypeOK
  /\ ChunkInv
  /\ CallInv
  /\ FailedClientDropped
  /\ AcknowledgedChunksStored
  /\ LastWriteWins

\* The session keeps the contract the engine relies on.
Transport ==
  INSTANCE BackendTransport WITH
    outcome <- IF call = "write" THEN result ELSE "none"
ImplementsTransport == Transport!TransportSpec

\* Every call returns, whatever the frontend does: the attempts are bounded.
CallReturns == pc \in {"connecting", "awaiting", "sleeping"}
                 ~> pc \in {"down", "idle", "returned"}
=============================================================================
