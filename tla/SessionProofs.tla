---------------------------- MODULE SessionProofs ----------------------------
(***************************************************************************)
(* Theorems about Session for every volume, chunk size and number of       *)
(* attempts, with a frontend that drops what its client abandons.          *)
(***************************************************************************)
EXTENDS Session, BlocksTheorems

LEMMA MaxAttemptsNat == MaxAttempts \in Nat /\ MaxAttempts >= 1
BY AttemptsAssumption DEF MaxAttempts

\* A chunk is a part of the batch, and what is left has the other blocks.
LEMMA ChunkFacts ==
  ASSUME NEW m \in BlockMap
  PROVE  /\ NextChunk(m) \in BlockMap
         /\ Keys(NextChunk(m)) \subseteq Keys(m)
         /\ \A b \in Keys(NextChunk(m)) : NextChunk(m)[b] = m[b]
         /\ Unacknowledged(m, NextChunk(m)) \in BlockMap
         /\ Keys(Unacknowledged(m, NextChunk(m))) = Keys(m) \ Keys(NextChunk(m))
         /\ \A b \in Lba : Unacknowledged(m, NextChunk(m))[b] =
                             IF b \in Keys(NextChunk(m)) THEN Absent ELSE m[b]
<1>. DEFINE S == LowestKeys(m, MaxWritesPerRpc)
            c == NextChunk(m)
<1>1. c = Restricted(m, S)
  BY DEF NextChunk
<1>. HIDE DEF S
<1>2. c \in BlockMap /\ Keys(c) = Keys(m) \cap S
  BY <1>1, MapTypes
<1>3. \A b \in Keys(c) : c[b] = m[b]
  BY <1>1, <1>2 DEF Restricted, Keys
<1>4. Unacknowledged(m, c) = Restricted(m, Lba \ Keys(c))
  BY DEF Unacknowledged
<1>. HIDE DEF c
<1>5. Unacknowledged(m, c) \in BlockMap
      /\ Keys(Unacknowledged(m, c)) = Keys(m) \cap (Lba \ Keys(c))
  BY <1>4, MapTypes
<1>6. \A b \in Lba : Unacknowledged(m, c)[b] = IF b \in Keys(c) THEN Absent ELSE m[b]
  BY <1>4 DEF Restricted
<1>7. Keys(m) \subseteq Lba
  BY DEF Keys
<1>. QED
  BY <1>2, <1>3, <1>5, <1>6, <1>7 DEF c

\* A map without keys has no contents anywhere.
LEMMA NoBlocksEverywhere == Keys(NoBlocks) = {} /\ \A b \in Lba : NoBlocks[b] = Absent
BY DEF Keys, NoBlocks
-----------------------------------------------------------------------------
(* The inductive invariant                                                 *)

LEMMA InitIInv == Init => IInv
<1>. SUFFICES ASSUME Init PROVE IInv
  OBVIOUS
<1>1. TypeOK
  <2>1. NoBlocks \in BlockMap /\ 0 \in 0 .. MaxAttempts
    BY NoBlocksFacts, MaxAttemptsNat
  <2>. QED
    BY <2>1 DEF Init, TypeOK
<1>2. ChunkInv
  BY NoBlocksEverywhere DEF Init, ChunkInv
<1>3. CallInv /\ FailedClientDropped
  BY DEF Init, CallInv, FailedClientDropped
<1>4. AcknowledgedChunksStored /\ LastWriteWins
  BY NoBlocksEverywhere DEF Init, AcknowledgedChunksStored, LastWriteWins
<1>. QED
  BY <1>1, <1>2, <1>3, <1>4 DEF IInv

\* A call begins.
LEMMA OpenIInv == ASSUME IInv, Open \/ ReadBlocks PROVE IInv'
<1>. USE DEF Open, ReadBlocks, Begin, frontendVars
<1>1. pc \in {"down", "idle"} /\ result = "none" /\ batch = NoBlocks
      /\ pc' = "connecting" /\ call' \in {"open", "read"}
  BY DEF IInv, CallInv
<1>2. TypeOK'
  BY <1>1, MaxAttemptsNat DEF IInv, TypeOK
<1>3. ChunkInv'
  BY <1>1 DEF IInv, ChunkInv
<1>4. CallInv' /\ FailedClientDropped'
  BY <1>1 DEF IInv, CallInv, FailedClientDropped
<1>5. AcknowledgedChunksStored' /\ LastWriteWins'
  BY DEF IInv, AcknowledgedChunksStored, LastWriteWins
<1>. QED
  BY <1>2, <1>3, <1>4, <1>5 DEF IInv

LEMMA WriteBatchIInv ==
  ASSUME IInv, NEW w \in BlockMap, WriteBatch(w) PROVE IInv'
<1>. USE DEF WriteBatch, Begin, frontendVars
<1>1. /\ pc = "idle" /\ result = "none" /\ pc' = "connecting" /\ call' = "write"
      /\ Keys(serving) = {}
  BY DEF IInv, CallInv, ChunkInv
<1>2. durable' \in BlockMap
      /\ \A b \in Lba : durable'[b] = IF b \in Keys(w) THEN Absent ELSE durable[b]
  BY MapTypes DEF IInv, TypeOK, Restricted
<1>3. TypeOK'
  BY <1>1, <1>2, MaxAttemptsNat DEF IInv, TypeOK
<1>4. ChunkInv'
  <2>1. \A b \in Keys(w) : b \in Lba
    BY DEF Keys
  <2>. QED
    BY <1>1, <1>2, <2>1 DEF ChunkInv
<1>5. CallInv' /\ FailedClientDropped'
  BY <1>1 DEF IInv, CallInv, FailedClientDropped
<1>6. AcknowledgedChunksStored'
  BY DEF AcknowledgedChunksStored, Keys
<1>7. LastWriteWins'
  BY <1>2 DEF IInv, LastWriteWins
<1>. QED
  BY <1>3, <1>4, <1>5, <1>6, <1>7 DEF IInv

\* Between two calls.
LEMMA DisconnectIInv == ASSUME IInv, Disconnect PROVE IInv'
BY DEF Disconnect, frontendVars, IInv, TypeOK, ChunkInv, CallInv,
       FailedClientDropped, AcknowledgedChunksStored, LastWriteWins

LEMMA EndCallIInv == ASSUME IInv, EndCall PROVE IInv'
<1>. USE DEF EndCall, frontendVars
<1>1. Keys(serving) = {}
  BY DEF IInv, ChunkInv
<1>2. TypeOK'
  BY NoBlocksFacts DEF IInv, TypeOK
<1>3. ChunkInv'
  BY <1>1, NoBlocksEverywhere DEF ChunkInv
<1>4. CallInv' /\ FailedClientDropped'
  BY DEF CallInv, FailedClientDropped
<1>5. AcknowledgedChunksStored' /\ LastWriteWins'
  BY NoBlocksEverywhere DEF IInv, AcknowledgedChunksStored, LastWriteWins
<1>. QED
  BY <1>2, <1>3, <1>4, <1>5 DEF IInv

\* The client sends the next chunk.
LEMMA SendIInv == ASSUME IInv, Send PROVE IInv'
<1>. USE DEF Send
<1>1. rest \in BlockMap /\ Keys(serving) = {}
  BY DEF IInv, TypeOK, ChunkInv
<1>2. TypeOK'
  BY <1>1, ChunkFacts DEF IInv, TypeOK
<1>3. ChunkInv'
  <2>1. \A b \in Keys(serving)' : serving'[b] = rest'[b]
    BY <1>1, ChunkFacts
  <2>2. Keys(NextChunk(rest))' = Keys(serving)'
    OBVIOUS
  <2>3. \A b \in Keys(rest)' : rest'[b] = batch'[b] /\ durable'[b] = Absent
    BY DEF IInv, ChunkInv
  <2>. QED
    BY <2>1, <2>2, <2>3 DEF ChunkInv
<1>4. CallInv' /\ FailedClientDropped'
  BY DEF IInv, CallInv, FailedClientDropped
<1>5. AcknowledgedChunksStored' /\ LastWriteWins'
  BY DEF IInv, AcknowledgedChunksStored, LastWriteWins
<1>. QED
  BY <1>2, <1>3, <1>4, <1>5 DEF IInv

\* An attempt failed: the client is dropped, nothing is on its way, and what
\* is left of the batch is left.
LEMMA FailureIInv ==
  ASSUME IInv, pc \in InProgress, NEW mayRetry \in BOOLEAN,
         NEW error \in {"retryable", "terminal"}, RetryOrReturn(mayRetry, error),
         connected' = FALSE, serving' \in BlockMap, Keys(serving)' = {},
         late' \in SUBSET BlockMap,
         UNCHANGED <<backend, batch, rest, durable>>
  PROVE  IInv'
<1>1. /\ attempt \in 0 .. MaxAttempts /\ call # "none" /\ result = "none"
      /\ call \in {"open", "read", "write"} /\ (call = "write" <=> batch # NoBlocks)
  BY DEF InProgress, IInv, TypeOK, CallInv
<1>2. \/ /\ pc' = "sleeping" /\ attempt < MaxAttempts
         /\ UNCHANGED <<call, attempt, result>>
      \/ /\ pc' = "down" /\ call' = "none" /\ call = "open" /\ result' = "none"
         /\ attempt' = 0
      \/ /\ pc' = "returned" /\ call' = call /\ call # "open" /\ result' = error
         /\ attempt' = 0
  BY <1>1 DEF RetryOrReturn, AttemptsLeft, Return
<1>3. pc' \in {"down", "sleeping", "returned"} /\ attempt' \in 0 .. MaxAttempts
  BY <1>1, <1>2, MaxAttemptsNat
<1>4. TypeOK'
  BY <1>1, <1>2, <1>3 DEF IInv, TypeOK, Results
<1>5. ChunkInv'
  <2>1. pc' # "awaiting"
    BY <1>3
  <2>. QED
    BY <2>1 DEF IInv, ChunkInv
<1>6. CallInv'
  BY <1>1, <1>2 DEF CallInv
<1>7. FailedClientDropped'
  BY DEF FailedClientDropped
<1>8. AcknowledgedChunksStored' /\ LastWriteWins'
  BY DEF IInv, AcknowledgedChunksStored, LastWriteWins
<1>. QED
  BY <1>4, <1>5, <1>6, <1>7, <1>8 DEF IInv

LEMMA AbandonFacts ==
  ASSUME IInv, Abandon
  PROVE  /\ serving' \in BlockMap /\ Keys(serving)' = {}
         /\ late' \in SUBSET BlockMap /\ backend' = backend
<1>1. late \in SUBSET BlockMap /\ serving \in BlockMap
  BY DEF IInv, TypeOK
<1>. QED
  BY <1>1, NoBlocksFacts, NoBlocksEverywhere DEF Abandon

LEMMA AttemptFailsIInv ==
  ASSUME IInv,
         \/ ConnectFails
         \/ \E retryable \in BOOLEAN : AnswerStatus(retryable)
         \/ Timeout
  PROVE  IInv'
<1>1. CASE ConnectFails
  <2>1. serving \in BlockMap /\ late \in SUBSET BlockMap /\ connected = FALSE
        /\ pc \in InProgress /\ Keys(serving) = {}
    BY <1>1 DEF ConnectFails, IInv, TypeOK, ChunkInv, InProgress
  <2>2. /\ RetryOrReturn(TRUE, "retryable") /\ serving' = serving /\ late' = late
        /\ UNCHANGED <<backend, batch, rest, durable>> /\ connected' = connected
    BY <1>1 DEF ConnectFails, frontendVars
  <2>. QED
    BY <2>1, <2>2, FailureIInv
<1>2. ASSUME NEW retryable \in BOOLEAN, AnswerStatus(retryable)
      PROVE  IInv'
  <2>. DEFINE error == IF retryable THEN "retryable" ELSE "terminal"
  <2>1. error \in {"retryable", "terminal"}
    OBVIOUS
  <2>2. /\ RetryOrReturn(retryable, error) /\ Abandon /\ connected' = FALSE
        /\ UNCHANGED <<batch, rest, durable>> /\ pc \in InProgress
    BY <1>2 DEF AnswerStatus, InProgress
  <2>. HIDE DEF error
  <2>. QED
    BY <2>1, <2>2, AbandonFacts, FailureIInv
<1>3. CASE Timeout
  <2>1. /\ RetryOrReturn(TRUE, "retryable") /\ Abandon /\ connected' = FALSE
        /\ UNCHANGED <<batch, rest, durable>> /\ pc \in InProgress
    BY <1>3 DEF Timeout, InProgress
  <2>. QED
    BY <2>1, AbandonFacts, FailureIInv
<1>. QED
  BY <1>1, <1>2, <1>3

LEMMA SleepEndsIInv == ASSUME IInv, SleepEnds PROVE IInv'
<1>. USE DEF SleepEnds, frontendVars
<1>1. attempt + 1 \in 0 .. MaxAttempts
  BY MaxAttemptsNat DEF IInv, TypeOK, CallInv
<1>2. TypeOK'
  BY <1>1 DEF IInv, TypeOK
<1>3. ChunkInv' /\ CallInv' /\ FailedClientDropped'
  BY DEF IInv, ChunkInv, CallInv, FailedClientDropped
<1>4. AcknowledgedChunksStored' /\ LastWriteWins'
  BY DEF IInv, AcknowledgedChunksStored, LastWriteWins
<1>. QED
  BY <1>2, <1>3, <1>4 DEF IInv

LEMMA OpenMismatchIInv == ASSUME IInv, OpenMismatch PROVE IInv'
<1>. USE DEF OpenMismatch, Return, frontendVars
<1>1. batch = NoBlocks /\ result = "none" /\ pc' = "down" /\ call' = "none"
      /\ result' = "none" /\ attempt' = 0 /\ connected' = FALSE
  BY DEF IInv, CallInv
<1>2. Keys(rest) = {} /\ Keys(serving) = {}
  BY <1>1, NoBlocksEverywhere DEF IInv, ChunkInv, Keys
<1>3. TypeOK'
  <2>1. attempt' \in 0 .. MaxAttempts
    BY <1>1, MaxAttemptsNat
  <2>. QED
    BY <1>1, <2>1 DEF IInv, TypeOK
<1>4. ChunkInv' /\ CallInv' /\ FailedClientDropped'
  BY <1>1, <1>2 DEF IInv, ChunkInv, CallInv, FailedClientDropped
<1>5. AcknowledgedChunksStored' /\ LastWriteWins'
  BY DEF IInv, AcknowledgedChunksStored, LastWriteWins
<1>. QED
  BY <1>3, <1>4, <1>5 DEF IInv

\* The answer to a chunk: with its last block the chunk is stored, and with
\* the last chunk the batch.
LEMMA AnswerOkIInv == ASSUME IInv, AnswerOk PROVE IInv'
<1>1. /\ pc = "awaiting" /\ serving = NoBlocks
      /\ rest' = Unacknowledged(rest, NextChunk(rest))
      /\ UNCHANGED <<frontendVars, connected, batch>>
  BY DEF AnswerOk
<1>2. /\ rest \in BlockMap /\ batch \in BlockMap /\ durable \in BlockMap
      /\ call \in {"open", "read", "write"} /\ result = "none"
      /\ call = "write" <=> batch # NoBlocks
  BY <1>1 DEF IInv, TypeOK, CallInv
<1>3. /\ rest' \in BlockMap
      /\ Keys(rest') = Keys(rest) \ Keys(NextChunk(rest))
      /\ \A b \in Keys(rest') : rest'[b] = rest[b]
  BY <1>1, <1>2, ChunkFacts DEF Keys
<1>4. AcknowledgedChunksStored'
  <2>1. SUFFICES ASSUME NEW b \in Keys(batch), rest'[b] = Absent
                 PROVE  backend[b] = batch[b]
    BY <1>1 DEF AcknowledgedChunksStored, frontendVars
  <2>2. b \in Lba
    BY DEF Keys
  <2>3. CASE rest[b] = Absent
    BY <2>3 DEF IInv, AcknowledgedChunksStored
  <2>4. CASE rest[b] # Absent
    <3>1. b \in Keys(rest) /\ b \notin Keys(rest')
      BY <2>1, <2>2, <2>4 DEF Keys
    <3>2. b \in Keys(NextChunk(rest)) /\ b \notin Keys(serving)
      BY <1>1, <1>3, <3>1, NoBlocksEverywhere
    <3>. QED
      BY <1>1, <3>1, <3>2 DEF IInv, ChunkInv
  <2>. QED
    BY <2>3, <2>4
<1>5. CASE rest' = NoBlocks
  <2>1. /\ attempt' = 0
        /\ durable' = IF call = "write" THEN Overlay(batch, durable) ELSE durable
        /\ \/ call = "open" /\ pc' = "idle" /\ call' = "none" /\ result' = "none"
           \/ call # "open" /\ pc' = "returned" /\ call' = call /\ result' = "ok"
    BY <1>2, <1>5 DEF AnswerOk, Return
  <2>2. durable' \in BlockMap /\ attempt' \in 0 .. MaxAttempts
    BY <1>2, <2>1, MapTypes, MaxAttemptsNat
  <2>3. TypeOK'
    BY <1>1, <1>2, <1>3, <2>1, <2>2 DEF IInv, TypeOK, frontendVars, Results
  <2>4. ChunkInv'
    BY <1>1, <1>5, <2>1, NoBlocksEverywhere DEF ChunkInv, frontendVars
  <2>5. CallInv'
    BY <1>1, <1>2, <1>5, <2>1 DEF CallInv
  <2>6. FailedClientDropped'
    BY <2>1 DEF FailedClientDropped
  <2>7. LastWriteWins'
    <3>1. SUFFICES ASSUME NEW b \in Lba, durable'[b] # Absent
                   PROVE  backend[b] = durable'[b]
      BY <1>1 DEF LastWriteWins, frontendVars
    <3>2. CASE call = "write" /\ b \in Keys(batch)
      <4>1. durable'[b] = batch[b]
        BY <2>1, <3>2 DEF Overlay, Keys
      <4>2. backend[b] = batch[b]
        BY <1>1, <1>4, <1>5, <3>2, NoBlocksEverywhere
           DEF AcknowledgedChunksStored, frontendVars
      <4>. QED
        BY <4>1, <4>2
    <3>3. CASE ~(call = "write" /\ b \in Keys(batch))
      <4>1. durable'[b] = durable[b]
        BY <2>1, <3>3 DEF Overlay, Keys
      <4>. QED
        BY <3>1, <4>1 DEF IInv, LastWriteWins
    <3>. QED
      BY <3>2, <3>3
  <2>. QED
    BY <1>4, <2>3, <2>4, <2>5, <2>6, <2>7 DEF IInv
<1>6. CASE rest' # NoBlocks
  <2>1. /\ call' = call /\ attempt' = 1 /\ pc' = "connecting"
        /\ UNCHANGED <<result, durable>>
    BY <1>6 DEF AnswerOk, Begin
  <2>2. TypeOK'
    <3>1. attempt' \in 0 .. MaxAttempts
      BY <2>1, MaxAttemptsNat
    <3>. QED
      BY <1>1, <1>3, <2>1, <3>1 DEF IInv, TypeOK, frontendVars
  <2>3. ChunkInv'
    <3>1. Keys(serving)' = {}
      BY <1>1, NoBlocksEverywhere DEF frontendVars
    <3>2. \A b \in Keys(rest)' : rest'[b] = batch'[b] /\ durable'[b] = Absent
      BY <1>1, <1>3, <2>1 DEF IInv, ChunkInv
    <3>. QED
      BY <2>1, <3>1, <3>2 DEF ChunkInv
  <2>4. CallInv' /\ FailedClientDropped'
    BY <1>1, <1>2, <2>1 DEF CallInv, FailedClientDropped
  <2>5. LastWriteWins'
    BY <1>1, <2>1 DEF IInv, LastWriteWins, frontendVars
  <2>. QED
    BY <1>4, <2>2, <2>3, <2>4, <2>5 DEF IInv
<1>. QED
  BY <1>5, <1>6

\* The frontend stores a block of the chunk.
LEMMA ServeBlockIInv == ASSUME IInv, NEW b \in Lba, ServeBlock(b) PROVE IInv'
<1>1. /\ serving \in BlockMap /\ backend \in Volume /\ b \in Keys(serving)
      /\ serving' = [serving EXCEPT ![b] = Absent]
      /\ backend' = [backend EXCEPT ![b] = serving[b]]
      /\ UNCHANGED <<late, clientVars, durable>>
  BY DEF ServeBlock, IInv, TypeOK, Keys
<1>2. /\ pc = "awaiting" /\ serving[b] = rest[b] /\ serving[b] # Absent
      /\ rest[b] = batch[b] /\ durable[b] = Absent
  BY <1>1 DEF IInv, ChunkInv, Keys
<1>3. serving[b] \in Data
  BY <1>1, <1>2 DEF BlockMap
<1>4. /\ serving' \in BlockMap /\ backend' \in Volume
      /\ \A k \in Lba : /\ serving'[k] = IF k = b THEN Absent ELSE serving[k]
                        /\ backend'[k] = IF k = b THEN serving[b] ELSE backend[k]
  BY <1>1, <1>3 DEF BlockMap, Volume
<1>5. TypeOK'
  BY <1>1, <1>4 DEF IInv, TypeOK, clientVars
<1>6. ChunkInv'
  <2>1. \A k \in Keys(serving)' : k \in Keys(serving) /\ serving'[k] = serving[k]
    BY <1>4 DEF Keys
  <2>2. \A k \in Keys(serving)' : pc' = "awaiting" /\ serving'[k] = rest'[k]
    BY <1>1, <2>1 DEF IInv, ChunkInv, clientVars
  <2>3. ASSUME NEW k \in Keys(NextChunk(rest)) \ Keys(serving)'
        PROVE  backend'[k] = rest[k]
    <3>1. k \in Lba
      BY DEF Keys
    <3>2. CASE k = b
      BY <1>2, <1>4, <3>1, <3>2
    <3>3. CASE k # b
      <4>1. k \notin Keys(serving)
        BY <1>4, <3>1, <3>3 DEF Keys
      <4>. QED
        BY <1>2, <1>4, <3>1, <3>3, <4>1 DEF IInv, ChunkInv
    <3>. QED
      BY <3>2, <3>3
  <2>4. rest' = rest /\ batch' = batch /\ durable' = durable
    BY <1>1 DEF clientVars
  <2>5. \A k \in Keys(rest)' : rest'[k] = batch'[k] /\ durable'[k] = Absent
    BY <2>4 DEF IInv, ChunkInv
  <2>. QED
    BY <2>2, <2>3, <2>4, <2>5 DEF ChunkInv
<1>7. CallInv' /\ FailedClientDropped'
  BY <1>1 DEF IInv, CallInv, FailedClientDropped, clientVars
<1>8. AcknowledgedChunksStored'
  BY <1>1, <1>2, <1>4 DEF IInv, AcknowledgedChunksStored, clientVars, Keys
<1>9. LastWriteWins'
  BY <1>1, <1>2, <1>4 DEF IInv, LastWriteWins
<1>. QED
  BY <1>5, <1>6, <1>7, <1>8, <1>9 DEF IInv

LEMMA DieIInv == ASSUME IInv, Die PROVE IInv'
<1>1. /\ serving' \in BlockMap /\ Keys(serving)' = {}
      /\ late' \in SUBSET BlockMap /\ backend' = backend
  BY AbandonFacts DEF Die
<1>2. /\ connected' = FALSE /\ call' = "none" /\ batch' = NoBlocks /\ rest' = NoBlocks
      /\ attempt' = 0 /\ pc' = "down" /\ result' = "none" /\ durable' = durable
  BY DEF Die
<1>3. TypeOK'
  <2>1. attempt' \in 0 .. MaxAttempts /\ NoBlocks \in BlockMap
    BY <1>2, MaxAttemptsNat, NoBlocksFacts
  <2>. QED
    BY <1>1, <1>2, <2>1 DEF IInv, TypeOK
<1>4. ChunkInv'
  BY <1>1, <1>2, NoBlocksEverywhere DEF ChunkInv
<1>5. CallInv' /\ FailedClientDropped'
  BY <1>2 DEF CallInv, FailedClientDropped
<1>6. AcknowledgedChunksStored'
  BY <1>2, NoBlocksEverywhere DEF AcknowledgedChunksStored
<1>7. LastWriteWins'
  BY <1>1, <1>2 DEF IInv, LastWriteWins
<1>. QED
  BY <1>3, <1>4, <1>5, <1>6, <1>7 DEF IInv

LEMMA StutterIInv == ASSUME IInv, UNCHANGED vars PROVE IInv'
BY DEF vars, frontendVars, clientVars, IInv, TypeOK, ChunkInv, CallInv,
       FailedClientDropped, AcknowledgedChunksStored, LastWriteWins

LEMMA StepIInv == ASSUME IInv, [Next]_vars PROVE IInv'
BY OpenIInv, WriteBatchIInv, DisconnectIInv, EndCallIInv, SendIInv, AttemptFailsIInv,
   SleepEndsIInv, OpenMismatchIInv, AnswerOkIInv, ServeBlockIInv, DieIInv, StutterIInv
   DEF Next, ClientStep

\* The inductive invariant holds.
THEOREM SessionInvariant == Spec => []IInv
BY InitIInv, StepIInv, PTL DEF Spec

\* Every variable keeps its type, whatever the volume and the retries.
THEOREM SessionTypeCorrect == Spec => []TypeOK
<1>1. IInv => TypeOK
  BY DEF IInv
<1>. QED
  BY SessionInvariant, <1>1, PTL

\* No attempt and no later call of the session uses a client whose RPC failed.
THEOREM SessionFailedClientDropped == Spec => []FailedClientDropped
<1>1. IInv => FailedClientDropped
  BY DEF IInv
<1>. QED
  BY SessionInvariant, <1>1, PTL

\* What write_batch has had acknowledged is stored, chunk by chunk, whatever
\* becomes of the others.
THEOREM SessionAcknowledgedChunksStored == Spec => []AcknowledgedChunksStored
<1>1. IInv => AcknowledgedChunksStored
  BY DEF IInv
<1>. QED
  BY SessionInvariant, <1>1, PTL

\* With a frontend that drops what its client gave up, a retry never undoes an
\* acknowledged write, over any number of calls, connections and processes.
THEOREM SessionLastWriteWins == Spec => []LastWriteWins
<1>1. IInv => LastWriteWins
  BY DEF IInv
<1>. QED
  BY SessionInvariant, <1>1, PTL
-----------------------------------------------------------------------------
(* The session implements the transport                                    *)

\* The result as the transport has it.
Outcome == IF call = "write" THEN result ELSE "none"

\* The transport speaks of the same blocks.
LEMMA SameBlocks ==
  /\ Transport!Lba = Lba /\ Transport!Volume = Volume
  /\ Transport!BlockMap = BlockMap /\ Transport!NoBlocks = NoBlocks
  /\ Transport!Results = Results
  /\ \A m : Transport!Keys(m) = Keys(m)
  /\ \A m, n : Transport!Overlay(m, n) = Overlay(m, n)
  /\ \A m, S : Transport!Restricted(m, S) = Restricted(m, S)
<1>1. Transport!Lba = Lba
  BY DEF Transport!Lba, Lba
<1>. QED
  BY <1>1 DEF Transport!Volume, Volume, Transport!BlockMap, BlockMap,
     Transport!NoBlocks, NoBlocks, Transport!Results, Results, Transport!Keys, Keys,
     Transport!Overlay, Overlay, Transport!Restricted, Restricted

LEMMA TransportInitial == Init => Transport!TransportInit
BY SameBlocks DEF Init, Transport!TransportInit

\* An attempt that failed: the call goes on, or returns the error.
LEMMA FailureStep ==
  ASSUME IInv, pc \in InProgress, NEW mayRetry \in BOOLEAN,
         NEW error \in {"retryable", "terminal"}, RetryOrReturn(mayRetry, error),
         UNCHANGED <<backend, batch>>
  PROVE  [Transport!TransportNext]_(Transport!transportVars)
<1>1. result = "none" /\ (call = "write" <=> batch # NoBlocks)
  BY DEF InProgress, IInv, CallInv
<1>2. \/ Outcome' = Outcome
      \/ call = "write" /\ Outcome' = error
  BY <1>1 DEF RetryOrReturn, Return, Outcome
<1>3. CASE Outcome' = Outcome
  BY <1>3 DEF Transport!transportVars, Outcome
<1>4. CASE call = "write" /\ Outcome' = error
  <2>1. Transport!Return(error)
    BY <1>1, <1>4, SameBlocks DEF Transport!Return, Outcome
  <2>2. error \in Transport!Results
    BY SameBlocks DEF Results
  <2>. QED
    BY <2>1, <2>2 DEF Transport!TransportNext
<1>. QED
  BY <1>2, <1>3, <1>4

\* Every step of the session is a step of the transport, or none.
LEMMA TransportStep ==
  ASSUME IInv, IInv', [Next]_vars
  PROVE  [Transport!TransportNext]_(Transport!transportVars)
<1>. USE DEF Outcome
<1>1. CASE Open \/ ReadBlocks \/ Disconnect
  <2>1. result = "none" /\ call # "write"
    BY <1>1 DEF Open, ReadBlocks, Disconnect, IInv, CallInv
  <2>. QED
    BY <1>1, <2>1 DEF Open, ReadBlocks, Disconnect, Begin, frontendVars,
       Transport!transportVars
<1>2. ASSUME NEW w \in BlockMap, WriteBatch(w)
      PROVE  [Transport!TransportNext]_(Transport!transportVars)
  <2>1. result = "none" /\ batch = NoBlocks
    BY <1>2 DEF WriteBatch, IInv, CallInv
  <2>2. Transport!Call(w)
    BY <1>2, <2>1, SameBlocks DEF WriteBatch, Begin, frontendVars, Transport!Call
  <2>. QED
    BY <2>2, SameBlocks DEF Transport!TransportNext
<1>3. CASE EndCall \/ Die
  <2>1. backend' = backend /\ batch' = NoBlocks /\ Outcome' = "none"
    BY <1>3 DEF EndCall, Die, Abandon, frontendVars
  <2>2. Transport!EndCall
    BY <2>1, SameBlocks DEF Transport!EndCall
  <2>. QED
    BY <2>2 DEF Transport!TransportNext
<1>4. CASE Send \/ SleepEnds
  BY <1>4 DEF Send, SleepEnds, frontendVars, Transport!transportVars
<1>5. CASE ConnectFails
  <2>1. pc \in InProgress /\ RetryOrReturn(TRUE, "retryable")
        /\ UNCHANGED <<backend, batch>>
    BY <1>5 DEF ConnectFails, InProgress, frontendVars
  <2>. QED
    BY <2>1, FailureStep
<1>6. ASSUME NEW retryable \in BOOLEAN, AnswerStatus(retryable)
      PROVE  [Transport!TransportNext]_(Transport!transportVars)
  <2>. DEFINE error == IF retryable THEN "retryable" ELSE "terminal"
  <2>1. error \in {"retryable", "terminal"}
    OBVIOUS
  <2>2. pc \in InProgress /\ RetryOrReturn(retryable, error)
        /\ UNCHANGED <<backend, batch>>
    BY <1>6 DEF AnswerStatus, Abandon, InProgress
  <2>. HIDE DEF error
  <2>. QED
    BY <2>1, <2>2, FailureStep
<1>7. CASE Timeout
  <2>1. pc \in InProgress /\ RetryOrReturn(TRUE, "retryable")
        /\ UNCHANGED <<backend, batch>>
    BY <1>7 DEF Timeout, Abandon, InProgress
  <2>. QED
    BY <2>1, FailureStep
<1>8. CASE OpenMismatch
  BY <1>8 DEF OpenMismatch, Return, frontendVars, Transport!transportVars
<1>9. CASE AnswerOk
  <2>1. /\ result = "none" /\ (call = "write" <=> batch # NoBlocks)
        /\ backend' = backend /\ batch' = batch
    BY <1>9 DEF AnswerOk, frontendVars, IInv, CallInv
  <2>2. CASE call = "write" /\ rest' = NoBlocks
    <3>1. Outcome = "none" /\ Outcome' = "ok"
      BY <1>9, <2>1, <2>2 DEF AnswerOk, Return
    <3>2. Overlay(batch, backend) = backend
      <4>1. backend \in Volume
        BY DEF IInv, TypeOK
      <4>2. \A b \in Keys(batch) : backend[b] = batch[b]
        BY <2>1, <2>2, NoBlocksEverywhere
           DEF IInv, AcknowledgedChunksStored, Keys
      <4>. QED
        BY <4>1, <4>2 DEF Overlay, Keys, Volume
    <3>3. Transport!Return("ok")
      BY <2>1, <2>2, <3>1, <3>2, SameBlocks DEF Transport!Return
    <3>. QED
      BY <3>3, SameBlocks DEF Transport!TransportNext, Results
  <2>3. CASE ~(call = "write" /\ rest' = NoBlocks)
    <3>1. Outcome' = Outcome
      BY <1>9, <2>1, <2>3 DEF AnswerOk, Return, Begin
    <3>. QED
      BY <2>1, <3>1 DEF Transport!transportVars
  <2>. QED
    BY <2>2, <2>3
<1>10. ASSUME NEW b \in Lba, ServeBlock(b)
       PROVE  [Transport!TransportNext]_(Transport!transportVars)
  <2>1. /\ serving[b] = batch[b] /\ b \in Keys(batch) /\ pc = "awaiting"
        /\ backend \in Volume
    BY <1>10 DEF ServeBlock, IInv, TypeOK, ChunkInv, Keys
  <2>2. Outcome = "none" /\ Outcome' = Outcome /\ batch' = batch
    BY <1>10, <2>1 DEF ServeBlock, clientVars, IInv, CallInv
  <2>3. backend' = Overlay(Restricted(batch, {b}), backend)
    BY <1>10, <2>1 DEF ServeBlock, Overlay, Restricted, Volume, Keys
  <2>4. Transport!Store({b})
    BY <2>2, <2>3, SameBlocks DEF Transport!Store
  <2>5. {b} \in SUBSET Transport!Keys(batch)
    BY <2>1, SameBlocks
  <2>. QED
    BY <2>4, <2>5 DEF Transport!TransportNext
<1>11. CASE UNCHANGED vars
  BY <1>11 DEF vars, frontendVars, clientVars, Transport!transportVars
<1>. QED
  BY <1>1, <1>2, <1>3, <1>4, <1>5, <1>6, <1>7, <1>8, <1>9, <1>10, <1>11
     DEF Next, ClientStep

\* The session keeps the contract of BackendTransport that the engine is proved
\* over: Ok only when all of the batch is stored, nothing stored that is not
\* of it, and nothing after the call has returned.
THEOREM SessionImplementsTransport == Spec => ImplementsTransport
BY TransportInitial, TransportStep, SessionInvariant, PTL
   DEF Spec, ImplementsTransport, Transport!TransportSpec
=============================================================================
