---------------------------- MODULE EngineProofs ----------------------------
(***************************************************************************)
(* Theorems about Engine for every volume, every set of requests, every    *)
(* chunk size and every high-water mark.                                   *)
(***************************************************************************)
EXTENDS Engine, BlocksTheorems, FiniteSetTheorems

\* The range of a valid read or write is a nonempty interval of the volume,
\* and only a valid one has such a range.
LEMMA ValidRange ==
  ASSUME NEW r \in Request, r.op \in {"read", "write"}
  PROVE  Valid(r) <=> RangeOf(r) # {} /\ RangeOf(r) \subseteq Lba /\ ~r.ragged
<1>. DEFINE n == IF r.op = "write" THEN Len(r.data) ELSE r.count
<1>1. n \in Nat /\ r.start \in Nat
  BY DEF Request
<1>2. Valid(r) <=> n > 0 /\ r.start + n <= TotalBlocks /\ ~r.ragged
  <2>1. r.op # "write" => ~r.ragged
    BY DEF Request
  <2>. QED
    BY <2>1 DEF Valid, InRange
<1>3. RangeOf(r) = r.start .. r.start + n - 1
  BY DEF RangeOf
<1>4. RangeOf(r) # {} <=> n > 0
  <2>1. n > 0 => r.start \in RangeOf(r)
    BY <1>1, <1>3
  <2>. QED
    BY <1>1, <1>3, <2>1
<1>5. n > 0 => (RangeOf(r) \subseteq Lba <=> r.start + n <= TotalBlocks)
  <2>1. n > 0 => r.start + n - 1 \in RangeOf(r)
    BY <1>1, <1>3
  <2>. QED
    BY <1>1, <1>3, <2>1, TotalBlocksAssumption DEF Lba
<1>. HIDE DEF n
<1>. QED
  BY <1>2, <1>4, <1>5

LEMMA WellFormedIsValid ==
  ASSUME NEW r \in Request, r.op \in {"read", "write"}
  PROVE  Valid(r) <=> Device!WellFormed(r)
<1>1. Device!RangeOf(r) = RangeOf(r) /\ Device!Lba = Lba
  BY DEF Device!RangeOf, RangeOf, Device!Lba, Lba
<1>. QED
  BY <1>1, ValidRange DEF Device!WellFormed
-----------------------------------------------------------------------------
(* The inductive invariant                                                 *)

\* The read cursor of an idle engine is in its range.
LEMMA CursorStart == 0 \in 0 .. TotalBlocks
BY TotalBlocksAssumption

\* While the task serves a request, cmd is one of the requests.
LEMMA ServingCmd ==
  ASSUME IInv, pc \in Serving
  PROVE  cmd \in Requests /\ cmd \in Request /\ cmd # NoRequest
BY RequestsAssumption DEF IInv, TypeOK, TaskInv, Serving

\* A valid write that is being served: its range, and what writing it yields.
LEMMA ServedWrite ==
  ASSUME IInv, pc \in Serving, cmd.op = "write", Valid(cmd)
  PROVE  /\ cmd \in Request
         /\ RangeOf(cmd) \subseteq Lba
         /\ Written(cmd, dirty) \in BlockMap
         /\ Overlay(Written(cmd, dirty), backend) =
              Written(cmd, Overlay(dirty, backend))
         /\ Written(cmd, Written(cmd, Overlay(dirty, backend))) =
              Written(cmd, Overlay(dirty, backend))
<1>1. cmd \in Request
  BY ServingCmd
<1>2. RangeOf(cmd) \subseteq Lba
  BY <1>1, ValidRange
<1>3. dirty \in BlockMap /\ backend \in Volume
  BY DEF IInv, TypeOK, TransportTypeOK
<1>4. Overlay(dirty, backend) \in Volume
  BY <1>3, MapTypes
<1>. QED
  BY <1>1, <1>2, <1>3, <1>4, WrittenTypes, WrittenOverlay

\* Where a method returns: what Conclude leaves behind.
LEMMA ConcludeFacts ==
  ASSUME IInv, pc \in Serving,
         NEW status \in {"ok", "EINVAL", "EIO"}, NEW data \in BlockMap,
         Conclude(status, data)
  PROVE  /\ reply' \in Reply
         /\ reply' = [op |-> cmd.op, status |-> status, data |-> data]
         /\ cmd' = NoRequest /\ pc' \in {"idle", "closed"}
         /\ cursor' = 0 /\ output' = NoBlocks /\ expired' = FALSE
<1>1. cmd.op \in {"read", "write", "flush", "disconnect"}
  BY ServingCmd DEF Request
<1>. QED
  BY <1>1 DEF Conclude, Reply

\* Returning from a method keeps the invariant, if nothing is on its way and
\* the cache is a map.
LEMMA ConcludeIInv ==
  ASSUME IInv, pc \in Serving,
         NEW status \in {"ok", "EINVAL", "EIO"}, NEW data \in BlockMap,
         Conclude(status, data), dirty' \in BlockMap, backend' = backend,
         batch' = NoBlocks, outcome' = "none"
  PROVE  IInv'
<1>0. /\ reply' \in Reply
      /\ cmd' = NoRequest /\ pc' \in {"idle", "closed"}
      /\ cursor' = 0 /\ output' = NoBlocks /\ expired' = FALSE
  BY ConcludeFacts
<1>1. TypeOK'
  <2>1. TransportTypeOK'
    BY NoBlocksFacts DEF IInv, TypeOK, TransportTypeOK
  <2>. QED
    BY <1>0, <2>1, NoBlocksFacts, CursorStart DEF TypeOK
<1>2. BatchInDirty'
  BY NoBlocksFacts DEF BatchInDirty
<1>3. ResultHonest'
  BY DEF ResultHonest
<1>4. TaskInv'
  BY <1>0 DEF TaskInv
<1>. QED
  BY <1>1, <1>2, <1>3, <1>4 DEF IInv

\* Nothing is on its way but while pc is "writing".
LEMMA NothingOnItsWay ==
  ASSUME IInv, pc # "writing"
  PROVE  batch = NoBlocks /\ outcome = "none"
BY DEF IInv, BatchInDirty

\* The initial states satisfy the invariant.
LEMMA InitIInv == Init => IInv
<1>. SUFFICES ASSUME Init PROVE IInv
  OBVIOUS
<1>1. TypeOK
  BY NoBlocksFacts, CursorStart
     DEF Init, TransportInit, TypeOK, TransportTypeOK, NoReply, Reply
<1>2. BatchInDirty
  BY NoBlocksFacts DEF Init, TransportInit, BatchInDirty
<1>3. ResultHonest /\ TaskInv
  BY DEF Init, TransportInit, ResultHonest, TaskInv
<1>. QED
  BY <1>1, <1>2, <1>3 DEF IInv

\* An action of read_blocks keeps the invariant.
LEMMA ReadStepIInv ==
  ASSUME IInv, StartRead \/ ReadChunk \/ ReadChunkFails \/ FinishRead
  PROVE  IInv'
<1>1. CASE StartRead
  <2>1. cmd \in Request /\ cmd # NoRequest
    BY <1>1, ServingCmd DEF StartRead, Serving
  <2>2. batch = NoBlocks /\ output = NoBlocks
    BY <1>1, NothingOnItsWay DEF StartRead, IInv, TaskInv
  <2>3. cursor' = cmd.start /\ cmd.start \in Nat /\ cmd.count \in Nat
    BY <1>1, <2>1 DEF StartRead, Request
  <2>4. Restricted(backend, cmd.start .. cmd.start - 1) = NoBlocks
    BY <2>3 DEF Restricted, NoBlocks
  <2>5. TypeOK'
    <3>1. cursor' \in 0 .. TotalBlocks
      BY <1>1, <2>3, TotalBlocksAssumption DEF StartRead, Valid, InRange
    <3>. QED
      BY <1>1, <3>1
         DEF StartRead, IInv, TypeOK, TransportTypeOK, transportVars, Serving
  <2>6. BatchInDirty' /\ ResultHonest'
    BY <1>1, <2>2 DEF StartRead, IInv, BatchInDirty, ResultHonest, transportVars
  <2>7. TaskInv'
    <3>1. cmd' = cmd /\ pc' = "reading" /\ output' = NoBlocks /\ backend' = backend
      BY <1>1, <2>2 DEF StartRead, transportVars
    <3>2. Valid(cmd)' /\ cmd.op = "read"
      BY <1>1, <3>1 DEF StartRead, Valid, InRange
    <3>3. cursor' \in cmd.start .. cmd.start + cmd.count
      BY <2>3
    <3>. QED
      BY <2>1, <2>3, <2>4, <3>1, <3>2, <3>3 DEF TaskInv
  <2>. QED
    BY <2>5, <2>6, <2>7 DEF IInv
<1>2. CASE ReadChunk
  <2>. DEFINE c == Chunk(cursor, cmd)
              end == cmd.start + cmd.count
              top == IF end - cursor > MaxBlocksPerRpc
                       THEN cursor + MaxBlocksPerRpc ELSE end
  <2>1. cmd \in Request /\ cmd # NoRequest /\ batch = NoBlocks
    BY <1>2, ServingCmd, NothingOnItsWay DEF ReadChunk, Serving
  <2>2. /\ pc = "reading" /\ cmd.op = "read" /\ Valid(cmd)
        /\ cursor \in cmd.start .. end /\ cursor < end
        /\ output = Restricted(backend, cmd.start .. cursor - 1)
    BY <1>2 DEF ReadChunk, IInv, TaskInv
  <2>3. cmd.start \in Nat /\ cmd.count \in Nat /\ cursor \in Nat
    BY <2>1, <2>2 DEF Request
  <2>4. top \in Nat /\ cursor < top /\ top <= end
    BY <2>2, <2>3, MaxBlocksAssumption
  <2>5. c = cursor .. top - 1
    BY DEF Chunk
  <2>6. Cardinality(c) = top - cursor
    <3>1. cursor \in Int /\ top - 1 \in Int /\ cursor <= top - 1
      BY <2>3, <2>4
    <3>2. Cardinality(cursor .. top - 1) = (top - 1) - cursor + 1
      BY <3>1, FS_Interval
    <3>. QED
      BY <2>3, <2>4, <2>5, <3>2
  <2>. HIDE DEF c, top
  <2>7. cursor' = top /\ output' = Overlay(Restricted(backend, c), output)
    BY <1>2, <2>3, <2>4, <2>6 DEF ReadChunk, c
  <2>8. output' = Restricted(backend, cmd.start .. top - 1)
    <3>1. backend \in Volume
      BY DEF IInv, TypeOK, TransportTypeOK
    <3>2. \A b \in Lba : b \in cmd.start .. top - 1
                         <=> b \in c \/ b \in cmd.start .. cursor - 1
      BY <2>2, <2>3, <2>4, <2>5 DEF Lba
    <3>3. \A b \in Lba : backend[b] # Absent
      BY <3>1, AbsentAssumption DEF Volume
    <3>. QED
      BY <2>2, <2>7, <3>2, <3>3 DEF Overlay, Restricted
  <2>9. output' \in BlockMap
    <3>1. backend \in BlockMap
      BY DEF IInv, TypeOK, TransportTypeOK, Volume, BlockMap
    <3>. QED
      BY <2>8, <3>1, MapTypes
  <2>10. TypeOK'
    <3>1. cursor' \in 0 .. TotalBlocks
      BY <2>2, <2>3, <2>4, <2>7, TotalBlocksAssumption DEF Valid, InRange
    <3>. QED
      BY <1>2, <2>9, <3>1
         DEF ReadChunk, IInv, TypeOK, TransportTypeOK, transportVars
  <2>11. BatchInDirty' /\ ResultHonest'
    BY <1>2 DEF ReadChunk, IInv, BatchInDirty, ResultHonest, transportVars
  <2>12. TaskInv'
    <3>1. cmd' = cmd /\ pc' = pc /\ backend' = backend
      BY <1>2 DEF ReadChunk, transportVars
    <3>2. Valid(cmd)'
      BY <2>2, <3>1 DEF Valid, InRange
    <3>3. cursor' \in cmd.start .. end
      BY <2>2, <2>3, <2>4, <2>7
    <3>. QED
      BY <2>1, <2>2, <2>7, <2>8, <3>1, <3>2, <3>3 DEF TaskInv
  <2>. QED
    BY <2>10, <2>11, <2>12 DEF IInv
<1>3. CASE ReadChunkFails
  <2>1. pc \in Serving /\ batch = NoBlocks /\ outcome = "none" /\ Conclude("EIO", NoBlocks)
    BY <1>3, NothingOnItsWay DEF ReadChunkFails, Serving
  <2>. QED
    BY <1>3, <2>1, NoBlocksFacts, ConcludeIInv
       DEF ReadChunkFails, transportVars, IInv, TypeOK
<1>4. CASE FinishRead
  <2>1. pc \in Serving /\ batch = NoBlocks /\ outcome = "none"
    BY <1>4, NothingOnItsWay DEF FinishRead, Serving
  <2>2. ReadResult(output, dirty, cmd) \in BlockMap
    BY MapTypes DEF ReadResult, IInv, TypeOK
  <2>. QED
    BY <1>4, <2>1, <2>2, NoBlocksFacts, ConcludeIInv
       DEF FinishRead, transportVars, IInv, TypeOK
<1>. QED
  BY <1>1, <1>2, <1>3, <1>4

\* A step within a flush changes neither the request nor what a reader sees,
\* so a write that is flushing stays in the cache.
LEMMA FlushGoesOn ==
  ASSUME IInv, pc \in {"flushing", "writing", "sleeping"},
         pc' \in {"flushing", "writing", "sleeping"},
         UNCHANGED <<cmd, output>>,
         Overlay(dirty, backend)' = Overlay(dirty, backend)
  PROVE  TaskInv'
<1>1. cmd' = cmd /\ cmd # NoRequest
  BY ServingCmd DEF Serving
<1>2. output' = NoBlocks
  BY DEF IInv, TaskInv
<1>3. \/ cmd.op \in {"flush", "disconnect"}
      \/ /\ cmd.op = "write" /\ Valid(cmd)
         /\ Written(cmd, Overlay(dirty, backend)) = Overlay(dirty, backend)
  BY DEF IInv, TaskInv
<1>4. Written(cmd, Overlay(dirty, backend))' = Written(cmd, Overlay(dirty, backend))
  BY <1>1 DEF Written, RangeOf
<1>5. Valid(cmd)' <=> Valid(cmd)
  BY <1>1 DEF Valid, InRange
<1>. QED
  BY <1>1, <1>2, <1>3, <1>4, <1>5 DEF TaskInv

\* An action of write_blocks, flush or disconnect keeps the invariant.
LEMMA WriteStepIInv ==
  ASSUME IInv,
         \/ WriteBlocks \/ BeginFlush \/ SendBatch \/ FlushSucceeds
         \/ BatchAccepted \/ BatchRetried \/ BatchFailed \/ RetryFlush
  PROVE  IInv'
<1>. USE DEF Serving
<1>0. dirty \in BlockMap /\ backend \in Volume /\ batch \in BlockMap /\ TypeOK
  BY DEF IInv, TypeOK, TransportTypeOK
<1>1. CASE WriteBlocks
  <2>1. /\ pc = "start" /\ cmd.op = "write" /\ Valid(cmd)
        /\ dirty' = Written(cmd, dirty) /\ UNCHANGED transportVars
    BY <1>1 DEF WriteBlocks
  <2>2. batch = NoBlocks /\ outcome = "none" /\ cmd \in Request /\ cmd # NoRequest
    BY <2>1, NothingOnItsWay, ServingCmd
  <2>3. dirty' \in BlockMap
    BY <2>1, ServedWrite
  <2>4. CASE Conclude("ok", NoBlocks)
    BY <2>1, <2>2, <2>3, <2>4, NoBlocksFacts, ConcludeIInv DEF transportVars
  <2>5. CASE StartFlush
    <3>1. TypeOK'
      BY <1>0, <2>1, <2>3, <2>5
         DEF StartFlush, TypeOK, TransportTypeOK, transportVars
    <3>2. BatchInDirty' /\ ResultHonest'
      BY <2>1, <2>2, NoBlocksFacts DEF BatchInDirty, ResultHonest, transportVars
    <3>3. TaskInv'
      <4>1. Overlay(dirty, backend)' = Written(cmd, Overlay(dirty, backend))
        BY <2>1, ServedWrite DEF transportVars
      <4>2. cmd' = cmd /\ pc' = "flushing" /\ output' = output
        BY <2>5 DEF StartFlush
      <4>3. Written(cmd, Overlay(dirty, backend))'
              = Written(cmd, Written(cmd, Overlay(dirty, backend)))
        BY <4>1, <4>2 DEF Written, RangeOf
      <4>4. Written(cmd, Overlay(dirty, backend))' = Overlay(dirty, backend)'
        BY <2>1, <4>1, <4>3, ServedWrite
      <4>5. Valid(cmd)'
        BY <2>1, <4>2 DEF Valid, InRange
      <4>6. output' = NoBlocks
        BY <2>1, <4>2 DEF IInv, TaskInv
      <4>. QED
        BY <2>1, <2>2, <4>2, <4>4, <4>5, <4>6 DEF TaskInv
    <3>. QED
      BY <3>1, <3>2, <3>3 DEF IInv
  <2>. QED
    BY <1>1, <2>4, <2>5 DEF WriteBlocks
<1>2. CASE BeginFlush
  <2>1. batch = NoBlocks /\ outcome = "none" /\ cmd # NoRequest
    BY <1>2, NothingOnItsWay, ServingCmd DEF BeginFlush
  <2>2. TypeOK'
    BY <1>0, <1>2 DEF BeginFlush, StartFlush, TypeOK, TransportTypeOK, transportVars
  <2>3. BatchInDirty' /\ ResultHonest'
    BY <1>2, <2>1, NoBlocksFacts
       DEF BeginFlush, BatchInDirty, ResultHonest, transportVars
  <2>4. TaskInv'
    BY <1>2, <2>1 DEF BeginFlush, StartFlush, IInv, TaskInv
  <2>. QED
    BY <2>2, <2>3, <2>4 DEF IInv
<1>3. CASE SendBatch
  <2>1. /\ pc = "flushing" /\ pc' = "writing" /\ outcome = "none"
        /\ batch' = NextBatch(dirty)
        /\ UNCHANGED <<backend, outcome, dirty, cmd, cursor, output, expired, reply>>
    BY <1>3, NothingOnItsWay DEF SendBatch, Call
  <2>2. batch' \in BlockMap /\ \A b \in Keys(batch') : dirty[b] = batch'[b]
    BY <1>0, <2>1, MapTypes DEF NextBatch, Restricted, Keys
  <2>3. TypeOK'
    BY <1>0, <2>1, <2>2 DEF TypeOK, TransportTypeOK
  <2>4. BatchInDirty' /\ ResultHonest'
    BY <2>1, <2>2 DEF BatchInDirty, ResultHonest, Keys
  <2>5. TaskInv'
    BY <2>1, FlushGoesOn DEF Overlay
  <2>. QED
    BY <2>3, <2>4, <2>5 DEF IInv
<1>4. CASE FlushSucceeds
  <2>1. pc \in Serving /\ batch = NoBlocks /\ outcome = "none"
    BY <1>4, NothingOnItsWay DEF FlushSucceeds
  <2>2. Conclude("ok", NoBlocks) \/ Conclude("EIO", NoBlocks)
    BY <1>4 DEF FlushSucceeds, FlushEnds
  <2>. QED
    BY <1>0, <1>4, <2>1, <2>2, NoBlocksFacts, ConcludeIInv
       DEF FlushSucceeds, transportVars
<1>5. CASE BatchAccepted
  <2>1. /\ pc = "writing" /\ pc' = "flushing" /\ outcome = "ok"
        /\ dirty' = WithoutBatch(dirty, batch)
        /\ batch' = NoBlocks /\ outcome' = "none"
        /\ UNCHANGED <<backend, cmd, cursor, output, expired, reply>>
    BY <1>5 DEF BatchAccepted, EndCall
  <2>2. dirty' \in BlockMap
    BY <1>0, <2>1, MapTypes DEF WithoutBatch
  <2>3. Overlay(dirty, backend)' = Overlay(dirty, backend)
    BY <1>0, <2>1, DropStored DEF WithoutBatch, IInv, BatchInDirty, ResultHonest
  <2>4. TypeOK'
    BY <1>0, <2>1, <2>2, NoBlocksFacts DEF TypeOK, TransportTypeOK
  <2>5. BatchInDirty' /\ ResultHonest'
    BY <2>1, NoBlocksFacts DEF BatchInDirty, ResultHonest
  <2>6. TaskInv'
    BY <2>1, <2>3, FlushGoesOn
  <2>. QED
    BY <2>4, <2>5, <2>6 DEF IInv
<1>6. CASE BatchRetried
  <2>1. /\ pc = "writing" /\ pc' = "sleeping"
        /\ batch' = NoBlocks /\ outcome' = "none"
        /\ UNCHANGED <<backend, dirty, cmd, cursor, output, expired, reply>>
    BY <1>6 DEF BatchRetried, EndCall
  <2>2. TypeOK'
    BY <1>0, <2>1, NoBlocksFacts DEF TypeOK, TransportTypeOK
  <2>3. BatchInDirty' /\ ResultHonest'
    BY <2>1, NoBlocksFacts DEF BatchInDirty, ResultHonest
  <2>4. TaskInv'
    BY <2>1, FlushGoesOn DEF Overlay
  <2>. QED
    BY <2>2, <2>3, <2>4 DEF IInv
<1>7. CASE BatchFailed
  <2>1. /\ pc = "writing" /\ batch' = NoBlocks /\ outcome' = "none"
        /\ UNCHANGED <<backend, dirty>>
    BY <1>7 DEF BatchFailed, EndCall
  <2>2. Conclude("EIO", NoBlocks)
    BY <1>7 DEF BatchFailed, FlushEnds
  <2>. QED
    BY <1>0, <2>1, <2>2, NoBlocksFacts, ConcludeIInv
<1>8. CASE RetryFlush
  <2>1. /\ pc = "sleeping" /\ pc' = "flushing" /\ batch = NoBlocks /\ outcome = "none"
        /\ UNCHANGED <<backend, batch, outcome, dirty, cmd, cursor, output, expired, reply>>
    BY <1>8, NothingOnItsWay DEF RetryFlush, transportVars
  <2>2. TypeOK'
    BY <1>0, <2>1 DEF TypeOK, TransportTypeOK
  <2>3. BatchInDirty' /\ ResultHonest'
    BY <2>1, NoBlocksFacts DEF BatchInDirty, ResultHonest
  <2>4. TaskInv'
    BY <2>1, FlushGoesOn DEF Overlay
  <2>. QED
    BY <2>2, <2>3, <2>4 DEF IInv
<1>. QED
  BY <1>1, <1>2, <1>3, <1>4, <1>5, <1>6, <1>7, <1>8

\* A step of the environment, or the start and the rejection of a request.
LEMMA OtherStepIInv ==
  ASSUME IInv,
         \/ \E r \in Requests : Submit(r)
         \/ Reject
         \/ \E S \in SUBSET Keys(batch) : StoreBlocks(S)
         \/ TransportReturns
         \/ DeadlinePasses
         \/ Restart
         \/ UNCHANGED vars
  PROVE  IInv'
<1>. USE DEF Serving
<1>0. dirty \in BlockMap /\ backend \in Volume /\ batch \in BlockMap /\ TypeOK
  BY DEF IInv, TypeOK, TransportTypeOK
<1>1. ASSUME NEW r \in Requests, Submit(r)
      PROVE  IInv'
  <2>1. /\ pc = "idle" /\ pc' = "start" /\ cmd' = r /\ reply' = NoReply
        /\ UNCHANGED <<backend, batch, outcome, dirty, cursor, output, expired>>
    BY <1>1 DEF Submit, transportVars
  <2>2. r # NoRequest
    BY RequestsAssumption DEF Request, NoRequest
  <2>3. TypeOK'
    BY <1>0, <2>1, NoBlocksFacts DEF TypeOK, TransportTypeOK, NoReply, Reply
  <2>4. BatchInDirty' /\ ResultHonest'
    BY <2>1 DEF IInv, BatchInDirty, ResultHonest
  <2>5. TaskInv'
    BY <2>1, <2>2 DEF IInv, TaskInv
  <2>. QED
    BY <2>3, <2>4, <2>5 DEF IInv
<1>2. CASE Reject
  <2>1. pc \in Serving /\ batch = NoBlocks /\ outcome = "none"
    BY <1>2, NothingOnItsWay DEF Reject
  <2>. QED
    BY <1>0, <1>2, <2>1, NoBlocksFacts, ConcludeIInv DEF Reject, transportVars
<1>3. ASSUME NEW S \in SUBSET Keys(batch), StoreBlocks(S)
      PROVE  IInv'
  <2>1. /\ outcome = "none" /\ S # {}
        /\ backend' = Overlay(Restricted(batch, S), backend)
        /\ UNCHANGED <<batch, outcome, engineVars>>
    BY <1>3 DEF StoreBlocks, Store
  <2>2. pc = "writing"
    BY <2>1, NothingOnItsWay, NoBlocksFacts, <1>0
  <2>3. backend' \in Volume /\ Overlay(dirty, backend') = Overlay(dirty, backend)
    BY <1>0, <2>1, StoreCached DEF IInv, BatchInDirty
  <2>4. TypeOK'
    BY <1>0, <2>1, <2>3 DEF TypeOK, TransportTypeOK, engineVars
  <2>5. BatchInDirty' /\ ResultHonest'
    BY <2>1 DEF IInv, BatchInDirty, ResultHonest, engineVars
  <2>6. TaskInv'
    <3>1. Overlay(dirty, backend)' = Overlay(dirty, backend)
      BY <2>1, <2>3 DEF engineVars, Overlay
    <3>. QED
      BY <2>1, <2>2, <3>1, FlushGoesOn DEF engineVars
  <2>. QED
    BY <2>4, <2>5, <2>6 DEF IInv
<1>4. ASSUME NEW res \in Results, ReturnResult(res)
      PROVE  IInv'
  <2>1. /\ batch # NoBlocks /\ outcome' = res
        /\ res = "ok" => Overlay(batch, backend) = backend
        /\ UNCHANGED <<backend, batch, engineVars>>
    BY <1>4 DEF ReturnResult, Return
  <2>2. pc = "writing"
    BY <2>1, NothingOnItsWay
  <2>3. TypeOK'
    BY <1>0, <2>1 DEF TypeOK, TransportTypeOK, engineVars
  <2>4. BatchInDirty' /\ ResultHonest'
    BY <2>1, <2>2 DEF IInv, BatchInDirty, ResultHonest, engineVars
  <2>5. TaskInv'
    BY <2>1, <2>2, FlushGoesOn DEF engineVars, Overlay
  <2>. QED
    BY <2>3, <2>4, <2>5 DEF IInv
<1>5. CASE DeadlinePasses
  <2>1. /\ pc \in {"flushing", "writing", "sleeping"} /\ expired' = TRUE
        /\ UNCHANGED <<backend, batch, outcome, dirty, cmd, pc, cursor, output, reply>>
    BY <1>5 DEF DeadlinePasses, transportVars
  <2>2. TypeOK'
    BY <1>0, <2>1 DEF TypeOK, TransportTypeOK
  <2>3. BatchInDirty' /\ ResultHonest'
    BY <2>1 DEF IInv, BatchInDirty, ResultHonest
  <2>4. TaskInv'
    BY <2>1, FlushGoesOn DEF Overlay
  <2>. QED
    BY <2>2, <2>3, <2>4 DEF IInv
<1>6. CASE Restart
  <2>1. TypeOK'
    BY <1>0, <1>6, NoBlocksFacts, CursorStart
       DEF Restart, EndCall, TypeOK, TransportTypeOK, NoReply, Reply
  <2>2. BatchInDirty' /\ ResultHonest'
    BY <1>6, NoBlocksFacts DEF Restart, EndCall, BatchInDirty, ResultHonest
  <2>3. TaskInv'
    BY <1>6 DEF Restart, TaskInv
  <2>. QED
    BY <2>1, <2>2, <2>3 DEF IInv
<1>7. CASE UNCHANGED vars
  <2>1. TypeOK'
    BY <1>0, <1>7 DEF vars, transportVars, engineVars, TypeOK, TransportTypeOK
  <2>2. BatchInDirty' /\ ResultHonest'
    BY <1>7 DEF vars, transportVars, engineVars, IInv, BatchInDirty, ResultHonest
  <2>3. TaskInv'
    BY <1>7 DEF vars, transportVars, engineVars, IInv, TaskInv, Valid, InRange
  <2>. QED
    BY <2>1, <2>2, <2>3 DEF IInv
<1>. QED
  BY <1>1, <1>2, <1>3, <1>4, <1>5, <1>6, <1>7 DEF TransportReturns

\* Every step keeps the invariant.
LEMMA NextIInv == IInv /\ [Next]_vars => IInv'
BY ReadStepIInv, WriteStepIInv, OtherStepIInv DEF Next, EngineStep

-----------------------------------------------------------------------------
(* Theorems                                                                *)

\* The invariant holds in every reachable state: the types, what is on its
\* way is still in the cache, an Ok of the transport is honest, and the
\* engine's tasks know what they rely on.
THEOREM EngineInvariant == Spec => []IInv
BY InitIInv, NextIInv, PTL DEF Spec

\* Every variable keeps its type, whatever the volume and the requests.
THEOREM EngineTypeCorrect == Spec => []TypeOK
<1>1. IInv => TypeOK
  BY DEF IInv
<1>. QED
  BY EngineInvariant, <1>1, PTL

\* The entries of flush_once's batch are in the cache until it removes them:
\* its debug_assert cannot fail.
THEOREM EngineBatchInDirty == Spec => []BatchInDirty
<1>1. IInv => BatchInDirty
  BY DEF IInv
<1>. QED
  BY EngineInvariant, <1>1, PTL

\* No step but the end of the process takes an entry out of the cache that
\* the backend does not hold.
LEMMA StepNeverDrops ==
  ASSUME IInv, [Next]_vars,
         NEW b \in Lba, dirty[b] # Absent, dirty'[b] = Absent,
         backend[b] # dirty[b]
  PROVE  Restart
<1>1. CASE WriteBlocks
  <2>1. /\ cmd \in Request /\ cmd.op = "write" /\ RangeOf(cmd) \subseteq Lba
        /\ dirty' = Written(cmd, dirty)
    BY <1>1, ServedWrite DEF WriteBlocks, Serving
  <2>2. b \notin RangeOf(cmd)
    BY <2>1, WrittenTypes, AbsentAssumption DEF Written
  <2>. QED
    BY <2>1, <2>2 DEF Written
<1>2. CASE BatchAccepted
  <2>1. b \in Keys(batch)
    BY <1>2 DEF BatchAccepted, WithoutBatch, Restricted
  <2>2. backend[b] = batch[b] /\ dirty[b] = batch[b]
    BY <1>2, <2>1 DEF BatchAccepted, IInv, ResultHonest, BatchInDirty, Overlay, Keys
  <2>. QED
    BY <2>2
<1>3. CASE Restart
  BY <1>3
<1>4. CASE dirty' = dirty
  BY <1>4
<1>5. [Next]_vars => WriteBlocks \/ BatchAccepted \/ Restart \/ dirty' = dirty
  BY DEF Next, EngineStep, TransportReturns, vars, engineVars, Submit, Reject,
         StartRead, ReadChunk, ReadChunkFails, FinishRead, BeginFlush, SendBatch,
         FlushSucceeds, BatchRetried, BatchFailed, RetryFlush, StoreBlocks,
         ReturnResult, DeadlinePasses
<1>. QED
  BY <1>1, <1>2, <1>3, <1>4, <1>5

\* Dirty data is never dropped by a flush, an error or a retry.
THEOREM EngineNeverDropped == Spec => NeverDropped
<1>1. IInv /\ [Next]_vars =>
        [(\E b \in Lba : /\ dirty[b] # Absent
                         /\ dirty'[b] = Absent
                         /\ backend[b] # dirty[b]) => Restart]_vars
  BY StepNeverDrops
<1>. QED
  BY EngineInvariant, <1>1, PTL DEF Spec, NeverDropped

\* The last answer is withdrawn when a request starts, and an acknowledged write
\* left the cache below the mark.
AckInv ==
  /\ pc \in Serving => reply = NoReply
  /\ AckedWriteBelowHighWater

\* The mark the engine works with is at least one.
LEMMA HighWaterPositive == HighWater \in Nat /\ HighWater > 0
BY HighWaterAssumption DEF HighWater

\* The cache is finite; an empty one is below the mark.
LEMMA CacheSize ==
  /\ \A m \in BlockMap : Cardinality(Keys(m)) \in Nat
  /\ Cardinality(Keys(NoBlocks)) < HighWater
<1>1. \A m \in BlockMap : Cardinality(Keys(m)) \in Nat
  BY FiniteKeys
<1>2. Keys(NoBlocks) = {}
  BY NoBlocksFacts
<1>. QED
  BY <1>1, <1>2, FS_EmptySet, HighWaterPositive

\* Every step keeps the bound on the cache behind an acknowledged write.
LEMMA NextAckInv == IInv /\ AckInv /\ [Next]_vars => AckInv'
<1>. SUFFICES ASSUME IInv, AckInv, [Next]_vars PROVE AckInv'
  OBVIOUS
<1>. USE DEF Serving
<1>1. CASE \E r \in Requests : Submit(r)
  BY <1>1 DEF Submit, AckInv, AckedWriteBelowHighWater, NoReply
<1>2. CASE \/ Reject \/ ReadChunkFails \/ FinishRead \/ BatchFailed
  <2>1. /\ pc' \in {"idle", "closed"}
        /\ reply'.op # "write" \/ reply'.status # "ok"
    <3>1. CASE FinishRead
      BY <1>2, <3>1 DEF FinishRead, Conclude, IInv, TaskInv
    <3>2. CASE Reject \/ ReadChunkFails
      BY <1>2, <3>2 DEF Reject, ReadChunkFails, Conclude
    <3>3. CASE BatchFailed
      BY <1>2, <3>3 DEF BatchFailed, FlushEnds, Conclude
    <3>. QED
      BY <1>2, <3>1, <3>2, <3>3
  <2>. QED
    BY <2>1 DEF AckInv, AckedWriteBelowHighWater
<1>3. CASE WriteBlocks
  <2>1. CASE StartFlush
    BY <1>3, <2>1 DEF WriteBlocks, StartFlush, AckInv, AckedWriteBelowHighWater, NoReply
  <2>2. CASE ~AboveHighWater(dirty')
    <3>1. dirty' \in BlockMap
      BY <1>3, ServedWrite DEF WriteBlocks
    <3>2. Cardinality(Keys(dirty')) < HighWater
      BY <2>2, <3>1, CacheSize, HighWaterPositive DEF AboveHighWater
    <3>3. pc' \in {"idle", "closed"}
      BY <1>3, <2>2 DEF WriteBlocks, Conclude
    <3>. QED
      BY <3>2, <3>3 DEF AckInv, AckedWriteBelowHighWater, Keys, HighWater
  <2>. QED
    BY <1>3, <2>1, <2>2 DEF WriteBlocks
<1>4. CASE FlushSucceeds
  <2>1. dirty' = NoBlocks /\ pc' \in {"idle", "closed"}
    BY <1>4 DEF FlushSucceeds, FlushEnds, Conclude
  <2>. QED
    BY <2>1, CacheSize DEF AckInv, AckedWriteBelowHighWater, Keys, HighWater
<1>5. CASE Restart
  BY <1>5 DEF Restart, AckInv, AckedWriteBelowHighWater, NoReply
<1>6. CASE UNCHANGED <<pc, reply, dirty>>
  BY <1>6 DEF AckInv, AckedWriteBelowHighWater, Keys, HighWater
<1>7. CASE UNCHANGED reply /\ pc \in Serving
  BY <1>7 DEF AckInv, AckedWriteBelowHighWater, NoReply
<1>8. \/ \E r \in Requests : Submit(r)
      \/ Reject \/ ReadChunkFails \/ FinishRead \/ BatchFailed
      \/ WriteBlocks \/ FlushSucceeds \/ Restart
      \/ UNCHANGED <<pc, reply, dirty>>
      \/ UNCHANGED reply /\ pc \in Serving
  BY DEF Next, EngineStep, TransportReturns, vars, engineVars, StartRead,
         ReadChunk, BeginFlush, StartFlush, SendBatch, BatchAccepted,
         BatchRetried, RetryFlush, StoreBlocks, ReturnResult, DeadlinePasses
<1>. QED
  BY <1>1, <1>2, <1>3, <1>4, <1>5, <1>6, <1>7, <1>8

\* An acknowledged write leaves the cache below the high-water mark.
THEOREM EngineAckedWriteBelowHighWater == Spec => []AckedWriteBelowHighWater
<1>1. Init => AckInv
  BY DEF Init, AckInv, AckedWriteBelowHighWater, Serving, NoReply
<1>2. AckInv => AckedWriteBelowHighWater
  BY DEF AckInv
<1>. QED
  BY <1>1, <1>2, NextAckInv, EngineInvariant, PTL DEF Spec

\* A batch is made where the cache is not empty, and while it is on its way
\* neither it nor the cache changes.
LEMMA NextLowestChunk == IInv /\ BatchIsLowestChunk /\ [Next]_vars => BatchIsLowestChunk'
<1>. SUFFICES ASSUME IInv, BatchIsLowestChunk, [Next]_vars PROVE BatchIsLowestChunk'
  OBVIOUS
<1>1. CASE SendBatch
  <2>1. /\ dirty \in BlockMap /\ dirty # NoBlocks /\ dirty' = dirty
        /\ batch' = NextBatch(dirty)
    BY <1>1 DEF SendBatch, Call, IInv, TypeOK
  <2>2. Keys(batch') = LowestKeys(dirty, MaxBlocksPerRpc)
    <3>1. LowestKeys(dirty, MaxBlocksPerRpc) \subseteq Keys(dirty)
      BY MaxBlocksAssumption, LowestKeysFacts
    <3>. QED
      BY <2>1, <3>1, MapTypes DEF NextBatch
  <2>3. Keys(dirty) # {}
    BY <2>1, NoBlocksFacts
  <2>4. Cardinality(Keys(batch')) \in 1 .. MaxBlocksPerRpc
    BY <2>2, <2>3, MaxBlocksAssumption, LowestKeysFacts
  <2>5. \A b \in Keys(batch') : \A k \in Keys(dirty) : k < b => k \in Keys(batch')
    BY <2>2, MaxBlocksAssumption, LowestKeysFacts
  <2>. QED
    BY <2>1, <2>4, <2>5 DEF BatchIsLowestChunk, Keys
<1>2. CASE UNCHANGED <<dirty, batch, pc>>
  BY <1>2 DEF BatchIsLowestChunk, Keys
<1>3. CASE pc' # "writing"
  BY <1>3 DEF BatchIsLowestChunk
<1>4. SendBatch \/ UNCHANGED <<dirty, batch, pc>> \/ pc' # "writing"
  BY DEF Next, EngineStep, TransportReturns, vars, engineVars, transportVars, Submit,
         Reject, StartRead, ReadChunk, ReadChunkFails, FinishRead, WriteBlocks,
         BeginFlush, StartFlush, FlushSucceeds, FlushEnds, BatchAccepted, BatchRetried,
         BatchFailed, RetryFlush, Conclude, StoreBlocks, Store, ReturnResult, Return,
         DeadlinePasses, Restart
<1>. QED
  BY <1>1, <1>2, <1>3, <1>4

\* flush_once sends no more than MAX_BLOCKS_PER_RPC blocks at once, at least
\* one, and the lowest ones of the cache.
THEOREM EngineBatchIsLowestChunk == Spec => []BatchIsLowestChunk
<1>1. Init => BatchIsLowestChunk
  BY DEF Init, BatchIsLowestChunk
<1>. QED
  BY <1>1, NextLowestChunk, EngineInvariant, PTL DEF Spec

-----------------------------------------------------------------------------
(* The engine implements the block device                                  *)

\* The device speaks of the same blocks and requests.
LEMMA SameData ==
  /\ Device!Lba = Lba /\ Device!Volume = Volume /\ Device!NoBlocks = NoBlocks
  /\ Device!NoRequest = NoRequest /\ Device!NoReply = NoReply
  /\ \A r : Device!RangeOf(r) = RangeOf(r)
  /\ \A r, m : Device!Written(r, m) = Written(r, m)
  /\ \A m, S : Device!Restricted(m, S) = Restricted(m, S)
BY DEF Device!Lba, Lba, Device!Volume, Volume, Device!NoBlocks, NoBlocks,
       Device!NoRequest, NoRequest, Device!NoReply, NoReply, Device!RangeOf,
       RangeOf, Device!Written, Written, Device!Restricted, Restricted

\* The initial states are initial states of the device.
LEMMA DeviceInit == Init => Device!Init
BY EmptyOverlay, SameData DEF Init, TransportInit, Device!Init

\* A failure is one the device allows, if the request was acceptable.
LEMMA DeviceFail ==
  ASSUME IInv, pc \in Serving, Conclude("EIO", NoBlocks),
         cmd.op \in {"read", "write"} => Valid(cmd),
         UNCHANGED <<dirty, backend>>
  PROVE  Device!Fail
<1>1. cmd # NoRequest /\ cmd \in Request
  BY ServingCmd
<1>2. Device!Acceptable(cmd)
  BY <1>1, WellFormedIsValid DEF Device!Acceptable, Request
<1>3. Device!Answer("EIO", NoBlocks)
  BY SameData DEF Conclude, Device!Answer
<1>4. Overlay(dirty, backend)' = Overlay(dirty, backend)
  BY DEF Overlay
<1>. QED
  BY <1>1, <1>2, <1>3, <1>4, SameData DEF Device!Fail

\* A step that leaves the request, the reply and the view alone, and the
\* backend, is invisible to the device.
LEMMA DeviceStutter ==
  ASSUME UNCHANGED <<cmd, reply, backend>>,
         Overlay(dirty, backend)' = Overlay(dirty, backend)
  PROVE  UNCHANGED Device!vars
BY DEF Device!vars

\* Every step is a step of the device, or invisible to it.
LEMMA DeviceStep == IInv /\ [Next]_vars => [Device!Next]_(Device!vars)
<1>. SUFFICES ASSUME IInv, [Next]_vars
             PROVE  Device!Next \/ UNCHANGED Device!vars
  OBVIOUS
<1>. USE DEF Serving
<1>0. dirty \in BlockMap /\ backend \in Volume /\ batch \in BlockMap
  BY DEF IInv, TypeOK, TransportTypeOK
<1>1. ASSUME NEW r \in Requests, Submit(r)
      PROVE  Device!Submit(r)
  <2>1. cmd = NoRequest
    BY <1>1 DEF Submit, IInv, TaskInv
  <2>2. Overlay(dirty, backend)' = Overlay(dirty, backend)
    BY <1>1 DEF Submit, transportVars, Overlay
  <2>. QED
    BY <1>1, <2>1, <2>2, SameData DEF Submit, transportVars, Device!Submit
<1>2. CASE Reject
  <2>1. /\ pc = "start" /\ ~Valid(cmd) /\ Conclude("EINVAL", NoBlocks)
        /\ UNCHANGED <<backend, dirty>>
    BY <1>2 DEF Reject, transportVars
  <2>2. cmd \in Request /\ cmd.op \in {"read", "write"}
    BY <2>1, ServingCmd DEF Valid, Request
  <2>3. ~Device!WellFormed(cmd)
    BY <2>1, <2>2, WellFormedIsValid
  <2>4. Overlay(dirty, backend)' = Overlay(dirty, backend)
    BY <2>1 DEF Overlay
  <2>5. Device!Refuse
    BY <2>1, <2>2, <2>3, <2>4, SameData DEF Conclude, Device!Answer, Device!Refuse
  <2>. QED
    BY <2>5 DEF Device!Next
<1>3. CASE StartRead \/ ReadChunk
  BY <1>3, DeviceStutter DEF StartRead, ReadChunk, transportVars, Overlay
<1>4. CASE ReadChunkFails
  <2>1. Device!Fail
    BY <1>4, DeviceFail DEF ReadChunkFails, transportVars, IInv, TaskInv
  <2>. QED
    BY <2>1 DEF Device!Next
<1>5. CASE FinishRead
  <2>1. /\ pc = "reading" /\ cursor = cmd.start + cmd.count
        /\ Conclude("ok", ReadResult(output, dirty, cmd))
        /\ UNCHANGED <<backend, dirty>>
    BY <1>5 DEF FinishRead, transportVars
  <2>2. /\ cmd \in Request /\ cmd.op = "read" /\ Valid(cmd)
        /\ output = Restricted(backend, RangeOf(cmd))
    <3>1. cmd \in Request
      BY <2>1, ServingCmd
    <3>2. /\ cmd.op = "read" /\ Valid(cmd)
          /\ output = Restricted(backend, cmd.start .. cursor - 1)
      BY <2>1 DEF IInv, TaskInv
    <3>3. RangeOf(cmd) = cmd.start .. cursor - 1
      <4>1. cmd.start \in Nat /\ cmd.count \in Nat
        BY <3>1 DEF Request
      <4>2. cursor = cmd.start + cmd.count
        BY <2>1
      <4>. QED
        BY <3>2, <4>1, <4>2 DEF RangeOf
    <3>. QED
      BY <3>1, <3>2, <3>3
  <2>3. ReadResult(output, dirty, cmd)
          = Restricted(Overlay(dirty, backend), RangeOf(cmd))
    BY <2>2 DEF ReadResult, Overlay, Restricted
  <2>4. Overlay(dirty, backend)' = Overlay(dirty, backend)
    BY <2>1 DEF Overlay
  <2>5. Device!AckRead
    BY <2>1, <2>2, <2>3, <2>4, WellFormedIsValid, SameData
       DEF Conclude, Device!Answer, Device!AckRead
  <2>. QED
    BY <2>5 DEF Device!Next
<1>6. CASE WriteBlocks
  <2>1. /\ pc = "start" /\ cmd.op = "write" /\ Valid(cmd)
        /\ dirty' = Written(cmd, dirty) /\ UNCHANGED backend
    BY <1>6 DEF WriteBlocks, transportVars
  <2>2. cmd \in Request /\ Device!WellFormed(cmd)
    BY <2>1, ServingCmd, WellFormedIsValid
  <2>3. Overlay(dirty, backend)' = Device!Written(cmd, Overlay(dirty, backend))
    BY <2>1, ServedWrite, SameData
  <2>4. CASE StartFlush
    <3>1. Device!TakeWrite
      BY <2>1, <2>2, <2>3, <2>4 DEF StartFlush, Device!TakeWrite
    <3>. QED
      BY <3>1 DEF Device!Next
  <2>5. CASE Conclude("ok", NoBlocks)
    <3>1. Device!AckWrite
      BY <2>1, <2>2, <2>3, <2>5, SameData
         DEF Conclude, Device!Answer, Device!AckWrite
    <3>. QED
      BY <3>1 DEF Device!Next
  <2>. QED
    BY <1>6, <2>4, <2>5 DEF WriteBlocks
<1>7. CASE BeginFlush \/ SendBatch \/ BatchRetried \/ RetryFlush \/ DeadlinePasses
  BY <1>7, DeviceStutter
     DEF BeginFlush, StartFlush, SendBatch, Call, BatchRetried, EndCall,
         RetryFlush, DeadlinePasses, transportVars, Overlay
<1>8. CASE FlushSucceeds
  <2>1. pc = "flushing" /\ dirty = NoBlocks /\ UNCHANGED <<backend, dirty>>
    BY <1>8 DEF FlushSucceeds, transportVars
  <2>2. CASE Conclude("EIO", NoBlocks)
    <3>1. Device!Fail
      BY <2>1, <2>2, ServingCmd, DeviceFail DEF IInv, TaskInv, Request
    <3>. QED
      BY <3>1 DEF Device!Next
  <2>3. CASE Conclude("ok", NoBlocks)
    <3>1. Overlay(dirty, backend) = backend /\ Overlay(dirty, backend)' = backend
      BY <1>0, <2>1, EmptyOverlay DEF Overlay
    <3>2. Device!Answer("ok", NoBlocks)
      BY <2>3, SameData DEF Conclude, Device!Answer
    <3>3. CASE cmd.op \in {"flush", "disconnect"}
      <4>1. Device!AckFlush
        BY <2>1, <3>1, <3>2, <3>3, SameData DEF Device!AckFlush
      <4>. QED
        BY <4>1 DEF Device!Next
    <3>4. CASE /\ cmd.op = "write" /\ Valid(cmd)
               /\ Written(cmd, Overlay(dirty, backend)) = Overlay(dirty, backend)
      <4>1. cmd \in Request /\ Device!WellFormed(cmd)
        BY <2>1, <3>4, ServingCmd, WellFormedIsValid
      <4>2. Device!AckWrite
        BY <2>1, <3>1, <3>2, <3>4, <4>1, SameData DEF Device!AckWrite
      <4>. QED
        BY <4>2 DEF Device!Next
    <3>. QED
      BY <2>1, <3>3, <3>4 DEF IInv, TaskInv
  <2>. QED
    BY <1>8, <2>2, <2>3 DEF FlushSucceeds, FlushEnds
<1>9. CASE BatchAccepted
  <2>1. Overlay(dirty, backend)' = Overlay(dirty, backend)
    <3>1. dirty' = WithoutBatch(dirty, batch) /\ outcome = "ok" /\ backend' = backend
      BY <1>9 DEF BatchAccepted, EndCall
    <3>. QED
      BY <1>0, <3>1, DropStored DEF WithoutBatch, IInv, BatchInDirty, ResultHonest
  <2>. QED
    BY <1>9, <2>1, DeviceStutter DEF BatchAccepted, EndCall
<1>10. CASE BatchFailed
  <2>1. /\ pc = "writing" /\ Conclude("EIO", NoBlocks)
        /\ UNCHANGED <<dirty, backend>>
    BY <1>10 DEF BatchFailed, FlushEnds, EndCall
  <2>2. Device!Fail
    BY <2>1, ServingCmd, DeviceFail DEF IInv, TaskInv, Request
  <2>. QED
    BY <2>2 DEF Device!Next
<1>11. ASSUME NEW S \in SUBSET Keys(batch), StoreBlocks(S)
       PROVE  Device!Next
  <2>1. /\ backend' = Overlay(Restricted(batch, S), backend)
        /\ UNCHANGED <<dirty, cmd, reply>>
    BY <1>11 DEF StoreBlocks, Store, engineVars
  <2>2. /\ Overlay(dirty, backend') = Overlay(dirty, backend)
        /\ backend' = [b \in Lba |-> IF b \in S THEN Overlay(dirty, backend)[b]
                                               ELSE backend[b]]
    BY <1>0, <2>1, StoreCached DEF IInv, BatchInDirty
  <2>3. Overlay(dirty, backend)' = Overlay(dirty, backend)
    BY <2>1, <2>2 DEF Overlay
  <2>4. Device!Destage(S)
    BY <2>1, <2>2, <2>3, SameData DEF Device!Destage
  <2>5. S \in SUBSET Lba
    BY DEF Keys
  <2>. QED
    BY <2>4, <2>5, SameData DEF Device!Next
<1>12. CASE TransportReturns
  BY <1>12, DeviceStutter
     DEF TransportReturns, ReturnResult, Return, engineVars, Overlay
<1>13. CASE Restart
  <2>1. Overlay(dirty, backend)' = backend
    <3>1. dirty' = NoBlocks /\ backend' = backend
      BY <1>13 DEF Restart, EndCall
    <3>2. Overlay(dirty, backend)' = Overlay(NoBlocks, backend)
      BY <3>1 DEF Overlay
    <3>. QED
      BY <1>0, <3>2, EmptyOverlay
  <2>2. Device!PowerLoss
    BY <1>13, <2>1, SameData DEF Restart, EndCall, Device!PowerLoss
  <2>. QED
    BY <2>2 DEF Device!Next
<1>14. CASE UNCHANGED vars
  BY <1>14, DeviceStutter DEF vars, transportVars, engineVars, Overlay
<1>15. \/ \E r \in Requests : Submit(r)
       \/ Reject \/ StartRead \/ ReadChunk \/ ReadChunkFails \/ FinishRead
       \/ WriteBlocks \/ BeginFlush \/ SendBatch \/ FlushSucceeds
       \/ BatchAccepted \/ BatchRetried \/ BatchFailed \/ RetryFlush
       \/ \E S \in SUBSET Keys(batch) : StoreBlocks(S)
       \/ TransportReturns \/ DeadlinePasses \/ Restart \/ UNCHANGED vars
  BY DEF Next, EngineStep
<1>16. (\E r \in Requests : Submit(r)) => Device!Next
  BY <1>1 DEF Device!Next
<1>. QED
  BY <1>2, <1>3, <1>4, <1>5, <1>6, <1>7, <1>8, <1>9, <1>10, <1>11, <1>12,
     <1>13, <1>14, <1>15, <1>16

\* The engine over a transport that keeps its contract is a block device with
\* a volatile write cache: read-your-writes, flush-driven durability, and no
\* flushed block lost when the process dies.
THEOREM EngineImplementsDevice == Spec => ImplementsDevice
BY DeviceInit, DeviceStep, EngineInvariant, PTL DEF Spec, ImplementsDevice, Device!Spec
=============================================================================
