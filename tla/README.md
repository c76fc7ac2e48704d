# Formal models of temporal-nbd

TLA+ models of `temporal-nbd`, the program that attaches one Temporal volume to
one Linux NBD device (`src/README.md`, `src/DESIGN.md`), with the TLC
configurations that check them on small instances and TLAPS proofs for every
value of their constants. Paths `src/...` are those of the repository.

## 1. The system

The kernel's block layer sends NBD requests over a socket pair. One thread reads
them one by one, hands each to the engine task through a channel and waits for
the answer. The engine keeps written blocks in memory and writes them through to
a Temporal frontend with `WriteBatch` RPCs when a FLUSH, the high-water mark or
the detach asks for it.

    kernel --socket--> NBD thread --mpsc/oneshot--> engine loop --> engine
                        ^   |                                          |
          watcher ------+   +-- NBD_DO_IT thread       trait BackendTransport
          (NBD_DISCONNECT)                                             |
    run_attach: spawns both, waits for a signal                    session --RPC--> frontend

| Component | State | Operations | What makes it correct |
|---|---|---|---|
| Engine `engine.rs` | `dirty`: LBA to contents; configuration | `read_blocks`, `write_blocks`, `flush`, `disconnect`; inside them `flush_once`, `flush_with_deadline` | reads return the newest contents; a dirty block leaves the cache only when stored; FLUSH ok means stored; the mark bounds what is acknowledged; every request ends |
| Session `session.rs` | `client` (connected or not), endpoint, geometry, attempt in progress | `connect_and_open`, `read_blocks`, `write_batch` in chunks of 64, `disconnect` | Ok only when every chunk is stored; a retry uses a new connection; the attempts are bounded; a retry never undoes a later write |
| Bridge `bridge.rs` | the channel, the oneshot of the request, `did_disconnect` | `request`, `run_engine_loop`, `handle_request`, `offset_len_to_lba` | each request is answered once, with the engine's answer; one final flush after the last request |
| NBD adapter `nbd.rs` | socket, the request in progress, the watcher and NBD_DO_IT threads, its token | `serve_blocking`, `validate_range`, `write_reply`, `run_nbd_do_it` | well-formed replies, in step with the requests; ends on a signal, DISC or a dead socket; waits for nobody who waits for it |
| Attach `attach.rs` | the parent cancellation token, two task handles | `run_attach`, `wait_for_shutdown_signal` | detach ends, also after a panic; success means a final disconnect; loss is reported |
| Errors `errors.rs` | none | conversion to errno | no error becomes a success |
| Volume creation `create.rs` | the one request it sends | `run_create_volume` | a repeated creation makes one volume; `created` means the volume asked for |
| `main.rs`, `lib.rs`, `build.rs` | none | arguments, generated code | |
| `tests/`, `scripts/` | none | end-to-end tests | |

The behaviours that are hard to test: an await between copying a batch and
removing it from the cache; batches and chunks that fail half-way; RPCs that time
out and are carried out all the same; crashes at any await; the race of signal,
DISC, kernel timeout and end of the channel, each of which starts the shutdown in
another place; four parties that join one another at the end, one of which may have
panicked; two layers of retries, with a deadline that only the outer one looks at;
a byte stream that may be cut at any byte and that one wrong length puts out of step;
arithmetic done three times in different units. `PROJECT.json` lists each of these hazards at its
line with the properties that watch it.

## 2. The modules

| Module | Models |
|---|---|
| `Blocks` | blocks, volumes, partial block maps, requests and replies; no state |
| `BackendTransport` | the contract of the trait of the same name |
| `BlockDevice` | abstract specification: a block device with a volatile write cache |
| `Engine` | `CachingBlockEngine` over `BackendTransport`; implements `BlockDevice` |
| `Session` | `VolumeSession` over the frontend; implements `BackendTransport` |
| `Attach` | engine loop, bridge, NBD thread, watcher, NBD_DO_IT, `run_attach`, kernel; the engine in it is `BlockDevice` |
| `FlushTiming` | how long `flush_with_deadline` takes over the session's retries, back-off and timeouts |
| `NbdStream` | the framing of `serve_blocking`: headers, payloads, replies, a socket cut anywhere |
| `CreateVolume` | `run_create_volume`, by several commands for one volume |
| `RequestPath` | the geometry and the three range checks, with integer widths |
| `MC*` | instances for TLC |
| `BlocksTheorems` | lemmas about `Blocks` |
| `EngineProofs`, `SessionProofs`, `AttachProofs`, `FlushTimingProofs`, `NbdStreamProofs`, `CreateVolumeProofs`, `RequestPathProofs` | the theorems about the module of the name |

The three protocol models are joined by their abstract specifications: `Session`
implements the transport that `Engine` runs over, `Engine` implements the device
that `Attach` runs over. Each is checked with everything its neighbour may do, and
not only what the neighbour does in one build of the state space.

### BlockDevice
`view` is what a read returns, `stable` what survives the process. A write takes
effect (`TakeWrite`) at the latest when it is acknowledged, any blocks of `view`
may be destaged at any time, an acknowledged flush finds `stable = view`, a loss
of the process sets `view` back to `stable`. A write answered EIO may have taken
effect: in the code it stays in the cache.

### Engine
`dirty` is the BTreeMap. `backend`, `batch`, `outcome` are the transport's side of
the one call in progress. The engine is one task; `pc` is the await it is at:

| Action | Code |
|---|---|
| `Submit` | the bridge calls a method |
| `Reject` | the three `ensure_*` checks |
| `StartRead`, `ReadChunk`, `ReadChunkFails`, `FinishRead` | `read_blocks`; one `ReadChunk` per RPC, the dirty overlay in `FinishRead` |
| `WriteBlocks` | `write_blocks` up to its flush: all inserts, then the mark |
| `BeginFlush`, `SendBatch`, `BatchAccepted`, `FlushSucceeds` | `flush`, `disconnect`, `flush_once` |
| `BatchRetried`, `RetryFlush`, `BatchFailed`, `DeadlinePasses` | `flush_with_deadline` |
| `StoreBlocks`, `ReturnResult` | the transport |
| `Restart` | the process ends at any point, and attaches again |

`flush_with_deadline` returns at once on an empty cache; in the model that is
`FlushSucceeds` as its first step. The deadline is one event that may come at any
time during a flush. `disconnect` of the transport may fail, as the trait allows,
though the session's never does.

### Session
`pc` is the await the method is at, `rest` the blocks of the batch whose chunks
are not acknowledged, `attempt` the attempt of the RPC in progress. `Send` covers
`ensure_connected`. An attempt ends with `AnswerOk`, `AnswerStatus` (one of
`is_retryable_status` or another), `Timeout`, or `ConnectFails` before it. The
frontend (`ServeBlock`) stores an RPC block by block and may be anywhere in it when
the client gives up. In `Spec` it drops the rest; in `LateSpec` it may carry it out at
any later time (`ServeLate`). `Die` ends the process. `durable` is a history variable: what each
block was acknowledged to hold.

The refinement hides the connections: a `BackendTransport` call is outstanding
while `call = "write"`, and its outcome is the session's `result`.

### Attach
One variable per thread or task (`loop`, `nbd`, `watcher`, `doIt`, `main`), one for
each channel between them (`queued`, `response`, the tokens `shutdown` and
`nbdCancelled`), and the kernel's socket (`conn`, `wire`, `outstanding`). The
channel never holds more than one request because its only sender waits for each
answer. The steps of `nbd`: `checking` looks at the token, `header` blocks in the
socket, `waiting` has an answer to come or to write out, `teardown`, `closing` and
`joining` are lines 260 to 292. `KernelDisconnects` is the ioctl NBD_DISCONNECT:
the kernel sends DISC and nothing after it. `KernelTimesOut` is the timeout set
with NBD_SET_TIMEOUT. `acked` is a history variable: what the writes the kernel
was told of left in each block; a block is taken out of it when the engine is
given a newer write of it (`Unsure`), and comes back with the answer.

`Faults` says what else may happen. `panic`: the engine task panics in
`handle_request` (`LoopPanics`); the cache and the channel go with it, `loop` is
`gone`, and the join of `run_attach` reports it. `handler`: a signal handler cannot
be installed (`SignalFails`), and `run_attach` returns early, with its tasks running.
The runtime then drops the engine task where it awaits (`RuntimeDropsLoop`), but waits
for the NBD thread (`RuntimeEnds`), which is `main = "unwinding"`.

### FlushTiming
One `flush_with_deadline` after another, with a clock that starts at zero with each.
Every wait of the code, a connect, an RPC, a back-off, a pause, is one action, and
moves `clock` by at most its timeout; what runs between two waits takes no time. Dirty
blocks are counted in RPCs, the session's chunks, of which `RpcsPerBatch` make a batch
of the engine (512 / 64 in the code). `Delays(n)` is `delay_for_attempt`: the
exponential with its overflow to the cap, the cap, then the jitter, as the interval of
what the random number may give. `PassFails` is the end of a pass of `flush_once`, the
only place that looks at the deadline. `StartFlush` lets the cache have grown and the
connection have gone or come since the last flush. The model keeps attempts, batches
and passes; `Engine` and `Session` have their contents.

### NbdStream
The socket's stream from the kernel, in units: a header, or one unit of the payload of a
write. `KernelGoes` cuts it behind any unit. The server is the loop of `serve_blocking`
with `read_request_header`, the payload read before the range check, and the reply;
a range check is a bit of the frame. The bridge answers in one of two ways. While the
engine loop lives, an answer is any that `handle_request` can give (`LoopAnswers`): data to
a read that succeeded, a bare error to anything. `BridgeCloses` ends the loop, at any time,
also while the server serves a request; from then on every request is answered EIO, with
the text of the error behind it (`ClosedAnswers`, `src/src/bridge.rs:214`), which the arm of a
read writes to the socket. How the loop comes to its end is the matter of `Attach`.
`frames` is a history variable: the requests that arrived whole. `Attach` has the
threads around this loop and takes a request as one message; here it is the reverse.

### CreateVolume
`Commands` are processes, each with arguments and one RPC. A size or a block size beyond
the signed types is refused before the request is sent. The frontend is external, from
how `create.rs` and `src/tests/support/workflow_smoke.rs` use it: the first request it
carries out creates the volume, one with another `request_id` is answered
AlreadyExists, one with the same may be answered either way; it may refuse, lose or
delay any, and answer for another volume. A default `request_id` is the command's own
name: it is made of pid and time. Nothing keeps an explicit `request_id`, from the option
or from the environment, from being given again with other arguments, and the response
(`volume_id` and `run_id`) has no geometry to compare: such a command may report `created` for
the volume of the other one.

### RequestPath
A geometry as `OpenVolume` answers it, signed, then one request through
`validate_range`, `offset_len_to_lba` and the engine's checks. The maxima of the
integer types are constants.

## 3. The runs

| Run | Shows | Instance |
|---|---|---|
| `engine` | `BatchInDirty`, `NeverDropped`, `BatchIsLowestChunk`, `AckedWriteBelowHighWater`, the inductive invariant `IInv`, `ImplementsDevice`, and `Answered` | 3 blocks, 2 contents, batches of 2, mark 2, all requests up to 3 blocks, valid or not; 35 thousand states |
| `session` | the inductive invariant `IInv`, `FailedClientDropped`, `AcknowledgedChunksStored`, `LastWriteWins`, `ImplementsTransport`, and `CallReturns` | 3 blocks, chunks of 2, 2 attempts, no late writes |
| `session_late_write` | `LastWriteWins` fails with late writes | 1 block, one late RPC |
| `flush_timing` | `IInv`, `FlushBounded`, `FlushReturns` | 3 RPCs in 2 batches, 5 attempts, delays 2, 3, 3, 3 with jitter of half, an overflow at the fourth, deadline 9 |
| `flush_past_deadline` | `FailsByDeadline` fails | the same |
| `attach_safety` | the inductive invariant `IInv`, `AckedWritesVisible`, `FlushAckMeansStored`, `FinalFlushIsFinal`, `SuccessIsAfterDisconnect` | 1 block, 2 contents, 2 handles, a refused read, an unknown command, both faults; symmetric in contents and handles; 1.4 million states |
| `attach_liveness` | `DetachCompletes`, `EveryRequestEnds` | 1 block, 1 content, 2 handles, both faults, no symmetry |
| `attach_silent_loss` | `NoSilentLoss` fails | 1 handle, no faults |
| `attach_error_reply` | `ErrorRepliesAreBare` fails | 1 handle, no faults |
| `nbd_stream` | the inductive invariant `IInv`, `RepliesAreInStep`, `NoOkBehindText`, `ErrorMeansCut`, `CleanEndAnswersAll` | 3 requests, 2 handles, payloads of 1 or 2 units, the end of the engine loop at any time, symmetric in handles; 1.1 million states |
| `create_volume` | the inductive invariant `IInv`, `CreatedIsAsAsked`, `CreatedOnce`, `SuccessMeansExists`, `VolumeWasAskedFor`, `CommandEnds` | 2 commands, sizes 0, 2, 3 and one beyond the signed maximum, block sizes 0 (the server's), 1 and one beyond, one explicit `request_id`, also given twice with different arguments; 97 thousand states |
| `request_path` | `ChecksAgree`, `AcceptedIsExact`, `RefusedForCause` | u64 of 4 bits, u32 of 3 bits |

Why these bounds. Three blocks with batches of two give a full and a partial batch,
a flush of two batches, and a batch that fails after another one succeeded; a third
content would only repeat "older, newer". Two attempts give a first, a retried and
a last one. Two handles give a request in progress and one behind it on the wire;
nothing in the adapter looks at more. One block is enough in `Attach` because
ranges are the matter of `RequestPath` and of `Engine`. In `RequestPath` the widths
leave room for sums beyond u64, requests beyond the volume and block sizes that do
not divide. `MaxLate` bounds the abandoned RPCs kept. In `FlushTiming` the numbers make
every branch of the back-off happen within one pass, and a deadline fall into the first
or into a later pass; the proof has every other number. Three requests in `NbdStream`
are one refused, one behind it and one to use a handle again; two units of payload are
one read and one left over. Two commands in `CreateVolume` are all that race: a third
would meet what the second met.

Every property of a passing run has a mutant in `PROJECT.json`, a faulty variant of
one definition that breaks it; the variants stand next to what they replace and are
used nowhere else.

### Fairness
`Engine`: the task is polled; a transport call returns, which `Session` shows
(`CallReturns`); time passes. `Session` and `FlushTiming`: a connect, an RPC and a sleep
each end by a timer at the latest; the pause between passes is not zero in the
instance, and with a pause of zero `FlushReturns` would need attempts that take time.
`CreateVolume`: each await has a timeout. `Attach`: every task and thread runs, and the engine answers
each request, which `Engine` shows (`Answered`). Nothing is assumed of the kernel,
the frontend's success, the signal or the kernel's timeout. `DetachCompletes`
therefore starts from the signal or from a disconnect.

### What the violations say
* `session_late_write`: `WriteBatchRequest` carries nothing that orders requests, so
  if the frontend finishes an RPC that timed out on the client, old contents may
  replace newer, acknowledged ones. It depends on the frontend, which is not part of
  the repository; in `Spec`, where the frontend drops what its client gave up, the
  property holds. The hazard of the late write is this run's; what `session` and the
  theorem add is that the client itself skips no block it has to write.
* `flush_past_deadline`: the deadline of a flush is looked at when a pass has failed, and
  a pass is as long as the session's retries. With the command's defaults (8 attempts of
  at most 5 s to connect and 5 s for the RPC, delays from 0.15 s to 2 s with a jitter of
  a fifth) one RPC may take about 90 s to fail, where the deadline is 20 s and the
  kernel's timeout 30 s (`src/src/main.rs:96`, `src/src/main.rs:105`); the RPCs before
  it in the pass may each have taken nearly as long and succeeded. `FlushBounded` is the
  bound that does hold.
* `attach_error_reply`: the text of a closed channel's error is sent to the kernel as
  the payload of a failed READ.
* `attach_silent_loss`: after a signal the engine loop may do the final flush itself,
  and drops its result; the process exits with success. The session prints a line for each
  attempt that failed (`src/src/session.rs:314`, `src/src/session.rs:335`), as it does for
  attempts that are made good; nothing says that the flush failed.

## 4. The proofs

Every invariant and every refinement that a passing run checks is proved for all values
of the constants, and so is the action property `NeverDropped`. Each proof has the same
form: an inductive invariant (`IInv`; `PathInv` of the request path is in the proof
module), one lemma for each action that it keeps it, and the properties from it. TLC checks
`IInv` too, on the instances of section 3; its first conjunct is `TypeOK`.

| Theorems of | Inductive invariant | Properties |
|---|---|---|
| `EngineProofs` | `TypeOK`, `BatchInDirty`, `ResultHonest`, `TaskInv` | `BatchInDirty`, `BatchIsLowestChunk`, `NeverDropped`, `AckedWriteBelowHighWater`, `ImplementsDevice` |
| `SessionProofs` | `ChunkInv`, `CallInv` and the properties | `FailedClientDropped`, `AcknowledgedChunksStored`, `LastWriteWins`, `ImplementsTransport` |
| `AttachProofs` | `OnePlace`, `EngineInv`, `HandleInv`, `AckedInv` | `OnePlace`, `AckedWritesVisible`, `FlushAckMeansStored`, `FinalFlushIsFinal`, `SuccessIsAfterDisconnect` |
| `FlushTimingProofs` | the budget | `FlushBounded` |
| `NbdStreamProofs` | `ServerInv`, `Layout` | `RepliesAreInStep`, `NoOkBehindText`, `ErrorMeansCut`, `CleanEndAnswersAll` |
| `CreateVolumeProofs` | `CommandInv`, `VolumeInv` | `CreatedIsAsAsked`, `CreatedOnce`, `SuccessMeansExists`, `VolumeWasAskedFor` |
| `RequestPathProofs` | `PathInv` | `ChecksAgree`, `AcceptedIsExact`, `RefusedForCause` |

Each of them has its `TypeOK` as well. `BlocksTheorems` has the facts about block maps
(`Overlay`, `Restricted`, `LowestKeys`) that the proofs about the engine, the session and
the attach process cite.

**Engine.** The assumptions are those of the modules: at least one block, a marker
that is no content, a chunk limit of at least one, a natural mark, and well-formed
requests. The inductive invariant is `IInv == TypeOK /\ BatchInDirty /\
ResultHonest /\ TaskInv`. `BatchInDirty` alone is not inductive: what makes an
accepted batch safe to remove is that a result of Ok stays true until it is taken
(`ResultHonest`), and what makes a read right is that its output is a copy of the
backend up to the cursor, which nothing changes meanwhile (`TaskInv`). From it follow
`EngineTypeCorrect`, `EngineBatchInDirty`, `EngineNeverDropped`, and step by step
the refinement `EngineImplementsDevice`, with `view` mapped to the dirty blocks over
the backend: `WriteBlocks` is a `TakeWrite` or an `AckWrite`, the transport's stores
are `Destage`, `BatchAccepted` is a stutter because the blocks it removes are stored,
`FlushSucceeds` is an `AckFlush` because nothing is left over the backend, `Restart`
is `PowerLoss`. `EngineAckedWriteBelowHighWater` has a second
invariant, `AckInv`, on top of `IInv`: the reply it speaks of is only there between two
requests.

`EngineBatchIsLowestChunk` needs that `LowestKeys(m, n)` is not empty, has at most n keys
and none above one that it leaves out. Its definition counts, for each key, the keys below
it (`Rank`); ranks of different keys differ (`RankGrows`), so the keys of rank below n are
mapped one to one into `0 .. n - 1`, and if fewer than n are taken, all are
(`FewOfLowRank`, `LowestKeysFacts`). This is counting by an injection, without induction.

**Session.** Assumed are a chunk of at least one block, and the configured attempts as any
natural: zero makes one, as in the code. The theorems are about `Spec`, in which the
frontend drops what its client gave up. The properties alone are not inductive: an
acknowledgement is worth something because the frontend has stored all of the chunk by
then (`ChunkInv`: what of the chunk in progress is not being stored is stored, and what is
being stored is of this chunk), and a failed call never touches what is acknowledged
because its blocks are taken out of `durable` when it starts. `CallInv` ties the place of the call to
its batch and its result. `SessionImplementsTransport` is by actions: a block stored is
`StoreBlocks`, the end of the last chunk or of the last attempt is the return of
the call, and every connect, timeout, sleep and retry is a stutter, also the death of a process
between two calls.

**Attach.** Assumed: finitely many handles, none of them the handle of DISC, and any subset
of the faults. `OnePlace` is the protocol: what the NBD thread waits for is in the
channel, in the engine's hands or in the oneshot, in exactly one of them, whichever thread
stops first. `EngineInv` says which request the engine has in hand at each place
of the loop, and that a flush answered Ok left `stable = view` for as long as nobody
writes. `HandleInv` says the requests on the wire have different handles and that the kernel waits for
them: without it a reply could free the handle of another request, and `acked` would
take a write for answered that is not. `AckedInv` follows a write and a flush from the
engine's answer to the kernel. `AttachFinalFlushIsFinal` and
`AttachSuccessIsAfterDisconnect` follow because a disconnect is only asked for when
the thread is `closing`, or when the loop has left its requests behind.

**Stream.** For any handles, lengths and number of requests. `Layout` gives the position on the stream where
each request without a reply begins, the first one where the server stands (before the
stream's head if a part of it is read), each next one behind the payload of the one
before, and behind the last at most a part of one more, which only a cut leaves. A read moves all positions
(`UnitsRead`), a send adds one, a reply takes the first away, and a cut in the k-th
request takes away the k-th and those behind it: `LostRequests` counts them by their
last units. The positions are counted: the k-th request begins behind as many units as the
requests before it have (`StartOf`, the number of pairs in `SentUnits`). A cardinality
instead of a recursion lets the run and the theorem name the same `IInv`: what a recursive
definition computes is out of the provers' reach, while `SentUnitsFacts` says what one
more request at either end adds. `RepliesAreInStep` allows for one kind of reply out of step, the
EIO of a read when the loop is gone (`closed`); `StreamNoOkBehindText` says that
nothing written behind it is an acknowledgement, because the loop does not come back.

**Volume creation.** For any commands and sizes. Assumed are that the server's own block size
fits the signed field, and that no explicit `request_id` is the default one of a command,
which is made of pid and time. `CommandInv`: what is on its way or was
answered is exactly what the command asks for. `VolumeInv`: the volume has the geometry of
a command and the `request_id` of that command, and who is told `created` has the same
`request_id`. So a command that made up its `request_id` finds the volume it asked for, and
one that was given it finds the volume of one of the commands that were given the same
(`SameId`): `CreatedIsAsAsked` says so, and no more can be said, because the arguments
of those may differ. Another command's abandoned request is never taken for the own one.

**Request path.** `PathInv` says what each check has established for the ones behind
it. The heart is `BlocksFit`: for multiples of the block size, what fits in bytes
fits in blocks. The widths are arbitrary constants, with the 32-bit maximum not above the 64-bit one.

**Flush timing.** `FlushIsBounded` is `FlushBounded` for every timeout, back-off,
jitter, deadline and number of dirty blocks; assumed is that these are naturals and that
there is at least one attempt. The bound alone is not inductive. `IInv` is a budget:
`clock + AttemptsLeft * AttemptBound <= Limit + Spent`, where `AttemptsLeft` counts the
attempts this pass may still make over all its RPCs, `AttemptBound` is a connect, an
RPC and the longest delay, and `Spent` is what the current attempt has behind it. A
success pays for the attempts it did not need, a pause is entered only before the
deadline, and a new pass starts with the whole budget. The products of variables
(`ProductMonotone`, `CostStep`) and the bound on the delays (`CappedBounded`,
`PercentMonotone`) are lemmas.

**Only model-checked.** Liveness (`Answered`, `CallReturns`, `DetachCompletes`,
`EveryRequestEnds`, `FlushReturns`, `CommandEnds`), which is out of reach of the prover,
and with it the fairness of section 3. What the runs that expect a violation find, among them
all of `LateSpec`.

## 5. Not modelled

Byte layouts and texts: in `NbdStream` a header is one unit. The ioctls of
`configure_device` one by one and `preflight`: they run before the first request, in
sequence, and a failure ends the attach (`NbdOpenFails`). Two attaches of one device
(`src/src/nbd.rs:308`) are told apart by the kernel's driver only. A volume has one
attached process (`src/DESIGN.md:72`); nothing in the code enforces it. Logging and its
counters, the command line (`main.rs` copies arguments), generated code. Geometry beyond
`RequestPath`: contents are whole blocks. A crash is in `Engine` and `Session`, not in
`Attach`. In `FlushTiming`, the time the scheduler and the code between two awaits
take, and the time of reads, which make the same attempts as one RPC.

## 6. Plan

Done, in this order: `Blocks`, `BackendTransport`, `BlockDevice`, `Engine`,
`EngineProofs`, `Session`, `Attach`, `RequestPath`, `RequestPathProofs`, `FlushTiming`
with `delay_for_attempt`, `FlushTimingProofs`, `Attach` with its faults, `NbdStream`,
`CreateVolume`.

Done in proof: the theorems of section 4, in the order `EngineProofs`,
`RequestPathProofs`, `FlushTimingProofs`, `SessionProofs`, `AttachProofs`,
`CreateVolumeProofs`, `BatchIsLowestChunk`, `NbdStreamProofs`.

Next:
1. Action properties worth stating: a retry of the session never sends a block that was
   acknowledged; the NBD thread never takes a second request from the wire before the
   first is answered or given up.
2. `LateSpec` with the condition under which `LastWriteWins` does hold (no RPC of an
   earlier call abandoned), as a theorem next to the violation.
3. The composition, as a theorem: the device of `Attach` with the engine of `Engine` in its place.
