----------------------------- MODULE FlushTiming -----------------------------
(***************************************************************************)
(* How long flush_with_deadline (src/engine.rs) may take over the retries  *)
(* of the session (src/session.rs).  Time is counted in ticks from the     *)
(* moment the flush starts; every wait of the code is one action that      *)
(* moves the clock by what the wait took, at most its timeout.  The dirty  *)
(* blocks are counted in RPCs: a batch of the engine is a whole number of  *)
(* the session's chunks.                                                   *)
(***************************************************************************)
EXTENDS Integers

CONSTANTS
  ConnectTimeout,      \* connect_timeout
  RpcTimeout,          \* rpc_timeout
  MaxAttempts,         \* retry.capped_attempts()
  InitialBackoff,      \* retry.initial_backoff
  MaxBackoff,          \* retry.max_backoff
  JitterPercent,       \* retry.jitter_ratio, in hundredths
  DurationMax,         \* Duration::MAX
  Deadline,            \* flush_retry_deadline
  RetryInterval,       \* flush_retry_interval
  RpcsPerBatch,        \* MAX_BLOCKS_PER_RPC / MAX_WRITES_PER_WRITE_BATCH_RPC
  MaxDirtyRpcs         \* bound: the dirty blocks, in RPCs

ASSUME TimesAssumption ==
  /\ ConnectTimeout \in Nat
  /\ RpcTimeout \in Nat
  /\ InitialBackoff \in Nat
  /\ MaxBackoff \in Nat
  /\ JitterPercent \in Nat
  /\ DurationMax \in Nat
  /\ Deadline \in Nat
  /\ RetryInterval \in Nat
ASSUME CountsAssumption ==
  /\ MaxAttempts \in Nat \ {0}
  /\ RpcsPerBatch \in Nat \ {0}
  /\ MaxDirtyRpcs \in Nat \ {0}

VARIABLES
  clock,      \* started.elapsed()
  dirty,      \* the RPCs the blocks in the cache need
  sent,       \* the RPCs of the current batch that were acknowledged
  connected,  \* client.is_some()
  attempt,    \* the attempt of the current RPC
  pc,         \* where the flush is
  result      \* what it returned

vars == <<clock, dirty, sent, connected, attempt, pc, result>>

AtMost(a, b) == IF a <= b THEN a ELSE b
AtLeast(a, b) == IF a >= b THEN a ELSE b
-----------------------------------------------------------------------------
(* RetryConfig::delay_for_attempt                                          *)

\* 1_u32 << shift, for the shifts that occur.
Multiplier ==
  <<1, 2, 4, 8, 16, 32, 64, 128, 256, 512, 1024, 2048, 4096>>

\* The exponential back-off of an attempt, with the cap on an overflow.
Exponential(n) ==
  LET product == InitialBackoff * Multiplier[AtMost(n, 13)]
  IN  IF product <= DurationMax THEN product ELSE MaxBackoff

Capped(n) == AtMost(Exponential(n), MaxBackoff)

\* Part per cent of a delay, a tick at least.
Percent(delay, part) == AtLeast((delay * part) \div 100, 1)

\* Faulty variant: the cap is forgotten.
DelaysUncapped(n) ==
  Percent(Exponential(n), AtLeast(100 - JitterPercent, 0))
    .. Percent(Exponential(n), 100 + JitterPercent)

\* The delays after attempt n: the jitter comes after the cap.
Delays(n) ==
  IF JitterPercent = 0
  THEN {Capped(n)}
  ELSE Percent(Capped(n), AtLeast(100 - JitterPercent, 0))
         .. Percent(Capped(n), 100 + JitterPercent)

\* The longest delay there is.
MaxDelay ==
  IF JitterPercent = 0 THEN MaxBackoff ELSE Percent(MaxBackoff, 100 + JitterPercent)
-----------------------------------------------------------------------------
Outcomes == {"ok", "retryable", "terminal"}

BatchSize == AtMost(dirty, RpcsPerBatch)

TypeOK ==
  /\ clock \in Nat
  /\ dirty \in 0 .. MaxDirtyRpcs
  /\ sent \in 0 .. RpcsPerBatch
  /\ connected \in BOOLEAN
  /\ attempt \in 1 .. MaxAttempts
  /\ pc \in {"connecting", "awaiting", "sleeping", "pausing", "returned"}
  /\ result \in Outcomes \cup {"none"}

\* The attach starts with a connected session and an empty cache.
Init ==
  /\ clock = 0
  /\ dirty = 0
  /\ sent = 0
  /\ connected = TRUE
  /\ attempt = 1
  /\ pc = "returned"
  /\ result = "none"

\* ensure_connected: a session that kept its client does not connect.
Where(isConnected) == IF isConnected THEN "awaiting" ELSE "connecting"

\* Faulty variant: the clock of an earlier flush goes on.
StartFlushLate ==
  /\ pc = "returned"
  /\ dirty' \in AtLeast(dirty, 1) .. MaxDirtyRpcs
  /\ connected' \in BOOLEAN
  /\ sent' = 0
  /\ attempt' = 1
  /\ pc' = Where(connected')
  /\ result' = "none"
  /\ UNCHANGED clock

\* flush_with_deadline begins, with blocks in the cache.  Since the last
\* flush writes filled it, and a read may have lost or made the connection.
StartFlush ==
  /\ pc = "returned"
  /\ dirty' \in AtLeast(dirty, 1) .. MaxDirtyRpcs
  /\ connected' \in BOOLEAN
  /\ clock' = 0
  /\ sent' = 0
  /\ attempt' = 1
  /\ pc' = Where(connected')
  /\ result' = "none"

ConnectSucceeds ==
  /\ pc = "connecting"
  /\ \E d \in 0 .. ConnectTimeout : clock' = clock + d
  /\ connected' = TRUE
  /\ pc' = "awaiting"
  /\ UNCHANGED <<dirty, sent, attempt, result>>

\* The deadline is looked at when a pass of flush_once has failed.
MayRetry(now) == now < Deadline

\* run_write_batch_rpc_with_retry returns an error, and with it the batch
\* and the pass.  flush_with_deadline pauses, or returns it.
PassFails(outcome) ==
  /\ sent' = 0
  /\ attempt' = 1
  /\ IF outcome = "retryable" /\ MayRetry(clock')
     THEN pc' = "pausing" /\ result' = result
     ELSE pc' = "returned" /\ result' = outcome
  /\ UNCHANGED dirty

\* Faulty variant: one attempt more than capped_attempts.
AttemptFailsOnceMore ==
  IF attempt <= MaxAttempts
  THEN pc' = "sleeping" /\ UNCHANGED <<dirty, sent, attempt, result>>
  ELSE PassFails("retryable")

\* An attempt failed as retryable: sleep before the next one, if there is one.
AttemptFails ==
  IF attempt < MaxAttempts
  THEN pc' = "sleeping" /\ UNCHANGED <<dirty, sent, attempt, result>>
  ELSE PassFails("retryable")

ConnectFails ==
  /\ pc = "connecting"
  /\ \E d \in 0 .. ConnectTimeout : clock' = clock + d
  /\ UNCHANGED connected
  /\ AttemptFails

\* Faulty variant: an accepted batch stays in the cache.
RpcSucceedsForgotten ==
  /\ pc = "awaiting"
  /\ \E d \in 0 .. RpcTimeout : clock' = clock + d
  /\ attempt' = 1
  /\ sent' = IF sent + 1 < BatchSize THEN sent + 1 ELSE 0
  /\ UNCHANGED <<dirty, connected, pc, result>>

\* The chunk is stored.  After the last one of a batch flush_once takes the
\* next batch; after the last batch the flush returns.
RpcSucceeds ==
  /\ pc = "awaiting"
  /\ \E d \in 0 .. RpcTimeout : clock' = clock + d
  /\ attempt' = 1
  /\ IF sent + 1 < BatchSize
     THEN sent' = sent + 1 /\ dirty' = dirty
     ELSE sent' = 0 /\ dirty' = dirty - BatchSize
  /\ IF dirty' > 0
     THEN UNCHANGED <<pc, result>>
     ELSE pc' = "returned" /\ result' = "ok"
  /\ UNCHANGED connected

\* An RPC answered with a status, or not within its timeout.
RpcFails ==
  /\ pc = "awaiting"
  /\ \E d \in 0 .. RpcTimeout : clock' = clock + d
  /\ connected' = FALSE
  /\ AttemptFails \/ PassFails("terminal")

SleepEnds ==
  /\ pc = "sleeping"
  /\ \E d \in Delays(attempt) : clock' = clock + d
  /\ attempt' = attempt + 1
  /\ pc' = Where(connected)
  /\ UNCHANGED <<dirty, sent, connected, result>>

PauseEnds ==
  /\ pc = "pausing"
  /\ clock' = clock + RetryInterval
  /\ pc' = Where(connected)
  /\ UNCHANGED <<dirty, sent, connected, attempt, result>>

FlushStep ==
  \/ ConnectSucceeds
  \/ ConnectFails
  \/ RpcSucceeds
  \/ RpcFails
  \/ SleepEnds
  \/ PauseEnds

Next == StartFlush \/ FlushStep

Spec == Init /\ [][Next]_vars

\* Every wait of a flush ends, by its timeout at the latest.
FairSpec == Spec /\ WF_vars(FlushStep)
-----------------------------------------------------------------------------
AttemptBound == ConnectTimeout + RpcTimeout + MaxDelay

\* One pass over n RPCs, each with all its attempts.
PassBound(n) == n * MaxAttempts * AttemptBound

Limit == Deadline + RetryInterval + PassBound(MaxDirtyRpcs)

\* A flush is over after the deadline, one pause and one whole pass: that
\* pass may begin just before the deadline and make every attempt for every
\* RPC of the cache, each with its timeouts and a delay whose jitter comes on
\* top of max_backoff.  Retries do not add up beyond that.
FlushBounded ==
  clock <= Limit

\* The inductive invariant: the clock, together with the longest the attempts
\* left of the pass can take, stays within the limit.  What the wait the flush
\* is in adds to that comes out of the current attempt.
InPass == pc \in {"connecting", "awaiting", "sleeping"}

AttemptsLeft == (dirty - sent) * MaxAttempts - (attempt - 1)

Spent ==
  IF pc = "connecting" THEN 0
  ELSE IF pc = "awaiting" THEN ConnectTimeout
  ELSE ConnectTimeout + RpcTimeout

IInv ==
  /\ TypeOK
  /\ InPass => /\ sent < BatchSize
               /\ clock + AttemptsLeft * AttemptBound <= Limit + Spent
  /\ pc = "sleeping" => attempt < MaxAttempts
  /\ pc = "pausing" => /\ dirty > 0 /\ sent = 0 /\ attempt = 1
                       /\ clock < Deadline
  /\ clock <= Limit

\* A flush returns although a retry may always fail again: each pass ends, and
\* the pauses take the clock to the deadline.  (With a retry interval of zero
\* it is the time the attempts take that does so.)
FlushReturns == pc # "returned" ~> pc = "returned"

\* A failing flush is over by its deadline, give or take the attempt the
\* deadline falls into (DESIGN.md, "if that fails by policy deadline").
FailsByDeadline ==
  pc = "returned" /\ result = "retryable" =>
    clock <= Deadline + RetryInterval + AttemptBound
=============================================================================
