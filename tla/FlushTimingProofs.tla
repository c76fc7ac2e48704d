-------------------------- MODULE FlushTimingProofs --------------------------
(***************************************************************************)
(* FlushBounded for every configuration: whatever the timeouts, the        *)
(* back-off, the jitter and the amount of dirty data are.                  *)
(***************************************************************************)
EXTENDS FlushTiming, TLAPS

-----------------------------------------------------------------------------
(* Products                                                                *)

LEMMA ProductNat ==
  ASSUME NEW a \in Nat, NEW c \in Nat
  PROVE  a * c \in Nat
OBVIOUS

LEMMA ProductMonotone ==
  ASSUME NEW a \in Nat, NEW b \in Nat, NEW c \in Nat, a <= b
  PROVE  a * c <= b * c
<1>1. (b - a) \in Nat
  OBVIOUS
<1>2. (b - a) * c \in Nat
  BY <1>1, ProductNat
<1>3. b * c = a * c + (b - a) * c
  OBVIOUS
<1>. QED
  BY <1>2, <1>3, ProductNat

LEMMA ProductSuccessor ==
  ASSUME NEW a \in Int, NEW c \in Int
  PROVE  (a + 1) * c = a * c + c
OBVIOUS

\* One more attempt costs what one attempt costs.
LEMMA CostStep ==
  ASSUME NEW a \in Nat, NEW b \in Nat, NEW c \in Nat, a + 1 <= b
  PROVE  a * c + c <= b * c
BY ProductMonotone, ProductSuccessor
-----------------------------------------------------------------------------
(* Delays                                                                  *)

LEMMA PercentMonotone ==
  ASSUME NEW a \in Nat, NEW b \in Nat, NEW part \in Nat, a <= b
  PROVE  /\ Percent(a, part) \in Nat
         /\ Percent(a, part) <= Percent(b, part)
<1>1. a * part \in Nat /\ b * part \in Nat /\ a * part <= b * part
  BY ProductNat, ProductMonotone
<1>. DEFINE x == a * part
            y == b * part
<1>2. x \in Nat /\ y \in Nat /\ x <= y
  BY <1>1
<1>. HIDE DEF x, y
<1>3. x \div 100 \in Nat /\ y \div 100 \in Nat /\ x \div 100 <= y \div 100
  BY <1>2
<1>4. Percent(a, part) = AtLeast(x \div 100, 1)
  BY DEF Percent, x
<1>5. Percent(b, part) = AtLeast(y \div 100, 1)
  BY DEF Percent, y
<1>. QED
  BY <1>3, <1>4, <1>5 DEF AtLeast

LEMMA CappedBounded ==
  ASSUME NEW n \in Nat \ {0}
  PROVE  Capped(n) \in Nat /\ Capped(n) <= MaxBackoff
<1>. DEFINE k == AtMost(n, 13)
<1>1. k \in 1 .. 13
  BY DEF AtMost
<1>2. Multiplier[k] \in Nat
  BY <1>1 DEF Multiplier
<1>3. InitialBackoff * Multiplier[k] \in Nat
  BY <1>2, ProductNat, TimesAssumption
<1>4. Exponential(n) \in Nat
  <2>. DEFINE product == InitialBackoff * Multiplier[k]
  <2>1. product \in Nat
    BY <1>3
  <2>2. Exponential(n) = IF product <= DurationMax THEN product ELSE MaxBackoff
    BY DEF Exponential
  <2>. HIDE DEF product
  <2>. QED
    BY <2>1, <2>2, TimesAssumption
<1>. QED
  BY <1>4, TimesAssumption DEF Capped, AtMost

LEMMA MaxDelayNat == MaxDelay \in Nat
BY PercentMonotone, TimesAssumption DEF MaxDelay

\* The jitter can take a delay over max_backoff, never over MaxDelay.
LEMMA DelaysBounded ==
  ASSUME NEW n \in Nat \ {0}, NEW d \in Delays(n)
  PROVE  d \in Nat /\ d <= MaxDelay
<1>1. Capped(n) \in Nat /\ Capped(n) <= MaxBackoff
  BY CappedBounded
<1>2. CASE JitterPercent = 0
  BY <1>1, <1>2 DEF Delays, MaxDelay
<1>3. CASE JitterPercent # 0
  <2>. DEFINE low == AtLeast(100 - JitterPercent, 0)
              high == 100 + JitterPercent
  <2>1. low \in Nat /\ high \in Nat
    BY TimesAssumption DEF AtLeast
  <2>2. d \in Percent(Capped(n), low) .. Percent(Capped(n), high)
    BY <1>3 DEF Delays
  <2>3. MaxDelay = Percent(MaxBackoff, high)
    BY <1>3 DEF MaxDelay
  <2>. HIDE DEF low, high
  <2>4. /\ Percent(Capped(n), low) \in Nat
        /\ Percent(Capped(n), high) \in Nat
        /\ Percent(Capped(n), high) <= Percent(MaxBackoff, high)
        /\ Percent(MaxBackoff, high) \in Nat
    <3>1. MaxBackoff \in Nat
      BY TimesAssumption
    <3>2. Percent(Capped(n), low) \in Nat
      <4>1. Capped(n) <= Capped(n)
        BY <1>1
      <4>. QED
        BY <1>1, <2>1, <4>1, PercentMonotone
    <3>3. /\ Percent(Capped(n), high) \in Nat
          /\ Percent(Capped(n), high) <= Percent(MaxBackoff, high)
      BY <1>1, <2>1, <3>1, PercentMonotone
    <3>4. Percent(MaxBackoff, high) \in Nat
      BY <2>1, <3>1, PercentMonotone
    <3>. QED
      BY <3>2, <3>3, <3>4
  <2>. QED
    BY <2>2, <2>3, <2>4
<1>. QED
  BY <1>2, <1>3
LEMMA AttemptBoundNat == AttemptBound \in Nat
BY MaxDelayNat, TimesAssumption DEF AttemptBound
-----------------------------------------------------------------------------
(* The budget of a flush                                                   *)

LEMMA LimitNat == Limit \in Nat
<1>1. MaxDirtyRpcs * MaxAttempts \in Nat
  BY ProductNat, CountsAssumption
<1>2. PassBound(MaxDirtyRpcs) \in Nat
  BY <1>1, ProductNat, AttemptBoundNat DEF PassBound
<1>. QED
  BY <1>2, TimesAssumption DEF Limit

\* What a pass over at most the whole cache may cost.
LEMMA PassCost ==
  ASSUME NEW n \in Nat, n <= MaxDirtyRpcs
  PROVE  /\ n * MaxAttempts \in Nat
         /\ (n * MaxAttempts) * AttemptBound \in Nat
         /\ Deadline + RetryInterval + (n * MaxAttempts) * AttemptBound <= Limit
<1>1. /\ MaxAttempts \in Nat
      /\ MaxDirtyRpcs \in Nat
  BY CountsAssumption
<1>2. /\ n * MaxAttempts \in Nat
      /\ MaxDirtyRpcs * MaxAttempts \in Nat
      /\ n * MaxAttempts <= MaxDirtyRpcs * MaxAttempts
  BY <1>1, ProductNat, ProductMonotone
<1>3. /\ (n * MaxAttempts) * AttemptBound \in Nat
      /\ (MaxDirtyRpcs * MaxAttempts) * AttemptBound \in Nat
      /\ (n * MaxAttempts) * AttemptBound <= (MaxDirtyRpcs * MaxAttempts) * AttemptBound
  BY <1>2, ProductNat, ProductMonotone, AttemptBoundNat
<1>. QED
  BY <1>2, <1>3, TimesAssumption DEF Limit, PassBound

\* The attempts left while the flush is in a pass.
LEMMA AttemptsLeftPositive ==
  ASSUME TypeOK, InPass, sent < dirty
  PROVE  /\ AttemptsLeft \in Nat
         /\ (dirty - (sent + 1)) * MaxAttempts \in Nat
         /\ (dirty - (sent + 1)) * MaxAttempts + 1 <= AttemptsLeft
         /\ AttemptsLeft <= dirty * MaxAttempts
<1>1. /\ dirty - (sent + 1) \in Nat
      /\ MaxAttempts \in Nat
      /\ dirty \in Nat /\ sent \in Nat
  BY CountsAssumption DEF TypeOK
<1>2. (dirty - (sent + 1)) * MaxAttempts \in Nat
  BY <1>1, ProductNat
<1>3. (dirty - sent) * MaxAttempts = (dirty - (sent + 1)) * MaxAttempts + MaxAttempts
  BY <1>1, ProductSuccessor
<1>4. (dirty - sent) * MaxAttempts <= dirty * MaxAttempts
  BY <1>1, ProductMonotone
<1>5. dirty * MaxAttempts \in Nat
  BY <1>1, ProductNat
<1>. QED
  BY <1>1, <1>2, <1>3, <1>4, <1>5 DEF AttemptsLeft, TypeOK
-----------------------------------------------------------------------------
(* The invariant is inductive                                              *)

LEMMA InitInvariant == Init => IInv
BY LimitNat, CountsAssumption DEF Init, IInv, TypeOK, InPass, Outcomes

\* Where a pass starts over n RPCs at a time that leaves room for it.
LEMMA PassStarts ==
  ASSUME TypeOK', InPass', dirty' > 0, sent' = 0, attempt' = 1, pc' # "sleeping",
         clock' <= Deadline + RetryInterval
  PROVE  IInv'
<1>1. dirty' \in Nat /\ dirty' <= MaxDirtyRpcs
  BY CountsAssumption DEF TypeOK
<1>2. AttemptsLeft' = dirty' * MaxAttempts
  <2>1. dirty' * MaxAttempts \in Nat
    BY <1>1, ProductNat, CountsAssumption
  <2>. QED
    BY <1>1, <2>1 DEF AttemptsLeft
<1>3. /\ (dirty' * MaxAttempts) * AttemptBound \in Nat
      /\ Deadline + RetryInterval + (dirty' * MaxAttempts) * AttemptBound <= Limit
  BY <1>1, PassCost
<1>4. clock' \in Nat /\ Spent' \in Nat
  BY TimesAssumption DEF TypeOK, Spent
<1>5. clock' + AttemptsLeft' * AttemptBound <= Limit
  BY <1>2, <1>3, <1>4, LimitNat, TimesAssumption
<1>6. sent' < BatchSize'
  BY <1>1, CountsAssumption DEF BatchSize, AtMost
<1>. QED
  BY <1>2, <1>3, <1>4, <1>5, <1>6, LimitNat, TimesAssumption DEF IInv, InPass

\* The budget of a pass, with one attempt in hand.
LEMMA InPassFacts ==
  ASSUME IInv, InPass
  PROVE  /\ sent < dirty /\ sent + 1 <= RpcsPerBatch
         /\ AttemptsLeft \in Nat /\ AttemptsLeft >= 1
         /\ AttemptsLeft * AttemptBound \in Nat
         /\ AttemptsLeft * AttemptBound >= AttemptBound
         /\ clock + AttemptsLeft * AttemptBound <= Limit + Spent
         /\ Spent \in Nat
<1>1. sent < BatchSize /\ TypeOK
  BY DEF IInv
<1>2. sent < dirty /\ sent + 1 <= RpcsPerBatch
  BY <1>1, CountsAssumption DEF BatchSize, AtMost, TypeOK
<1>3. AttemptsLeft \in Nat /\ AttemptsLeft >= 1
  BY <1>1, <1>2, AttemptsLeftPositive
<1>4. AttemptsLeft * AttemptBound \in Nat
  BY <1>3, ProductNat, AttemptBoundNat
<1>5. 1 * AttemptBound <= AttemptsLeft * AttemptBound
  BY <1>3, ProductMonotone, AttemptBoundNat
<1>. QED
  BY <1>2, <1>3, <1>4, <1>5, AttemptBoundNat, TimesAssumption DEF IInv, Spent

\* The pass has failed after a wait that kept the clock within the limit.
LEMMA PassFailsPreserves ==
  ASSUME IInv, InPass, NEW outcome \in Outcomes, PassFails(outcome),
         clock' \in Nat, clock' <= Limit, connected' \in BOOLEAN
  PROVE  IInv'
<1>1. dirty' > 0 /\ dirty' \in 0 .. MaxDirtyRpcs
  BY InPassFacts DEF IInv, TypeOK, PassFails
<1>2. TypeOK'
  BY <1>1, CountsAssumption DEF IInv, TypeOK, PassFails
<1>. QED
  BY <1>1, <1>2 DEF IInv, PassFails, MayRetry, InPass

\* An attempt has failed within its timeouts.
LEMMA AttemptFailsPreserves ==
  ASSUME IInv, InPass, pc # "sleeping", AttemptFails, connected' \in BOOLEAN,
         clock' \in Nat,
         clock' + AttemptsLeft * AttemptBound <= Limit + ConnectTimeout + RpcTimeout
  PROVE  IInv'
<1>1. clock' <= Limit
  BY InPassFacts, AttemptBoundNat, LimitNat, MaxDelayNat, TimesAssumption DEF AttemptBound
<1>2. CASE attempt < MaxAttempts
  <2>1. /\ pc' = "sleeping" /\ dirty' = dirty /\ sent' = sent
        /\ attempt' = attempt /\ result' = result
    BY <1>2 DEF AttemptFails
  <2>2. TypeOK'
    BY <2>1 DEF IInv, TypeOK
  <2>3. AttemptsLeft' = AttemptsLeft /\ BatchSize' = BatchSize
    BY <2>1 DEF AttemptsLeft, BatchSize
  <2>4. Spent' = ConnectTimeout + RpcTimeout
    BY <2>1 DEF Spent
  <2>5. sent' < BatchSize'
    BY <2>1, <2>3 DEF IInv
  <2>6. clock' + AttemptsLeft' * AttemptBound <= Limit + Spent'
    BY <2>3, <2>4, InPassFacts, LimitNat, TimesAssumption
  <2>. QED
    BY <1>1, <1>2, <2>1, <2>2, <2>5, <2>6 DEF IInv
<1>3. CASE ~(attempt < MaxAttempts)
  BY <1>1, <1>3, PassFailsPreserves DEF AttemptFails, Outcomes
<1>. QED
  BY <1>2, <1>3

LEMMA StartPreserves == ASSUME IInv, StartFlush PROVE IInv'
<1>1. dirty' \in 1 .. MaxDirtyRpcs
  BY CountsAssumption DEF StartFlush, AtLeast, IInv, TypeOK
<1>2. TypeOK'
  BY <1>1, CountsAssumption DEF StartFlush, TypeOK, Where
<1>. QED
  BY <1>1, <1>2, PassStarts, TimesAssumption DEF StartFlush, Where, InPass

LEMMA PausePreserves == ASSUME IInv, PauseEnds PROVE IInv'
<1>1. TypeOK'
  BY TimesAssumption DEF PauseEnds, IInv, TypeOK, Where
<1>. QED
  BY <1>1, PassStarts, TimesAssumption DEF PauseEnds, IInv, TypeOK, Where, InPass

LEMMA ConnectSucceedsPreserves == ASSUME IInv, ConnectSucceeds PROVE IInv'
<1>1. InPass
  BY DEF ConnectSucceeds, InPass
<1>2. PICK d \in 0 .. ConnectTimeout : clock' = clock + d
  BY DEF ConnectSucceeds
<1>3. TypeOK'
  BY <1>2, TimesAssumption DEF ConnectSucceeds, IInv, TypeOK
<1>4. AttemptsLeft' = AttemptsLeft /\ BatchSize' = BatchSize
  BY DEF ConnectSucceeds, AttemptsLeft, BatchSize
<1>5. clock + AttemptsLeft * AttemptBound <= Limit
  BY <1>1, InPassFacts, LimitNat, TimesAssumption DEF ConnectSucceeds, Spent
<1>6. clock' + AttemptsLeft * AttemptBound <= Limit + ConnectTimeout
  BY <1>1, <1>2, <1>5, InPassFacts, LimitNat, TimesAssumption DEF IInv, TypeOK
<1>7. clock' <= Limit
  BY <1>1, <1>3, <1>6, InPassFacts, AttemptBoundNat, LimitNat, MaxDelayNat,
     TimesAssumption DEF AttemptBound, TypeOK
<1>8. Spent' = ConnectTimeout
  BY DEF ConnectSucceeds, Spent
<1>9. sent' < BatchSize'
  BY <1>1, <1>4 DEF ConnectSucceeds, IInv
<1>. QED
  BY <1>3, <1>4, <1>6, <1>7, <1>8, <1>9 DEF ConnectSucceeds, IInv

LEMMA ConnectFailsPreserves == ASSUME IInv, ConnectFails PROVE IInv'
<1>1. InPass /\ pc # "sleeping"
  BY DEF ConnectFails, InPass
<1>2. PICK d \in 0 .. ConnectTimeout : clock' = clock + d
  BY DEF ConnectFails
<1>3. clock' \in Nat /\ connected' \in BOOLEAN
  BY <1>2, TimesAssumption DEF ConnectFails, IInv, TypeOK
<1>4. clock' + AttemptsLeft * AttemptBound <= Limit + ConnectTimeout + RpcTimeout
  BY <1>1, <1>2, InPassFacts, LimitNat, TimesAssumption
     DEF ConnectFails, IInv, TypeOK, Spent
<1>. QED
  BY <1>1, <1>3, <1>4, AttemptFailsPreserves DEF ConnectFails

LEMMA RpcFailsPreserves == ASSUME IInv, RpcFails PROVE IInv'
<1>1. InPass /\ pc # "sleeping"
  BY DEF RpcFails, InPass
<1>2. PICK d \in 0 .. RpcTimeout : clock' = clock + d
  BY DEF RpcFails
<1>3. clock' \in Nat /\ connected' \in BOOLEAN
  <2>1. clock \in Nat
    BY DEF IInv, TypeOK
  <2>2. clock' \in Nat
    BY <1>2, <2>1, TimesAssumption
  <2>3. connected' \in BOOLEAN
    BY DEF RpcFails
  <2>. QED
    BY <2>2, <2>3
<1>4. clock' + AttemptsLeft * AttemptBound <= Limit + ConnectTimeout + RpcTimeout
  BY <1>1, <1>2, InPassFacts, LimitNat, TimesAssumption
     DEF RpcFails, IInv, TypeOK, Spent
<1>5. CASE AttemptFails
  BY <1>1, <1>3, <1>4, <1>5, AttemptFailsPreserves
<1>6. CASE PassFails("terminal")
  <2>1. clock' <= Limit
    BY <1>1, <1>3, <1>4, InPassFacts, AttemptBoundNat, LimitNat, MaxDelayNat,
       TimesAssumption DEF AttemptBound
  <2>. QED
    BY <1>1, <1>3, <1>6, <2>1, PassFailsPreserves DEF Outcomes
<1>. QED
  BY <1>5, <1>6 DEF RpcFails

LEMMA SleepPreserves == ASSUME IInv, SleepEnds PROVE IInv'
<1>1. InPass /\ attempt < MaxAttempts /\ attempt \in Nat \ {0} /\ clock \in Nat
  BY CountsAssumption DEF SleepEnds, InPass, IInv, TypeOK
<1>2. PICK d \in Delays(attempt) : clock' = clock + d
  BY DEF SleepEnds
<1>3. d \in Nat /\ d <= MaxDelay
  BY <1>1, DelaysBounded
<1>4. TypeOK'
  BY <1>1, <1>2, <1>3, CountsAssumption DEF SleepEnds, IInv, TypeOK, Where
<1>5. AttemptsLeft' = AttemptsLeft - 1
  <2>1. (dirty - sent) * MaxAttempts \in Int
    BY CountsAssumption DEF IInv, TypeOK
  <2>. QED
    BY <1>1, <2>1 DEF SleepEnds, AttemptsLeft
<1>6. sent < dirty /\ sent' = sent /\ dirty' = dirty
  BY <1>1, InPassFacts DEF SleepEnds
<1>7. AttemptsLeft' \in Nat
  BY <1>1, <1>5, InPassFacts
<1>8. AttemptsLeft' * AttemptBound + AttemptBound <= AttemptsLeft * AttemptBound
  BY <1>1, <1>5, <1>7, InPassFacts, CostStep, AttemptBoundNat
<1>9. AttemptsLeft' * AttemptBound \in Nat
  BY <1>7, ProductNat, AttemptBoundNat
<1>10. Spent = ConnectTimeout + RpcTimeout
  BY DEF SleepEnds, Spent
<1>11. clock' + AttemptsLeft' * AttemptBound <= Limit
  BY <1>1, <1>2, <1>3, <1>8, <1>9, <1>10, InPassFacts, AttemptBoundNat, LimitNat,
     MaxDelayNat, TimesAssumption DEF AttemptBound
<1>12. Spent' \in Nat
  BY TimesAssumption DEF Spent
<1>13. sent' < BatchSize'
  BY <1>1, <1>6 DEF IInv, BatchSize
<1>14. pc' \notin {"sleeping", "pausing"}
  BY DEF SleepEnds, Where
<1>. QED
  BY <1>4, <1>9, <1>11, <1>12, <1>13, <1>14, LimitNat DEF IInv, TypeOK

LEMMA RpcSucceedsPreserves == ASSUME IInv, RpcSucceeds PROVE IInv'
<1>1. InPass /\ TypeOK /\ clock \in Nat
  BY DEF RpcSucceeds, InPass, IInv, TypeOK
<1>2. PICK d \in 0 .. RpcTimeout : clock' = clock + d
  BY DEF RpcSucceeds
<1>3. /\ sent < dirty /\ sent < BatchSize
      /\ BatchSize \in Nat /\ BatchSize <= dirty /\ BatchSize <= RpcsPerBatch
      /\ dirty \in Nat /\ sent \in Nat /\ dirty <= MaxDirtyRpcs
  BY <1>1, InPassFacts, CountsAssumption DEF IInv, TypeOK, BatchSize, AtMost
<1>. DEFINE left == (dirty - (sent + 1)) * MaxAttempts
<1>4. /\ left \in Nat
      /\ left * AttemptBound \in Nat
      /\ left * AttemptBound + AttemptBound <= AttemptsLeft * AttemptBound
  <2>1. left \in Nat /\ left + 1 <= AttemptsLeft /\ AttemptsLeft \in Nat
    BY <1>1, <1>3, AttemptsLeftPositive
  <2>. HIDE DEF left
  <2>. QED
    BY <2>1, CostStep, ProductNat, AttemptBoundNat
<1>5. /\ dirty' - sent' = dirty - (sent + 1)
      /\ dirty' \in 0 .. MaxDirtyRpcs /\ sent' \in 0 .. RpcsPerBatch
      /\ dirty' > 0 => sent' < BatchSize'
  <2>1. CASE sent + 1 < BatchSize
    <3>1. sent' = sent + 1 /\ dirty' = dirty
      BY <2>1 DEF RpcSucceeds
    <3>2. BatchSize' = BatchSize
      BY <3>1 DEF BatchSize
    <3>. QED
      BY <1>3, <2>1, <3>1, <3>2, CountsAssumption
  <2>2. CASE ~(sent + 1 < BatchSize)
    <3>1. sent' = 0 /\ dirty' = dirty - BatchSize
      BY <2>2 DEF RpcSucceeds
    <3>2. BatchSize = sent + 1
      BY <1>3, <2>2
    <3>3. dirty' > 0 => BatchSize' > 0
      BY CountsAssumption DEF BatchSize, AtMost
    <3>. QED
      BY <1>3, <3>1, <3>2, <3>3, CountsAssumption
  <2>. QED
    BY <2>1, <2>2
<1>6. clock' \in Nat /\ attempt' = 1 /\ connected' = connected
  BY <1>1, <1>2, TimesAssumption DEF RpcSucceeds
<1>7. AttemptsLeft' = left
  <2>1. (dirty' - sent') * MaxAttempts = left
    <3>1. dirty' - sent' = dirty - (sent + 1)
      BY <1>5
    <3>. QED
      BY <3>1, Zenon
  <2>2. AttemptsLeft' = (dirty' - sent') * MaxAttempts - (1 - 1)
    BY <1>6 DEF AttemptsLeft
  <2>. HIDE DEF left
  <2>. QED
    BY <1>4, <2>1, <2>2
<1>. HIDE DEF left
<1>8. clock' + left * AttemptBound <= Limit
  <2>1. Spent = ConnectTimeout
    BY DEF RpcSucceeds, Spent
  <2>. QED
    BY <1>1, <1>2, <1>4, <2>1, InPassFacts, AttemptBoundNat, LimitNat, MaxDelayNat,
       TimesAssumption DEF AttemptBound
<1>9. clock' <= Limit
  BY <1>4, <1>6, <1>8, LimitNat
<1>10. CASE dirty' > 0
  <2>1. pc' = "awaiting" /\ result' = result
    BY <1>10 DEF RpcSucceeds
  <2>2. TypeOK'
    BY <1>1, <1>5, <1>6, <2>1, CountsAssumption DEF TypeOK
  <2>3. Spent' = ConnectTimeout
    BY <2>1 DEF Spent
  <2>4. clock' + AttemptsLeft' * AttemptBound <= Limit + Spent'
    BY <1>4, <1>6, <1>7, <1>8, <2>3, LimitNat, TimesAssumption
  <2>. QED
    BY <1>5, <1>9, <1>10, <2>1, <2>2, <2>4 DEF IInv
<1>11. CASE ~(dirty' > 0)
  <2>1. pc' = "returned" /\ result' = "ok"
    BY <1>11 DEF RpcSucceeds
  <2>2. TypeOK'
    BY <1>1, <1>5, <1>6, <2>1, CountsAssumption DEF TypeOK, Outcomes
  <2>. QED
    BY <1>9, <2>1, <2>2 DEF IInv, InPass
<1>. QED
  BY <1>10, <1>11

LEMMA StutterPreserves == ASSUME IInv, UNCHANGED vars PROVE IInv'
BY DEF vars, IInv, TypeOK, InPass, AttemptsLeft, Spent, BatchSize

LEMMA StepPreserves == ASSUME IInv, [Next]_vars PROVE IInv'
BY StartPreserves, ConnectSucceedsPreserves, ConnectFailsPreserves, RpcSucceedsPreserves,
   RpcFailsPreserves, SleepPreserves, PausePreserves, StutterPreserves DEF Next, FlushStep
-----------------------------------------------------------------------------
\* The inductive invariant holds for every configuration.
THEOREM TimingInvariant == Spec => []IInv
BY InitInvariant, StepPreserves, PTL DEF Spec

\* flush_with_deadline returns within its deadline, one pause and one pass
\* with all its attempts, for every timeout, back-off, jitter and amount of
\* dirty data: the retries of flush_with_deadline and those of the session
\* under them add up no further.
THEOREM FlushIsBounded == Spec => []FlushBounded
<1>1. IInv => FlushBounded
  BY DEF IInv, FlushBounded
<1>. QED
  BY <1>1, TimingInvariant, PTL

\* Every variable has its type: the attempts and the RPCs of a batch stay
\* within their bounds.
THEOREM FlushTypeCorrect == Spec => []TypeOK
<1>1. IInv => TypeOK
  BY DEF IInv
<1>. QED
  BY <1>1, TimingInvariant, PTL
=============================================================================
