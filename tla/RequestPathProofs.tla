-------------------------- MODULE RequestPathProofs --------------------------
(***************************************************************************)
(* Proofs about RequestPath, for every width of the integers: the three    *)
(* range checks agree, an accepted request is exact, and a request is only *)
(* refused for cause.                                                      *)
(***************************************************************************)
EXTENDS RequestPath, TLAPS

\* A multiple is its quotient times the divisor, and no quotient is larger.
LEMMA Quotient ==
  ASSUME NEW a \in Nat, NEW b \in Nat, b # 0
  PROVE  /\ a \div b \in Nat
         /\ a % b = 0 => (a \div b) * b = a
         /\ a \div b <= a
  BY SMT

\* Whole numbers of blocks: what fits in bytes fits in blocks.
LEMMA BlocksFit ==
  ASSUME NEW o \in Nat, NEW n \in Nat, NEW s \in Nat, NEW b \in Nat, b # 0,
         o % b = 0, n % b = 0, s % b = 0, o + n <= s
  PROVE  (o \div b) + (n \div b) <= s \div b
  BY SMT

\* A multiple leaves no rest.
LEMMA NoRest ==
  ASSUME NEW q \in Nat, NEW b \in Nat, b # 0
  PROVE  (q * b) % b = 0
  BY SMT

\* Blocks that fit in the volume fit in its bytes.
LEMMA BytesFit ==
  ASSUME NEW l \in Nat, NEW n \in Nat, NEW t \in Nat, NEW b \in Nat, l + n <= t
  PROVE  l * b + n * b <= t * b
  BY SMT

-----------------------------------------------------------------------------
(* What each check leaves for the ones that follow it.                     *)

Opened == GeometryValid /\ totalBlocks = size \div blockSize

Translated ==
  startLba = offset \div blockSize /\ count = length \div blockSize

PathInv ==
  /\ TypeOK
  /\ stage \notin {"open", "refused"} => Opened
  /\ stage \in {"bridge", "engine", "accepted"} => NbdRangeValid
  /\ stage \in {"engine", "accepted"} => Translated
  /\ stage # "refused" => refusedBy = "none"
  /\ stage = "refused" =>
       \/ refusedBy = "open"
       \/ refusedBy = "nbd" /\ Opened /\ ~NbdRangeValid

\* Before the volume is opened nothing is claimed but the types.
LEMMA PathInit == Init => PathInv
<1>1. SUFFICES ASSUME Init PROVE PathInv
  OBVIOUS
<1>2. 0 \in 0 .. U64Max /\ 0 \in 0 .. U32Max
  BY WidthsAssumption
<1>3. TypeOK
  BY <1>1, <1>2 DEF Init, TypeOK, Stages
<1>4. QED
  BY <1>1, <1>3 DEF Init, PathInv

\* The length and the offset of a request that passed NbdRangeValid, in blocks.
LEMMA InBlocks ==
  ASSUME TypeOK, Opened, NbdRangeValid
  PROVE  /\ offset \div blockSize \in 0 .. U64Max
         /\ length \div blockSize \in 1 .. U32Max
         /\ (offset \div blockSize) + (length \div blockSize) <= totalBlocks
         /\ (offset \div blockSize) * blockSize = offset
         /\ (length \div blockSize) * blockSize = length
<1>1. /\ offset \in Nat /\ length \in Nat /\ size \in Nat
      /\ blockSize \in Nat /\ blockSize # 0 /\ length # 0
  BY WidthsAssumption DEF TypeOK, Opened, GeometryValid, NbdRangeValid
<1>2. /\ offset % blockSize = 0 /\ length % blockSize = 0
      /\ size % blockSize = 0 /\ offset + length <= size
  BY DEF Opened, GeometryValid, NbdRangeValid, IsMultiple, Fits
<1>3. (offset \div blockSize) + (length \div blockSize) <= totalBlocks
  BY <1>1, <1>2, BlocksFit DEF Opened
<1>4. /\ offset \div blockSize \in Nat
      /\ (offset \div blockSize) * blockSize = offset
      /\ offset \div blockSize <= offset
  BY <1>1, <1>2, Quotient
<1>5. /\ length \div blockSize \in Nat
      /\ (length \div blockSize) * blockSize = length
      /\ length \div blockSize <= length
  BY <1>1, <1>2, Quotient
<1>6. length \div blockSize # 0
  <2> DEFINE q == length \div blockSize
  <2>1. SUFFICES ASSUME q = 0 PROVE FALSE
    OBVIOUS
  <2>2. q * blockSize = length
    BY <1>5
  <2> HIDE DEF q
  <2>3. QED
    BY <1>1, <2>1, <2>2
<1>7. QED
  BY <1>1, <1>3, <1>4, <1>5, <1>6, WidthsAssumption DEF TypeOK

\* Every check leaves what PathInv says of it.
LEMMA PathNext == PathInv /\ [Next]_vars => PathInv'
<1>1. SUFFICES ASSUME PathInv, [Next]_vars PROVE PathInv'
  OBVIOUS
<1>2. CASE OpenGeometry
  <2>1. CASE GeometryValid
    <3>1. size \in Nat /\ blockSize \in Nat /\ blockSize # 0 /\ size <= U64Max
      BY <1>1, <2>1, WidthsAssumption DEF PathInv, TypeOK, GeometryValid
    <3>2. size \div blockSize \in 0 .. U64Max
      BY <3>1, Quotient, WidthsAssumption
    <3>3. TypeOK'
      BY <1>1, <1>2, <2>1, <3>2 DEF OpenGeometry, PathInv, TypeOK, Stages
    <3>4. QED
      BY <1>1, <1>2, <2>1, <3>3
      DEF OpenGeometry, PathInv, GeometryValid, Opened
  <2>2. CASE ~GeometryValid
    BY <1>1, <1>2, <2>2 DEF OpenGeometry, RefuseBy, PathInv, TypeOK, Stages
  <2>3. QED
    BY <2>1, <2>2
<1>3. CASE NbdValidates
  BY <1>1, <1>3
  DEF NbdValidates, RefuseBy, PathInv, TypeOK, Stages, Opened, GeometryValid,
      NbdRangeValid, Fits
<1>4. CASE BridgeTranslates
  <2>1. TypeOK /\ Opened /\ NbdRangeValid /\ stage = "bridge"
    BY <1>1, <1>4 DEF BridgeTranslates, PathInv
  <2>2. Translatable
    BY <2>1, InBlocks DEF Translatable, NbdRangeValid, Opened, GeometryValid
  <2>3. TypeOK'
    <3>1. /\ offset \div blockSize \in 0 .. U64Max
          /\ length \div blockSize \in 0 .. U32Max
      BY <2>1, InBlocks
    <3>2. QED
      BY <1>4, <2>1, <2>2, <3>1 DEF BridgeTranslates, TypeOK, Stages
  <2>4. Translated' /\ stage' = "engine" /\ refusedBy' = refusedBy
    BY <1>4, <2>2 DEF BridgeTranslates, Translated
  <2>5. Opened' /\ NbdRangeValid'
    BY <1>4, <2>1
    DEF BridgeTranslates, Opened, GeometryValid, NbdRangeValid, Fits
  <2>6. QED
    BY <1>1, <2>1, <2>3, <2>4, <2>5 DEF PathInv
<1>5. CASE EngineChecks
  <2>1. TypeOK /\ Opened /\ NbdRangeValid /\ Translated /\ stage = "engine"
    BY <1>1, <1>5 DEF EngineChecks, PathInv
  <2>2. EngineRangeValid
    <3>1. /\ startLba + count <= totalBlocks /\ count # 0
          /\ count = length \div blockSize
      BY <2>1, InBlocks DEF Translated
    <3>2. startLba + count <= U64Max
      BY <2>1, <3>1, WidthsAssumption DEF TypeOK
    <3>3. length # 0 /\ IsMultiple(length, blockSize)
      BY <2>1 DEF NbdRangeValid
    <3>4. QED
      BY <3>1, <3>2, <3>3 DEF EngineRangeValid, Fits
  <2>3. QED
    BY <1>1, <1>5, <2>1, <2>2
    DEF EngineChecks, PathInv, TypeOK, Stages, Opened, GeometryValid,
        NbdRangeValid, Fits, Translated
<1>6. CASE Done
  BY <1>1, <1>6
  DEF Done, vars, PathInv, TypeOK, Opened, GeometryValid, NbdRangeValid, Fits,
      Translated
<1>7. CASE UNCHANGED vars
  BY <1>1, <1>7
  DEF vars, PathInv, TypeOK, Opened, GeometryValid, NbdRangeValid, Fits,
      Translated
<1>8. QED
  BY <1>1, <1>2, <1>3, <1>4, <1>5, <1>6, <1>7 DEF Next

\* The invariant of the request path: what a check has established is still
\* true at every check after it, up to the engine (ensure_range).
THEOREM PathInvariant == Spec => []PathInv
  BY PathInit, PathNext, PTL DEF Spec

\* No request that validate_range lets through is refused by offset_len_to_lba
\* or by the engine's own checks.
THEOREM PathChecksAgree == Spec => []ChecksAgree
<1>1. PathInv => ChecksAgree
  BY DEF PathInv, ChecksAgree
<1>2. QED
  BY <1>1, PathInvariant, PTL

\* The blocks the engine serves are the bytes the kernel named, and they are
\* blocks of the volume.
THEOREM PathAcceptedIsExact == Spec => []AcceptedIsExact
<1>1. PathInv => AcceptedIsExact
  BY InBlocks DEF PathInv, Translated, AcceptedIsExact
<1>2. QED
  BY <1>1, PathInvariant, PTL

\* A request for whole blocks of the volume is not refused.
THEOREM PathRefusedForCause == Spec => []RefusedForCause
<1>1. PathInv => RefusedForCause
  <2>1. SUFFICES ASSUME PathInv, stage = "refused", refusedBy # "open",
                        NEW l \in 0 .. totalBlocks, NEW n \in 1 .. totalBlocks,
                        offset = l * blockSize, length = n * blockSize,
                        l + n <= totalBlocks
                 PROVE  FALSE
    BY DEF RefusedForCause
  <2>2. TypeOK /\ Opened /\ ~NbdRangeValid
    BY <2>1 DEF PathInv
  <2>3. /\ size \in Nat /\ size <= U64Max /\ size % blockSize = 0
        /\ blockSize \in Nat /\ blockSize # 0 /\ totalBlocks \in Nat
        /\ l \in Nat /\ n \in Nat /\ n # 0
    BY <2>1, <2>2, WidthsAssumption DEF TypeOK, Opened, GeometryValid, IsMultiple
  <2>4. totalBlocks * blockSize = size
    BY <2>2, <2>3, Quotient DEF Opened
  <2>5. offset + length <= size
    BY <2>1, <2>3, <2>4, BytesFit
  <2>6. IsMultiple(offset, blockSize) /\ IsMultiple(length, blockSize)
    BY <2>1, <2>3, NoRest DEF IsMultiple
  <2>7. length # 0
    BY <2>1, <2>3
  <2>8. Fits(offset, length, size)
    BY <2>2, <2>3, <2>5, WidthsAssumption DEF Fits, TypeOK
  <2>9. QED
    BY <2>2, <2>6, <2>7, <2>8 DEF NbdRangeValid
<1>2. QED
  BY <1>1, PathInvariant, PTL

\* Every variable has its type: the block numbers and counts of a request fit
\* the integers the code gives them.
THEOREM PathTypeCorrect == Spec => []TypeOK
<1>1. PathInv => TypeOK
  BY DEF PathInv
<1>2. QED
  BY <1>1, PathInvariant, PTL
=============================================================================
