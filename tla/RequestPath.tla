----------------------------- MODULE RequestPath -----------------------------
(***************************************************************************)
(* The arithmetic a read or a write goes through: the geometry OpenVolume  *)
(* answers (src/session.rs), VolumeGeometry::new and the range checks of   *)
(* the engine (src/engine.rs), the translation of bytes to blocks in the   *)
(* bridge (src/bridge.rs) and the range check of the NBD adapter           *)
(* (src/nbd.rs).  Integers keep their bounds: i64 and i32 in OpenVolume's  *)
(* answer, u64 for bytes and blocks, u32 for a length and a count.         *)
(***************************************************************************)
EXTENDS Integers

CONSTANTS
  U64Max, U32Max,   \* the largest u64 and the largest u32
  I64Max, I32Max,   \* the largest i64 and the largest i32
  MinSigned         \* bound: the most negative value OpenVolume answers

ASSUME WidthsAssumption ==
  /\ U64Max \in Nat /\ U32Max \in 1 .. U64Max
  /\ I64Max \in 0 .. U64Max /\ I32Max \in 0 .. U32Max
  /\ MinSigned \in Int

VARIABLES
  size, blockSize,   \* size_bytes and block_size_bytes
  totalBlocks,       \* total_blocks
  offset, length,    \* the request, in bytes
  isWrite,           \* a write, whose payload has length bytes
  startLba, count,   \* the request, in blocks
  stage,             \* the check that comes next, or how it ended
  refusedBy          \* the check that refused

vars == <<size, blockSize, totalBlocks, offset, length, isWrite, startLba, count,
          stage, refusedBy>>

Stages == {"open", "nbd", "bridge", "engine"}

TypeOK ==
  /\ size \in MinSigned .. I64Max
  /\ blockSize \in MinSigned .. I32Max
  /\ totalBlocks \in 0 .. U64Max
  /\ offset \in 0 .. U64Max
  /\ length \in 0 .. U32Max
  /\ isWrite \in BOOLEAN
  /\ startLba \in 0 .. U64Max
  /\ count \in 0 .. U32Max
  /\ stage \in Stages \cup {"accepted", "refused"}
  /\ refusedBy \in Stages \cup {"none"}

Init ==
  /\ size \in MinSigned .. I64Max
  /\ blockSize \in MinSigned .. I32Max
  /\ totalBlocks = 0
  /\ offset = 0 /\ length = 0 /\ isWrite = FALSE
  /\ startLba = 0 /\ count = 0
  /\ stage = "open" /\ refusedBy = "none"

-----------------------------------------------------------------------------
(* The checks                                                              *)

\* is_multiple_of
IsMultiple(n, of) == n % of = 0

\* try_from of both signed values, then VolumeGeometry::new.
GeometryValid ==
  /\ size >= 0 /\ blockSize >= 0
  /\ blockSize # 0 /\ size # 0
  /\ IsMultiple(size, blockSize)

\* Faulty variant: the sum wraps.
FitsWrapping(start, n, limit) == (start + n) % (U64Max + 1) <= limit

\* Faulty variant: the end may not touch the limit.
FitsStrictly(start, n, limit) ==
  start + n <= U64Max /\ start + n < limit

\* checked_add of two u64, and the end compared with a limit.
Fits(start, n, limit) ==
  start + n <= U64Max /\ start + n <= limit

\* Faulty variant: the alignment of the length is not looked at.
NbdRangeValidUnaligned ==
  /\ length # 0
  /\ IsMultiple(offset, blockSize)
  /\ Fits(offset, length, size)

\* validate_range
NbdRangeValid ==
  /\ length # 0
  /\ IsMultiple(offset, blockSize)
  /\ IsMultiple(length, blockSize)
  /\ Fits(offset, length, size)

\* offset_len_to_lba accepts.
Translatable ==
  /\ blockSize # 0 /\ length # 0
  /\ IsMultiple(offset, blockSize)
  /\ IsMultiple(length, blockSize)
  /\ length \div blockSize <= U32Max

\* ensure_read_range, or ensure_write_payload and ensure_range; the block
\* count of a write is taken from its payload again.
EngineRangeValid ==
  IF isWrite
    THEN /\ length # 0
         /\ IsMultiple(length, blockSize)
         /\ Fits(startLba, length \div blockSize, totalBlocks)
    ELSE count # 0 /\ Fits(startLba, count, totalBlocks)

-----------------------------------------------------------------------------
RefuseBy(s) == stage' = "refused" /\ refusedBy' = s

\* The volume is opened, and a request comes.
OpenGeometry ==
  /\ stage = "open"
  /\ \/ /\ GeometryValid
        /\ totalBlocks' = size \div blockSize
        /\ offset' \in 0 .. U64Max
        /\ length' \in 0 .. U32Max
        /\ isWrite' \in BOOLEAN
        /\ stage' = "nbd"
        /\ UNCHANGED refusedBy
     \/ /\ ~GeometryValid
        /\ RefuseBy("open")
        /\ UNCHANGED <<totalBlocks, offset, length, isWrite>>
  /\ UNCHANGED <<size, blockSize, startLba, count>>

NbdValidates ==
  /\ stage = "nbd"
  /\ IF NbdRangeValid THEN stage' = "bridge" /\ UNCHANGED refusedBy
                      ELSE RefuseBy("nbd")
  /\ UNCHANGED <<size, blockSize, totalBlocks, offset, length, isWrite, startLba,
                 count>>

\* Faulty variant: the two quotients are exchanged.
BridgeSwaps ==
  /\ stage = "bridge"
  /\ \/ /\ Translatable
        /\ startLba' = length \div blockSize
        /\ count' = offset \div blockSize
        /\ stage' = "engine"
        /\ UNCHANGED refusedBy
     \/ /\ ~Translatable
        /\ RefuseBy("bridge")
        /\ UNCHANGED <<startLba, count>>
  /\ UNCHANGED <<size, blockSize, totalBlocks, offset, length, isWrite>>

BridgeTranslates ==
  /\ stage = "bridge"
  /\ \/ /\ Translatable
        /\ startLba' = offset \div blockSize
        /\ count' = length \div blockSize
        /\ stage' = "engine"
        /\ UNCHANGED refusedBy
     \/ /\ ~Translatable
        /\ RefuseBy("bridge")
        /\ UNCHANGED <<startLba, count>>
  /\ UNCHANGED <<size, blockSize, totalBlocks, offset, length, isWrite>>

EngineChecks ==
  /\ stage = "engine"
  /\ IF EngineRangeValid THEN stage' = "accepted" /\ UNCHANGED refusedBy
                         ELSE RefuseBy("engine")
  /\ UNCHANGED <<size, blockSize, totalBlocks, offset, length, isWrite, startLba,
                 count>>

Done == stage \in {"accepted", "refused"} /\ UNCHANGED vars

Next == OpenGeometry \/ NbdValidates \/ BridgeTranslates \/ EngineChecks \/ Done

Spec == Init /\ [][Next]_vars

-----------------------------------------------------------------------------
(* Properties                                                              *)

\* The three range checks agree: what the NBD adapter lets through in bytes,
\* neither the bridge nor the engine refuses in blocks.
ChecksAgree == refusedBy \in {"none", "open", "nbd"}

\* An accepted request is a nonempty run of blocks of the volume, and exactly
\* the bytes that were asked for: no sum wraps, no quotient is rounded.
AcceptedIsExact ==
  stage = "accepted" =>
    /\ startLba * blockSize = offset
    /\ count * blockSize = length
    /\ count > 0 /\ startLba + count <= totalBlocks

\* Only a request that is empty, not whole blocks, or beyond the end of the
\* volume is refused: the adapter is not stricter than the volume.
RefusedForCause ==
  stage = "refused" /\ refusedBy # "open" =>
    ~ \E l \in 0 .. totalBlocks, n \in 1 .. totalBlocks :
        /\ offset = l * blockSize /\ length = n * blockSize
        /\ l + n <= totalBlocks
=============================================================================
