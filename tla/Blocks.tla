------------------------------- MODULE Blocks -------------------------------
(***************************************************************************)
(* The data every other module speaks of: block numbers, volumes, partial  *)
(* block maps (a BTreeMap<u64, Vec<u8>> of whole blocks), and the requests *)
(* a block engine receives.  The contents of a block are one value of      *)
(* Data; nothing in the program looks inside a block.                      *)
(***************************************************************************)
EXTENDS Integers, Sequences, FiniteSets

CONSTANTS
  TotalBlocks,   \* the number of blocks of the volume, at least one
  Data,          \* the contents a block may have
  Absent         \* "no entry for this block"; not a content

ASSUME TotalBlocksAssumption == TotalBlocks \in Nat \ {0}
ASSUME AbsentAssumption == Absent \notin Data

Lba == 0 .. TotalBlocks - 1

\* What the backend stores: every block has contents.
Volume == [Lba -> Data]

\* A partial map from blocks to contents.
BlockMap == [Lba -> Data \cup {Absent}]
NoBlocks == [b \in Lba |-> Absent]
Keys(m) == {b \in Lba : m[b] # Absent}

\* The entries of m over base: a base block shows where m has none.
Overlay(m, base) == [b \in Lba |-> IF m[b] # Absent THEN m[b] ELSE base[b]]

\* The entries of m, of those in S only.
Restricted(m, S) == [b \in Lba |-> IF b \in S THEN m[b] ELSE Absent]

\* Faulty variant: one key too many.
LowestKeysAndOne(m, n) ==
  {b \in Keys(m) : Cardinality({k \in Keys(m) : k < b}) <= n}

\* The n lowest keys of m: BTreeMap iterates in ascending order of block.
LowestKeys(m, n) ==
  {b \in Keys(m) : Cardinality({k \in Keys(m) : k < b}) < n}

-----------------------------------------------------------------------------
(* Requests.  A read names start and count, a write start and data; ragged *)
(* marks a write payload that is not a whole number of blocks.             *)

Request ==
  {r \in [op : {"read", "write", "flush", "disconnect"},
          start : Nat, count : Nat, data : Seq(Data), ragged : BOOLEAN] :
     r.ragged => r.op = "write"}

NoRequest ==
  [op |-> "none", start |-> 0, count |-> 0, data |-> <<>>, ragged |-> FALSE]

\* The blocks a request names, which need not all be blocks of the volume.
RangeOf(r) ==
  IF r.op = "write" THEN r.start .. r.start + Len(r.data) - 1
                    ELSE r.start .. r.start + r.count - 1

\* m with the payload of the write r.
Written(r, m) ==
  [b \in Lba |-> IF b \in RangeOf(r) THEN r.data[b - r.start + 1] ELSE m[b]]

Reply ==
  [op : {"none", "read", "write", "flush", "disconnect"},
   status : {"none", "ok", "EINVAL", "EIO"}, data : BlockMap]

NoReply == [op |-> "none", status |-> "none", data |-> NoBlocks]
=============================================================================
