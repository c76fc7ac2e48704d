------------------------------ MODULE MCAttach ------------------------------
(* Instances of Attach for TLC.                                            *)
EXTENDS Attach, TLC

CONSTANTS d1, d2, h1, h2

MCData == {d1, d2}

Read(start, count) ==
  [NoRequest EXCEPT !.op = "read", !.start = start, !.count = count]
Write(start, data) ==
  [NoRequest EXCEPT !.op = "write", !.start = start, !.data = data]

\* One block: its read, its writes, a read out of range, and the flush.
MCRequests ==
  {Read(0, 1), Write(0, <<d1>>), Write(0, <<d2>>), Read(0, 2),
   [NoRequest EXCEPT !.op = "flush"]}

\* One read and one write.
MCFewRequests == {Read(0, 1), Write(0, <<d1>>)}

MCHandles == {h1, h2}

\* Contents and handles are only compared; used with safety properties.
MCSymmetry == Permutations(MCData) \cup Permutations(MCHandles)
=============================================================================
