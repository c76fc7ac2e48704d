------------------------------ MODULE MCEngine ------------------------------
(* Instances of Engine for TLC.                                            *)
EXTENDS Engine

CONSTANTS d1, d2

MCData == {d1, d2}

Payloads(n) == UNION {[1 .. k -> MCData] : k \in 0 .. n}

Plain(op) == [NoRequest EXCEPT !.op = op]

\* Every read and every write of whole blocks whose start and length are at
\* most n, one ragged write, the flush and the disconnect.
RequestsUpTo(n) ==
  {[NoRequest EXCEPT !.op = "read", !.start = s, !.count = c] :
     s \in 0 .. n, c \in 0 .. n}
  \cup {[NoRequest EXCEPT !.op = "write", !.start = s, !.data = p] :
          s \in 0 .. n, p \in Payloads(n)}
  \cup {[NoRequest EXCEPT !.op = "write", !.data = <<d1>>, !.ragged = TRUE]}
  \cup {Plain("flush"), Plain("disconnect")}

MCRequests == RequestsUpTo(TotalBlocks)
=============================================================================
