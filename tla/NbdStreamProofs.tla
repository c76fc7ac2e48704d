--------------------------- MODULE NbdStreamProofs ---------------------------
(***************************************************************************)
(* Theorems about NbdStream for every set of handles, every length of a    *)
(* payload and every number of requests.                                   *)
(***************************************************************************)
EXTENDS NbdStream, FiniteSetTheorems, SequenceTheorems, TLAPS

-----------------------------------------------------------------------------
(* Frames and their units                                                  *)

LEMMA FrameFacts ==
  ASSUME NEW f \in Frame
  PROVE  /\ f # NoFrame
         /\ f.handle \in Handles
         /\ f.op \in {"read", "write", "flush", "disc", "other"}
         /\ f.length \in 0 .. MaxLength
         /\ f.valid \in BOOLEAN
         /\ Payload(f) \in Nat
         /\ f.op = "write" => Payload(f) = f.length /\ Payload(f) >= 1
         /\ f.op # "write" => Payload(f) = 0
<1>1. CASE f \in [handle : Handles, op : {"read", "write"}, length : 1 .. MaxLength,
                  valid : BOOLEAN]
  <2>1. /\ f.handle \in Handles /\ f.op \in {"read", "write"}
        /\ f.length \in 1 .. MaxLength /\ f.valid \in BOOLEAN
    BY <1>1
  <2>2. f.op # NoFrame.op
    BY <2>1 DEF NoFrame
  <2>3. Payload(f) \in Nat /\ Payload(f) = IF f.op = "write" THEN f.length ELSE 0
    BY <2>1, StreamBoundsAssumption DEF Payload
  <2>. QED
    BY <2>1, <2>2, <2>3, StreamBoundsAssumption
<1>2. CASE f \in [handle : Handles, op : {"flush", "disc", "other"}, length : {0},
                  valid : {TRUE}]
  <2>1. /\ f.handle \in Handles /\ f.op \in {"flush", "disc", "other"}
        /\ f.length = 0
    BY <1>2
  <2>4. f.valid \in BOOLEAN
    BY <1>2
  <2>2. f.op # NoFrame.op
    BY <2>1 DEF NoFrame
  <2>3. Payload(f) \in Nat /\ Payload(f) = IF f.op = "write" THEN f.length ELSE 0
    BY <2>1, StreamBoundsAssumption DEF Payload
  <2>. QED
    BY <2>1, <2>2, <2>3, <2>4, StreamBoundsAssumption
<1>. QED
  BY <1>1, <1>2 DEF Frame

LEMMA UnitsFacts ==
  ASSUME NEW f \in Frame
  PROVE  /\ UnitsOf(f) \in Seq(Unit)
         /\ Len(UnitsOf(f)) = Payload(f) + 1
         /\ \A i \in 1 .. Payload(f) + 1 :
              /\ UnitsOf(f)[i].frame = f
              /\ UnitsOf(f)[i].kind = "header" <=> i = 1
              /\ UnitsOf(f)[i].last = (i = Payload(f) + 1)
<1>. DEFINE n == Payload(f) + 1
<1>1. n \in Nat
  BY FrameFacts
<1>. HIDE DEF n
<1>2. UnitsOf(f) = [i \in 1 .. n |->
                      [frame |-> f, kind |-> IF i = 1 THEN "header" ELSE "data",
                       last |-> i = n]]
  BY DEF UnitsOf, n
<1>3. UnitsOf(f) \in [1 .. n -> Unit]
  BY <1>2 DEF Unit
<1>4. UnitsOf(f) \in Seq(Unit) /\ Len(UnitsOf(f)) = n
  BY <1>1, <1>3
<1>5. ASSUME NEW i \in 1 .. n
      PROVE  /\ UnitsOf(f)[i].frame = f
             /\ UnitsOf(f)[i].kind = "header" <=> i = 1
             /\ UnitsOf(f)[i].last = (i = n)
  <2>1. UnitsOf(f)[i] = [frame |-> f, kind |-> IF i = 1 THEN "header" ELSE "data",
                         last |-> i = n]
    BY <1>2
  <2>2. UnitsOf(f)[i].frame = f
    BY <2>1
  <2>3. UnitsOf(f)[i].kind = "header" <=> i = 1
    BY <2>1
  <2>4. UnitsOf(f)[i].last = (i = n)
    BY <2>1
  <2>. QED
    BY <2>2, <2>3, <2>4
<1>. QED
  BY <1>4, <1>5 DEF n

LEMMA NoFrameFacts == NoFrame \notin Frame /\ NoFrame.op = "none"
BY DEF NoFrame, Frame

\* Counting units: there are finitely many, none of no request, and one more
\* request at either end adds its header and its payload.
LEMMA SentUnitsFacts ==
  ASSUME NEW fs \in Seq(Frame), NEW a \in Nat \ {0}, NEW b \in Nat, b <= Len(fs)
  PROVE  /\ Cardinality(SentUnits(fs, a, b)) \in Nat
         /\ b < a => Cardinality(SentUnits(fs, a, b)) = 0
         /\ a <= b =>
              /\ Cardinality(SentUnits(fs, a, b)) =
                   Cardinality(SentUnits(fs, a, b - 1)) + Payload(fs[b]) + 1
              /\ Cardinality(SentUnits(fs, a, b)) =
                   Payload(fs[a]) + 1 + Cardinality(SentUnits(fs, a + 1, b))
<1>. DEFINE Of(i) == {i} \X (1 .. Payload(fs[i]) + 1)
<1>1. ASSUME NEW c \in Int, NEW d \in Int
      PROVE  /\ IsFiniteSet(SentUnits(fs, c, d))
             /\ Cardinality(SentUnits(fs, c, d)) \in Nat
  <2>1. IsFiniteSet(c .. d) /\ IsFiniteSet(1 .. MaxLength + 1)
    BY StreamBoundsAssumption, FS_Interval
  <2>2. IsFiniteSet((c .. d) \X (1 .. MaxLength + 1))
    BY <2>1, FS_Product
  <2>3. SentUnits(fs, c, d) \in SUBSET ((c .. d) \X (1 .. MaxLength + 1))
    BY DEF SentUnits
  <2>. QED
    BY <2>2, <2>3, FS_Subset, FS_CardinalityType
<1>2. ASSUME NEW i \in a .. b
      PROVE  /\ IsFiniteSet(Of(i)) /\ Cardinality(Of(i)) = Payload(fs[i]) + 1
             /\ Payload(fs[i]) \in 0 .. MaxLength
  <2>1. fs[i] \in Frame
    <3>1. i \in 1 .. Len(fs)
      OBVIOUS
    <3>. QED
      BY <3>1, ElementOfSeq
  <2>2. PICK n : n = Payload(fs[i]) + 1
    OBVIOUS
  <2>3. n \in Nat /\ n >= 1 /\ Payload(fs[i]) \in 0 .. MaxLength
    BY <2>1, <2>2, FrameFacts, StreamBoundsAssumption
  <2>4. IsFiniteSet(1 .. n) /\ Cardinality(1 .. n) = n
    <3>1. /\ IsFiniteSet(1 .. n)
          /\ Cardinality(1 .. n) = IF 1 > n THEN 0 ELSE n - 1 + 1
      BY <2>3, FS_Interval, 1 \in Int, n \in Int
    <3>. QED
      BY <3>1, <2>3
  <2>5. IsFiniteSet({i}) /\ Cardinality({i}) = 1
    BY FS_Singleton
  <2>6. IsFiniteSet({i} \X (1 .. n)) /\ Cardinality({i} \X (1 .. n)) = 1 * n
    BY <2>4, <2>5, FS_Product
  <2>. QED
    BY <2>2, <2>3, <2>6
<1>3. ASSUME b < a PROVE Cardinality(SentUnits(fs, a, b)) = 0
  <2>1. SentUnits(fs, a, b) = {}
    BY <1>3 DEF SentUnits
  <2>. QED
    BY <2>1, FS_EmptySet
<1>4. ASSUME NEW S, NEW i \in a .. b, IsFiniteSet(S),
             S \cap Of(i) = {}, SentUnits(fs, a, b) = S \cup Of(i)
      PROVE  Cardinality(SentUnits(fs, a, b)) = Cardinality(S) + (Payload(fs[i]) + 1)
  <2>. DEFINE T == Of(i)
  <2>1. IsFiniteSet(T) /\ Cardinality(T) = Payload(fs[i]) + 1 /\ Payload(fs[i]) \in Nat
    <3>1. IsFiniteSet(T) /\ Cardinality(T) = Payload(fs[i]) + 1
      BY <1>2
    <3>2. Payload(fs[i]) \in 0 .. MaxLength
      BY <1>2
    <3>. QED
      BY <3>1, <3>2
  <2>2. S \cap T = {} /\ SentUnits(fs, a, b) = S \cup T
    BY <1>4
  <2>. HIDE DEF T
  <2>3. Cardinality(S \cup T) = Cardinality(S) + Cardinality(T) - Cardinality(S \cap T)
    BY <1>4, <2>1, FS_Union
  <2>4. Cardinality(S \cap T) = 0 /\ Cardinality(S) \in Nat
    BY <1>4, <2>2, FS_EmptySet, FS_CardinalityType
  <2>. QED
    BY <2>1, <2>2, <2>3, <2>4
<1>5. ASSUME a <= b
      PROVE  Cardinality(SentUnits(fs, a, b)) =
               Cardinality(SentUnits(fs, a, b - 1)) + Payload(fs[b]) + 1
  <2>1. b \in a .. b /\ b \in Int /\ b - 1 \in Int /\ a \in Int
    BY <1>5
  <2>2. Payload(fs[b]) \in 0 .. MaxLength
    BY <2>1, <1>2
  <2>3. SentUnits(fs, a, b) = SentUnits(fs, a, b - 1) \cup Of(b)
        /\ SentUnits(fs, a, b - 1) \cap Of(b) = {}
    BY <2>1, <2>2, StreamBoundsAssumption DEF SentUnits
  <2>4. Cardinality(SentUnits(fs, a, b)) =
          Cardinality(SentUnits(fs, a, b - 1)) + (Payload(fs[b]) + 1)
    BY <2>1, <2>3, <1>1, <1>4
  <2>5. Cardinality(SentUnits(fs, a, b - 1)) \in Nat
    BY <2>1, <1>1
  <2>. QED
    BY <2>2, <2>4, <2>5
<1>6. ASSUME a <= b
      PROVE  Cardinality(SentUnits(fs, a, b)) =
               Payload(fs[a]) + 1 + Cardinality(SentUnits(fs, a + 1, b))
  <2>1. a \in a .. b /\ a \in Int /\ a + 1 \in Int /\ b \in Int
    BY <1>6
  <2>2. Payload(fs[a]) \in 0 .. MaxLength
    BY <2>1, <1>2
  <2>3. SentUnits(fs, a, b) = SentUnits(fs, a + 1, b) \cup Of(a)
        /\ SentUnits(fs, a + 1, b) \cap Of(a) = {}
    BY <2>1, <2>2, StreamBoundsAssumption DEF SentUnits
  <2>4. Cardinality(SentUnits(fs, a, b)) =
          Cardinality(SentUnits(fs, a + 1, b)) + (Payload(fs[a]) + 1)
    BY <2>1, <2>3, <1>1, <1>4
  <2>5. Cardinality(SentUnits(fs, a + 1, b)) \in Nat
    BY <2>1, <1>1
  <2>. QED
    BY <2>2, <2>4, <2>5
<1>7. Cardinality(SentUnits(fs, a, b)) \in Nat
  <2>1. a \in Int /\ b \in Int
    OBVIOUS
  <2>. QED
    BY <2>1, <1>1
<1>. QED
  BY <1>7, <1>3, <1>5, <1>6

\* The count looks at no other request.
LEMMA SentUnitsSame ==
  ASSUME NEW fs, NEW gs, NEW a, NEW b, \A i \in a .. b : fs[i] = gs[i]
  PROVE  SentUnits(fs, a, b) = SentUnits(gs, a, b)
BY DEF SentUnits

\* Where the request being served begins.
LEMMA FirstFacts ==
  ASSUME TypeOK, ServerInv
  PROVE  /\ First \in Int /\ First <= 1
         /\ pc = "header" => First = 1
         /\ pc = "payload" => First = 0
         /\ pc = "answer" => First = -Payload(header)
BY FrameFacts DEF TypeOK, ServerInv, First

\* The counters are numbers, and the requests waiting are frames.
LEMMA Counters ==
  ASSUME TypeOK, ServerInv
  PROVE  /\ Len(stream) \in Nat /\ Len(frames) \in Nat /\ Len(replies) \in Nat
         /\ Waiting \in Nat /\ Len(frames) = Len(replies) + Waiting
         /\ \A k \in 1 .. Waiting : frames[Len(replies) + k] \in Frame
         /\ \A p \in 1 .. Len(stream) : stream[p] \in Unit
<1>1. Len(stream) \in Nat /\ Len(frames) \in Nat /\ Len(replies) \in Nat
  BY DEF TypeOK
<1>2. Waiting \in Nat /\ Len(frames) = Len(replies) + Waiting
  BY <1>1 DEF ServerInv, Waiting
<1>3. ASSUME NEW k \in 1 .. Waiting PROVE frames[Len(replies) + k] \in Frame
  <2>1. Len(replies) + k \in 1 .. Len(frames)
    BY <1>1, <1>2
  <2>. QED
    BY <2>1, ElementOfSeq DEF TypeOK
<1>4. ASSUME NEW p \in 1 .. Len(stream) PROVE stream[p] \in Unit
  BY ElementOfSeq DEF TypeOK
<1>. QED
  BY <1>1, <1>2, <1>3, <1>4

\* The positions by themselves: where the first request lies, and the next.
LEMMA StartFacts ==
  ASSUME TypeOK, ServerInv
  PROVE  /\ \A k \in 1 .. Waiting + 1 :
              /\ Cardinality(SentUnits(frames, Len(replies) + 1, Len(replies) + k - 1)) \in Nat
              /\ Positions[k] = StartOf(k) /\ StartOf(k) \in Int
         /\ Positions[1] = First
<1>1. /\ frames \in Seq(Frame) /\ Len(replies) \in Nat /\ Waiting \in Nat
      /\ Len(frames) = Len(replies) + Waiting
      /\ Len(replies) + 1 \in Nat \ {0} /\ First \in Int
  BY Counters, FirstFacts DEF TypeOK
<1>2. ASSUME NEW k \in 1 .. Waiting + 1
      PROVE  /\ Cardinality(SentUnits(frames, Len(replies) + 1, Len(replies) + k - 1)) \in Nat
             /\ k = 1 =>
                  Cardinality(SentUnits(frames, Len(replies) + 1, Len(replies) + k - 1)) = 0
  <2>1. PICK e \in Nat : e = Len(replies) + k - 1 /\ e <= Len(frames)
    <3>1. Len(replies) + k - 1 \in Nat /\ Len(replies) + k - 1 <= Len(frames)
      BY <1>1
    <3>. QED
      BY <3>1
  <2>2. k = 1 => e < Len(replies) + 1
    BY <2>1, <1>1
  <2>. QED
    BY <2>1, <2>2, <1>1, SentUnitsFacts
<1>3. 1 \in 1 .. Waiting + 1
  BY <1>1
<1>4. ASSUME NEW k \in 1 .. Waiting + 1
      PROVE  /\ Positions[k] = StartOf(k) /\ StartOf(k) \in Int
             /\ k = 1 => StartOf(k) = First
  <2>1. PICK c \in Nat :
          /\ c = Cardinality(SentUnits(frames, Len(replies) + 1, Len(replies) + k - 1))
          /\ k = 1 => c = 0
    BY <1>2
  <2>2. StartOf(k) = First + c
    BY <2>1 DEF StartOf
  <2>3. Positions[k] = StartOf(k)
    BY DEF Positions
  <2>. QED
    BY <2>1, <2>2, <2>3, <1>1
<1>. QED
  BY <1>2, <1>3, <1>4
-----------------------------------------------------------------------------
(* How the layout changes                                                  *)

\* What the positions are, all but the broken request behind the last.
LEMMA LayoutFacts ==
  ASSUME TypeOK, ServerInv, NEW q, Layout(q)
  PROVE  /\ \A k \in 1 .. Waiting + 1 : q[k] \in Int
         /\ q[1] = First
         /\ \A k \in 1 .. Waiting :
              q[k + 1] = q[k] + Payload(frames[Len(replies) + k]) + 1
         /\ \A k \in 1 .. Waiting : q[k] < q[k + 1] /\ q[k + 1] <= q[Waiting + 1]
         /\ \A k \in 1 .. Waiting : q[1] <= q[k] /\ q[k] < q[Waiting + 1]
         /\ q[Waiting + 1] \in Int /\ q[Waiting + 1] <= Len(stream) + 1
         /\ ~cut => q[Waiting + 1] = Len(stream) + 1
<1>1. Waiting \in Nat
  BY Counters
<1>2. \A k \in 1 .. Waiting + 1 : q[k] \in Int
  BY DEF Layout
<1>3. ASSUME NEW k \in 1 .. Waiting
      PROVE  q[k] < q[k + 1] /\ q[k + 1] <= q[Waiting + 1]
             /\ q[1] <= q[k] /\ q[k] < q[Waiting + 1]
  <2>1. /\ k \in 1 .. Waiting + 1 /\ k + 1 \in 1 .. Waiting + 1
        /\ 1 \in 1 .. Waiting + 1 /\ Waiting + 1 \in 1 .. Waiting + 1
        /\ k < k + 1 /\ (1 < k \/ 1 = k) /\ (k + 1 < Waiting + 1 \/ k + 1 = Waiting + 1)
        /\ k < Waiting + 1
    BY <1>1
  <2>2. \A i, j \in 1 .. Waiting + 1 : i < j => q[i] < q[j]
    BY DEF Layout
  <2>. QED
    BY <2>1, <2>2, <1>2
<1>. QED
  BY <1>1, <1>2, <1>3 DEF Layout

\* The server reads the next units: every position is so much nearer.
LEMMA UnitsRead ==
  ASSUME TypeOK, ServerInv, NEW q, Layout(q),
         NEW d \in Nat, d <= Len(stream),
         Len(stream') = Len(stream) - d,
         \A p \in 1 .. Len(stream') : stream'[p] = stream[p + d],
         UNCHANGED <<frames, cut, replies>>,
         First' = First - d,
         \A f \in Frame :
           /\ q[Waiting + 1] <= Len(stream)
           /\ \A p \in 1 .. Len(stream) : q[Waiting + 1] <= p => LiesAt(f, q[Waiting + 1], p)
           /\ pc = "payload" /\ Waiting = 0 => f = header
           => (pc' = "payload" /\ Waiting = 0 => f = header')
  PROVE  \E r : r = [k \in 1 .. Waiting + 1 |-> q[k] - d] /\ Layout(r)'
<1>a. PICK W : W = Waiting
  OBVIOUS
<1>b. PICK r : r = [k \in 1 .. W + 1 |-> q[k] - d]
  OBVIOUS
<1>. DEFINE F(k) == frames[Len(replies) + k]
<1>1. W \in Nat /\ Waiting' = W /\ Len(stream) \in Nat /\ Len(stream') = Len(stream) - d
      /\ frames' = frames /\ replies' = replies /\ cut' = cut
      /\ Len(stream') \in Nat
  BY <1>a, Counters DEF Waiting
<1>2. /\ \A k \in 1 .. W + 1 : q[k] \in Int
      /\ q[1] = First /\ First \in Int
      /\ \A k \in 1 .. W : q[k + 1] = q[k] + Payload(F(k)) + 1
      /\ \A k \in 1 .. W : Payload(F(k)) \in Nat
      /\ q[W + 1] \in Int /\ q[W + 1] <= Len(stream) + 1
      /\ ~cut => q[W + 1] = Len(stream) + 1
  BY <1>a, LayoutFacts, FirstFacts, Counters, FrameFacts
<1>3. /\ \A j, k \in 1 .. W + 1 : j < k => q[j] < q[k]
      /\ \A p \in 1 .. Len(stream) : p < q[W + 1] =>
           \E k \in 1 .. W : q[k] <= p /\ p < q[k + 1]
      /\ \A k \in 1 .. W, p \in 1 .. Len(stream) :
           q[k] <= p /\ p < q[k + 1] => stream[p] = UnitsOf(F(k))[p - q[k] + 1]
      /\ q[W + 1] <= Len(stream) => Broken(q[W + 1])
  BY <1>a DEF Layout, LiesAt
<1>4. /\ r \in [1 .. W + 1 -> Int]
      /\ \A k \in 1 .. W + 1 : r[k] = q[k] - d
      /\ \A k \in 1 .. W : r[k + 1] = q[k + 1] - d
      /\ r[1] = q[1] - d /\ r[W + 1] = q[W + 1] - d
  BY <1>b, <1>1, <1>2
<1>5. \A p \in 1 .. Len(stream') : p + d \in 1 .. Len(stream) /\ stream'[p] = stream[p + d]
  BY <1>1
<1>6. ASSUME NEW k \in 1 .. W
      PROVE  /\ k \in 1 .. W + 1 /\ k + 1 \in 1 .. W + 1
             /\ q[k] \in Int /\ q[k + 1] \in Int
             /\ r[k] = q[k] - d /\ r[k + 1] = q[k + 1] - d
  <2>1. k \in 1 .. W + 1 /\ k + 1 \in 1 .. W + 1
    BY <1>1
  <2>. QED
    BY <2>1, <1>2, <1>4
<1>. HIDE DEF F
<1>7. ASSUME NEW k \in 1 .. W PROVE r[k + 1] = r[k] + Payload(F(k)) + 1
  <2>1. /\ q[k] \in Int /\ q[k + 1] \in Int
        /\ r[k] = q[k] - d /\ r[k + 1] = q[k + 1] - d
    BY <1>6
  <2>2. Payload(F(k)) \in Nat /\ q[k + 1] = q[k] + Payload(F(k)) + 1
    BY <1>2
  <2>. QED
    BY <2>1, <2>2
<1>8. \A j, k \in 1 .. W + 1 : j < k => r[j] < r[k]
  BY <1>2, <1>3, <1>4
<1>9. ASSUME NEW p \in 1 .. Len(stream'), p < r[W + 1]
      PROVE  \E k \in 1 .. W : r[k] <= p /\ p < r[k + 1]
  <2>1. PICK e \in 1 .. Len(stream) : e = p + d
    BY <1>5
  <2>4. e < q[W + 1]
    BY <2>1, <1>2, <1>4, <1>9
  <2>2. PICK k \in 1 .. W : q[k] <= e /\ e < q[k + 1]
    BY <2>4, <1>3
  <2>3. r[k] <= p /\ p < r[k + 1]
    BY <2>1, <2>2, <1>1, <1>6
  <2>. QED
    BY <2>3
<1>10. ASSUME NEW k \in 1 .. W, NEW p \in 1 .. Len(stream'), r[k] <= p, p < r[k + 1]
       PROVE  stream'[p] = UnitsOf(F(k))[p - r[k] + 1]
  <2>3. PICK e \in 1 .. Len(stream) : e = p + d /\ stream'[p] = stream[e]
    BY <1>5
  <2>4. /\ q[k] \in Int /\ q[k + 1] \in Int
        /\ r[k] = q[k] - d /\ r[k + 1] = q[k + 1] - d
    BY <1>6
  <2>5. p \in Int /\ e = p + d
    BY <2>3, <1>1
  <2>1. q[k] <= e /\ e < q[k + 1] /\ p - r[k] + 1 = e - q[k] + 1
    <3>1. q[k] <= e /\ e < q[k + 1]
      BY <2>4, <2>5, <1>10
    <3>2. p - r[k] + 1 = e - q[k] + 1
      BY <2>4, <2>5
    <3>. QED
      BY <3>1, <3>2
  <2>2. stream[e] = UnitsOf(F(k))[e - q[k] + 1]
    BY <2>1, <1>3
  <2>. QED
    BY <2>1, <2>2, <2>3
<1>11. /\ r[W + 1] <= Len(stream') + 1
       /\ ~cut' => r[W + 1] = Len(stream') + 1
  BY <1>1, <1>2, <1>4
<1>12. ASSUME r[W + 1] <= Len(stream')
       PROVE  Broken(r[W + 1])'
  <2>. DEFINE s == q[W + 1]
  <2>1. s <= Len(stream) /\ s \in Int /\ r[W + 1] = s - d
    BY <1>1, <1>2, <1>4, <1>12
  <2>2. PICK f \in Frame :
          /\ Len(stream) - s < Payload(f)
          /\ \A p \in 1 .. Len(stream) : s <= p => LiesAt(f, s, p)
          /\ pc = "payload" /\ Waiting = 0 => f = header
    BY <2>1, <1>3 DEF Broken
  <2>3. Len(stream') - r[W + 1] < Payload(f)
    BY <2>1, <2>2, <1>1, FrameFacts
  <2>4. ASSUME NEW p \in 1 .. Len(stream'), r[W + 1] <= p
        PROVE  stream'[p] = UnitsOf(f)[p - r[W + 1] + 1]
    <3>1. PICK e \in 1 .. Len(stream) : e = p + d /\ stream'[p] = stream[e]
      BY <1>5
    <3>2. s <= e /\ p - r[W + 1] + 1 = e - s + 1
      BY <3>1, <2>1, <2>4, <1>1
    <3>3. stream[e] = UnitsOf(f)[e - s + 1]
      BY <3>2, <2>2 DEF LiesAt
    <3>. QED
      BY <3>1, <3>2, <3>3
  <2>5. pc' = "payload" /\ Waiting' = 0 => f = header'
    BY <2>1, <2>2, <1>1, <1>a
  <2>. QED
    BY <2>3, <2>4, <2>5 DEF Broken, LiesAt
<1>13. r[1] = First'
  BY <1>2, <1>4
<1>14. Layout(r)'
  BY <1>1, <1>4, <1>7, <1>8, <1>9, <1>10, <1>11, <1>12, <1>13 DEF Layout, LiesAt, F
<1>. QED
  BY <1>14, <1>a, <1>b

LEMMA PositionsRead ==
  ASSUME TypeOK, ServerInv, NEW d \in Nat, First' = First - d,
         UNCHANGED <<frames, replies>>
  PROVE  Positions' = [k \in 1 .. Waiting + 1 |-> Positions[k] - d]
<1>1. Waiting' = Waiting /\ frames' = frames /\ replies' = replies
  BY DEF Waiting
<1>2. ASSUME NEW k \in 1 .. Waiting + 1 PROVE StartOf(k)' = Positions[k] - d
  <2>1. PICK c \in Nat :
          c = Cardinality(SentUnits(frames, Len(replies) + 1, Len(replies) + k - 1))
    BY StartFacts
  <2>2. Positions[k] = First + c
    BY <2>1, StartFacts DEF StartOf
  <2>3. StartOf(k)' = First - d + c
    BY <2>1, <1>1 DEF StartOf
  <2>. QED
    BY <2>2, <2>3, FirstFacts
<1>. QED
  BY <1>1, <1>2 DEF Positions
-----------------------------------------------------------------------------
(* The inductive invariant, action by action                               *)

LEMMA StreamInit == Init => IInv
<1>. SUFFICES ASSUME Init PROVE IInv
  OBVIOUS
<1>1. stream = <<>> /\ frames = <<>> /\ replies = <<>> /\ header = NoFrame
      /\ pc = "header" /\ cut = FALSE /\ stopped = FALSE /\ closed = FALSE
  BY DEF Init
<1>2. Len(stream) = 0 /\ Len(frames) = 0 /\ Len(replies) = 0
  BY <1>1
<1>3. TypeOK
  <2>1. stream \in Seq(Unit) /\ frames \in Seq(Frame) /\ replies \in Seq(Reply)
    BY <1>1, EmptySeq
  <2>2. cut \in BOOLEAN /\ stopped \in BOOLEAN /\ closed \in BOOLEAN
    BY <1>1
  <2>3. Len(frames) <= MaxFrames
    BY <1>2, StreamBoundsAssumption
  <2>4. header \in Frame \cup {NoFrame} /\ (pc = "header" => header = NoFrame)
    BY <1>1
  <2>5. /\ pc \in {"header", "payload", "answer", "clean", "error"}
        /\ pc = "payload" => header.op = "write"
    BY <1>1
  <2>. QED
    BY <2>1, <2>2, <2>3, <2>4, <2>5 DEF TypeOK
<1>4. Waiting = 0 /\ First = 1
  BY <1>1, <1>2 DEF Waiting, First
<1>5. ServerInv
  BY <1>1, <1>2, <1>4
  DEF ServerInv, RepliesAreInStep, InStep, NoOkBehindText,
      ErrorMeansCut
<1>6. TypeOK /\ ServerInv /\ Waiting + 1 = 1 /\ 1 \in 1 .. Waiting + 1
  BY <1>3, <1>4, <1>5
<1>7. PICK q : q = Positions
  OBVIOUS
<1>9. q \in [1 .. 1 -> Int] /\ q[1] = 1
  BY <1>4, <1>6, <1>7, StartFacts DEF Positions
<1>8. Layout(q)
  BY <1>1, <1>2, <1>4, <1>9 DEF Layout
<1>. QED
  BY <1>3, <1>5, <1>7, <1>8 DEF IInv

\* What was replied stays in step as long as its requests stay.
LEMMA RepliesKept ==
  ASSUME TypeOK, ServerInv, replies' = replies, closed => closed',
         \A i \in 1 .. Len(replies) : i <= Len(frames') /\ frames'[i] = frames[i]
  PROVE  RepliesAreInStep' /\ NoOkBehindText'
<1>1. ASSUME NEW i \in 1 .. Len(replies) PROVE InStep(i)' = InStep(i)
  BY <1>1 DEF InStep
<1>2. RepliesAreInStep'
  <2>1. SUFFICES ASSUME NEW i \in 1 .. Len(replies)
                 PROVE  /\ i <= Len(frames') /\ replies[i].handle = frames'[i].handle
                        /\ \/ InStep(i)'
                           \/ /\ closed' /\ frames'[i].op = "read" /\ frames'[i].valid
                              /\ replies[i].errno = "EIO"
    BY DEF RepliesAreInStep
  <2>. QED
    BY <1>1 DEF ServerInv, RepliesAreInStep
<1>3. NoOkBehindText'
  BY <1>1 DEF ServerInv, NoOkBehindText
<1>. QED
  BY <1>2, <1>3

\* Where nothing moves and the server is between the same two units.
LEMMA LayoutStays ==
  ASSUME TypeOK, ServerInv, Layout(Positions),
         UNCHANGED <<stream, frames, cut, replies>>,
         First' = First,
         pc' # "payload"
  PROVE  Layout(Positions)'
<1>a. PICK q : q = Positions /\ Layout(q)
  OBVIOUS
<1>1. Waiting' = Waiting /\ frames' = frames /\ stream' = stream /\ cut' = cut
      /\ replies' = replies
  BY DEF Waiting
<1>2. ASSUME Broken(q[Waiting + 1]) PROVE Broken(q[Waiting + 1])'
  BY <1>1, <1>2 DEF Broken, LiesAt
<1>3. Layout(q)'
  BY <1>1, <1>2, <1>a DEF Layout, LiesAt
<1>4. q = Positions'
  BY <1>1, <1>a DEF Positions, StartOf
<1>. QED
  BY <1>3, <1>4

LEMMA StopAtTokenStep ==
  ASSUME IInv, StopAtToken
  PROVE  IInv'
<1>1. TypeOK /\ ServerInv
  BY DEF IInv
<1>2. PICK q : q = Positions /\ Layout(q)
  BY DEF IInv, StopAtToken
<1>3. TypeOK'
  BY <1>1 DEF TypeOK, StopAtToken
<1>4. ServerInv'
  BY <1>1
  DEF ServerInv, StopAtToken, Waiting, RepliesAreInStep, InStep, NoOkBehindText,
      ErrorMeansCut
<1>5. First' = First /\ pc' # "payload"
  BY <1>1 DEF First, StopAtToken, TypeOK
<1>6. Layout(Positions)'
  BY <1>1, <1>2, <1>5, LayoutStays DEF StopAtToken
<1>. QED
  BY <1>3, <1>4, <1>6 DEF IInv

LEMMA EndAtDiscStep ==
  ASSUME IInv, EndAtDisc
  PROVE  IInv'
<1>1. TypeOK /\ ServerInv
  BY DEF IInv
<1>2. PICK q : q = Positions /\ Layout(q)
  BY DEF IInv, EndAtDisc
<1>3. TypeOK'
  BY <1>1 DEF TypeOK, EndAtDisc
<1>4. ServerInv'
  BY <1>1
  DEF ServerInv, EndAtDisc, Waiting, RepliesAreInStep, InStep, NoOkBehindText,
      ErrorMeansCut
<1>5. First' = First /\ pc' # "payload"
  BY <1>1 DEF First, EndAtDisc
<1>6. Layout(Positions)'
  BY <1>1, <1>2, <1>5, LayoutStays DEF EndAtDisc
<1>. QED
  BY <1>3, <1>4, <1>6 DEF IInv

LEMMA WriteFailsStep ==
  ASSUME IInv, WriteFails
  PROVE  IInv'
<1>1. TypeOK /\ ServerInv
  BY DEF IInv
<1>2. TypeOK'
  BY <1>1 DEF TypeOK, WriteFails
<1>3. ServerInv'
  BY <1>1
  DEF ServerInv, WriteFails, Waiting, RepliesAreInStep, InStep, NoOkBehindText,
      ErrorMeansCut
<1>. QED
  BY <1>2, <1>3 DEF IInv, WriteFails

\* Of a stream that is cut and read to its end, every request was read.
LEMMA ReadHeaderEndsStep ==
  ASSUME IInv, ReadHeaderEnds
  PROVE  IInv'
<1>1. TypeOK /\ ServerInv
  BY DEF IInv
<1>2. PICK q : q = Positions /\ Layout(q)
  BY DEF IInv, ReadHeaderEnds
<1>3. pc = "header" /\ stream = <<>> /\ cut /\ pc' \in {"clean", "error"}
      /\ UNCHANGED <<stream, frames, cut, header, replies, stopped, closed>>
  BY DEF ReadHeaderEnds
<1>4. Waiting = 0
  <2>1. Len(stream) = 0 /\ First = 1
    BY <1>1, <1>3, FirstFacts
  <2>2. SUFFICES ASSUME Waiting # 0 PROVE FALSE
    OBVIOUS
  <2>3. 1 \in 1 .. Waiting
    BY <1>1, <2>2, Counters
  <2>4. q[1] < q[Waiting + 1] /\ q[1] = 1 /\ q[Waiting + 1] \in Int
        /\ q[Waiting + 1] <= Len(stream) + 1
    BY <1>1, <1>2, <2>1, <2>3, LayoutFacts
  <2>. QED
    BY <2>1, <2>4
<1>5. TypeOK'
  BY <1>1, <1>3 DEF TypeOK
<1>6. ServerInv'
  BY <1>1, <1>3, <1>4
  DEF ServerInv, Waiting, RepliesAreInStep, InStep, NoOkBehindText,
      ErrorMeansCut
<1>7. First' = First
  BY <1>1, <1>3 DEF First, TypeOK
<1>8. Layout(Positions)'
  BY <1>1, <1>2, <1>3, <1>7, LayoutStays
<1>. QED
  BY <1>5, <1>6, <1>8 DEF IInv

\* A header is read: of the oldest request without a reply, or of a write
\* that the kernel left behind in part.
LEMMA ReadHeaderStep ==
  ASSUME IInv, ReadHeader
  PROVE  IInv'
<1>1. TypeOK /\ ServerInv
  BY DEF IInv
<1>2. PICK q : q = Positions /\ Layout(q)
  BY DEF IInv, ReadHeader
<1>3. /\ pc = "header" /\ header = NoFrame /\ First = 1 /\ q[1] = 1
      /\ Waiting \in Nat /\ Len(stream) \in Nat /\ 1 \in 1 .. Len(stream)
  <2>1. pc = "header" /\ header = NoFrame /\ First = 1 /\ q[1] = First
    BY <1>1, <1>2, FirstFacts, LayoutFacts DEF ReadHeader, TypeOK
  <2>2. stream \in Seq(Unit) /\ stream # <<>>
    BY <1>1 DEF ReadHeader, TypeOK
  <2>3. Len(stream) \in Nat \ {0}
    BY <2>2, EmptySeq
  <2>. QED
    BY <1>1, <2>1, <2>3, Counters
<1>4. \A f \in Frame : LiesAt(f, 1, 1) =>
        stream[1].frame = f /\ stream[1].kind = "header"
  <2>1. ASSUME NEW f \in Frame, stream[1] = UnitsOf(f)[1]
        PROVE  stream[1].frame = f /\ stream[1].kind = "header"
    <3>1. 1 \in 1 .. Payload(f) + 1
      BY FrameFacts
    <3>. QED
      BY <2>1, <3>1, UnitsFacts
  <2>. QED
    BY <2>1 DEF LiesAt
<1>5. PICK g \in Frame : /\ LiesAt(g, 1, 1)
                         /\ Waiting > 0 => g = frames[Len(replies) + 1]
                         /\ Waiting = 0 => g.op = "write"
  <2>1. CASE Waiting > 0
    <3>1. 1 \in 1 .. Waiting
      BY <2>1, <1>3
    <3>2. q[1] < q[1 + 1] /\ frames[Len(replies) + 1] \in Frame
      BY <3>1, <1>1, <1>2, LayoutFacts, Counters
    <3>3. LiesAt(frames[Len(replies) + 1], q[1], 1)
      BY <3>1, <3>2, <1>2, <1>3 DEF Layout
    <3>. QED
      BY <3>2, <3>3, <2>1, <1>3
  <2>2. CASE Waiting = 0
    <3>1. Broken(1)
      BY <2>2, <1>2, <1>3 DEF Layout
    <3>2. PICK f \in Frame : /\ Len(stream) - 1 < Payload(f)
                             /\ \A p \in 1 .. Len(stream) : 1 <= p => LiesAt(f, 1, p)
      BY <3>1 DEF Broken
    <3>3. f.op = "write"
      BY <3>2, <1>3, FrameFacts
    <3>. QED
      BY <3>2, <3>3, <2>2, <1>3
  <2>. QED
    BY <2>1, <2>2, <1>3
<1>6. /\ header' = g /\ g # NoFrame
      /\ pc' = IF g.op = "write" THEN "payload" ELSE "answer"
      /\ stream' = Tail(stream)
      /\ UNCHANGED <<frames, cut, replies, stopped, closed>>
  <2>1. Head(stream) = stream[1]
    BY <1>3
  <2>2. stream[1].frame = g /\ stream[1].kind = "header"
    BY <1>4, <1>5
  <2>. QED
    BY <2>1, <2>2, FrameFacts DEF ReadHeader, HasPayload
<1>7. /\ stream' \in Seq(Unit) /\ Len(stream') = Len(stream) - 1
      /\ \A p \in 1 .. Len(stream') : stream'[p] = stream[p + 1]
  <2>1. stream \in Seq(Unit) /\ stream # <<>>
    BY <1>1 DEF ReadHeader, TypeOK
  <2>. QED
    BY <2>1, <1>6, HeadTailProperties
<1>8. TypeOK'
  BY <1>1, <1>6, <1>7 DEF TypeOK
<1>9. ServerInv'
  <2>1. RepliesAreInStep' /\ NoOkBehindText'
    BY <1>1, <1>6, RepliesKept DEF ServerInv, RepliesAreInStep
  <2>. QED
    BY <2>1, <1>1, <1>3, <1>5, <1>6 DEF ServerInv, Waiting, ErrorMeansCut
<1>10. First' = First - 1
  BY <1>3, <1>6, FrameFacts DEF First
<1>11. ASSUME NEW f \in Frame, Waiting = 0,
              \A p \in 1 .. Len(stream) : q[Waiting + 1] <= p =>
                LiesAt(f, q[Waiting + 1], p)
       PROVE  f = header'
  <2>1. LiesAt(f, 1, 1)
    BY <1>11, <1>3
  <2>. QED
    BY <2>1, <1>4, <1>5, <1>6
<1>12. Layout(Positions)'
  <2>1. 1 \in Nat /\ 1 <= Len(stream)
    BY <1>3
  <2>. QED
    <3>1. PICK r : r = [k \in 1 .. Waiting + 1 |-> q[k] - 1] /\ Layout(r)'
      BY <2>1, <1>1, <1>2, <1>6, <1>7, <1>10, <1>11, UnitsRead
    <3>2. Positions' = [k \in 1 .. Waiting + 1 |-> Positions[k] - 1]
      BY <2>1, <1>1, <1>6, <1>10, PositionsRead
    <3>. QED
      BY <3>1, <3>2, <1>2
<1>. QED
  BY <1>8, <1>9, <1>12 DEF IInv

\* A payload is read whole, or the kernel has cut it and left.
LEMMA ReadPayloadStep ==
  ASSUME IInv, ReadPayload
  PROVE  IInv'
<1>1. TypeOK /\ ServerInv
  BY DEF IInv
<1>2. PICK q : q = Positions /\ Layout(q)
  BY DEF IInv, ReadPayload
<1>. DEFINE d == header.length
<1>3. /\ pc = "payload" /\ header \in Frame /\ header.op = "write"
      /\ header # NoFrame
      /\ d \in Nat \ {0} /\ d = Payload(header)
      /\ First = 0 /\ q[1] = 0
      /\ Waiting \in Nat /\ Len(stream) \in Nat
  <2>1. pc = "payload" /\ header.op = "write" /\ header \in Frame \cup {NoFrame}
    BY <1>1 DEF ReadPayload, TypeOK
  <2>2. header \in Frame
    BY <2>1, NoFrameFacts
  <2>3. First = 0 /\ q[1] = First
    BY <1>1, <1>2, <2>1, FirstFacts, LayoutFacts
  <2>. QED
    BY <2>1, <2>2, <2>3, <1>1, FrameFacts, Counters, StreamBoundsAssumption
<1>4. CASE Len(stream) >= d
  <2>1. Waiting > 0
    <3>1. SUFFICES ASSUME Waiting = 0 PROVE FALSE
      BY <1>3
    <3>2. Broken(0)
      BY <3>1, <1>2, <1>3 DEF Layout
    <3>3. Len(stream) - 0 < Payload(header)
      BY <3>1, <3>2, <1>3 DEF Broken
    <3>. QED
      BY <3>3, <1>3, <1>4
  <2>2. /\ stream' = SubSeq(stream, d + 1, Len(stream)) /\ pc' = "answer"
        /\ UNCHANGED <<frames, cut, header, replies, stopped, closed>>
    BY <1>4 DEF ReadPayload
  <2>3. /\ stream' \in Seq(Unit) /\ Len(stream') = Len(stream) - d
        /\ \A p \in 1 .. Len(stream') : stream'[p] = stream[p + d]
    <3>1. \A i \in d + 1 .. Len(stream) : stream[i] \in Unit
      BY <1>1, <1>3, Counters
    <3>2. /\ SubSeq(stream, d + 1, Len(stream)) \in Seq(Unit)
          /\ Len(SubSeq(stream, d + 1, Len(stream))) =
               IF d + 1 <= Len(stream) THEN Len(stream) - (d + 1) + 1 ELSE 0
          /\ \A i \in 1 .. Len(stream) - (d + 1) + 1 :
               SubSeq(stream, d + 1, Len(stream))[i] = stream[d + 1 + i - 1]
      BY <3>1, <1>3, SubSeqProperties
    <3>. QED
      BY <3>2, <2>2, <1>3, <1>4
  <2>4. TypeOK'
    BY <1>1, <2>2, <2>3 DEF TypeOK
  <2>5. ServerInv'
    BY <1>1, <1>3, <2>1, <2>2
    DEF ServerInv, Waiting, RepliesAreInStep, InStep, NoOkBehindText,
        ErrorMeansCut
  <2>6. First' = First - d
    BY <1>3, <2>2 DEF First
  <2>7. Layout(Positions)'
    <3>0. /\ Layout(q) /\ d \in Nat /\ d <= Len(stream) /\ pc' # "payload"
          /\ UNCHANGED <<frames, cut, replies>>
      BY <1>2, <1>3, <1>4, <2>2
    <3>1. PICK r : r = [k \in 1 .. Waiting + 1 |-> q[k] - d] /\ Layout(r)'
      BY <3>0, <1>1, <2>3, <2>6, UnitsRead
    <3>2. Positions' = [k \in 1 .. Waiting + 1 |-> Positions[k] - d]
      BY <1>1, <1>3, <2>2, <2>6, PositionsRead
    <3>. QED
      BY <3>1, <3>2, <1>2
  <2>. QED
    BY <2>4, <2>5, <2>7 DEF IInv
<1>5. CASE ~(Len(stream) >= d)
  <2>1. cut /\ pc' = "error"
        /\ UNCHANGED <<stream, frames, cut, header, replies, stopped, closed>>
    BY <1>5 DEF ReadPayload
  <2>2. TypeOK'
    BY <1>1, <2>1 DEF TypeOK
  <2>3. ServerInv'
    BY <1>1, <2>1
    DEF ServerInv, Waiting, RepliesAreInStep, InStep, NoOkBehindText,
        ErrorMeansCut
  <2>. QED
    BY <2>1, <2>2, <2>3 DEF IInv
<1>. QED
  BY <1>4, <1>5

\* What is written for an answer is a reply, with as much data as the request
\* and the error code say, or the text behind the EIO of a read.
LEMMA ReplyFacts ==
  ASSUME NEW f \in Frame, NEW response \in BridgeAnswers(f), closed \in BOOLEAN
  PROVE  LET reply == ReplyTo(f, response)
         IN  /\ reply \in Reply
             /\ reply.handle = f.handle
             /\ \/ reply.data = IF f.op = "read" /\ reply.errno = "ok"
                                THEN f.length ELSE 0
                \/ closed /\ f.op = "read" /\ f.valid /\ reply.errno = "EIO"
             /\ reply.errno = "ok" => ~closed
<1>. DEFINE chosen == Chosen(f, response)
<1>1. /\ response.errno \in {"ok", "EINVAL", "EIO"}
      /\ response.data \in 0 .. MaxLength + 1
      /\ closed => response.errno = "EIO"
      /\ response.errno = "ok" \/ response.data = 0 \/ closed
  <2>1. CASE closed
    <3>1. response \in [errno : {"EIO"}, data : 1 .. MaxLength + 1]
      BY <2>1 DEF BridgeAnswers, ClosedAnswers
    <3>. QED
      BY <2>1, <3>1, StreamBoundsAssumption
  <2>2. CASE ~closed
    <3>1. \/ response \in [errno : {"EINVAL", "EIO"}, data : {0}]
          \/ response \in [errno : {"ok"}, data : 0 .. MaxLength + 1]
          \/ response \in [errno : {"ok"}, data : {0}]
      BY <2>2 DEF BridgeAnswers, LoopAnswers
    <3>. QED
      BY <2>2, <3>1, StreamBoundsAssumption
  <2>. QED
    BY <2>1, <2>2
<1>2. /\ chosen.errno \in {"ok", "EINVAL", "EIO"}
      /\ chosen.data \in 0 .. MaxLength + 1
      /\ \/ chosen.data = IF f.op = "read" /\ chosen.errno = "ok" THEN f.length ELSE 0
         \/ closed /\ f.op = "read" /\ f.valid /\ chosen.errno = "EIO"
      /\ chosen.errno = "ok" => ~closed
  <2>1. CASE f.op = "other" \/ ~f.valid
    <3>1. chosen = [errno |-> "EINVAL", data |-> 0]
      BY <2>1 DEF Chosen
    <3>. QED
      BY <3>1, StreamBoundsAssumption
  <2>2. CASE ~(f.op = "other" \/ ~f.valid)
             /\ f.op = "read" /\ response.errno = "ok" /\ response.data # f.length
    <3>1. chosen = [errno |-> "EIO", data |-> 0]
      BY <2>2 DEF Chosen
    <3>. QED
      BY <3>1, StreamBoundsAssumption
  <2>3. CASE ~(f.op = "other" \/ ~f.valid)
             /\ ~(f.op = "read" /\ response.errno = "ok" /\ response.data # f.length)
    <3>1. /\ chosen.errno = response.errno
          /\ chosen.data = IF f.op = "read" THEN response.data ELSE 0
      BY <2>3 DEF Chosen
    <3>2. f.valid
      BY <2>3, FrameFacts
    <3>. QED
      BY <3>1, <3>2, <2>3, <1>1, StreamBoundsAssumption
  <2>. QED
    BY <2>1, <2>2, <2>3
<1>. HIDE DEF chosen
<1>3. ReplyTo(f, response) =
        [handle |-> f.handle, errno |-> chosen.errno, data |-> chosen.data]
  BY DEF ReplyTo, chosen
<1>4. ReplyTo(f, response) \in Reply
  BY <1>2, <1>3, FrameFacts DEF Reply
<1>. QED
  BY <1>2, <1>3, <1>4

\* The reply is that of the oldest request: the next one begins where the
\* stream does.
LEMMA WriteReplyStep ==
  ASSUME IInv, WriteReply
  PROVE  IInv'
<1>1. TypeOK /\ ServerInv
  BY DEF IInv
<1>2. PICK q : q = Positions /\ Layout(q)
  BY DEF IInv, WriteReply
<1>a. PICK L, W : L = Len(replies) /\ W = Waiting
  OBVIOUS
<1>b. PICK r : r = [k \in 1 .. W |-> q[k + 1]]
  OBVIOUS
<1>3. /\ pc = "answer" /\ W \in Nat \ {0} /\ L \in Nat /\ Len(frames) = L + W
      /\ header = frames[L + 1] /\ header \in Frame
      /\ Len(stream) \in Nat
  <2>1. pc = "answer" /\ Waiting > 0 /\ header = frames[Len(replies) + 1]
    BY <1>1 DEF WriteReply, ServerInv
  <2>2. Waiting \in Nat /\ 1 \in 1 .. Waiting
    BY <1>1, <2>1, Counters
  <2>. QED
    BY <1>1, <1>a, <2>1, <2>2, Counters
<1>4. PICK response \in BridgeAnswers(header) :
        replies' = Append(replies, ReplyTo(header, response))
  BY DEF WriteReply
<1>5. /\ pc' = "header" /\ header' = NoFrame
      /\ UNCHANGED <<stream, frames, cut, stopped, closed>>
  BY DEF WriteReply
<1>6. /\ replies' \in Seq(Reply) /\ Len(replies') = L + 1
      /\ \A i \in 1 .. L : replies'[i] = replies[i]
      /\ replies'[L + 1] = ReplyTo(header, response)
  <2>1. replies \in Seq(Reply)
    BY <1>1 DEF TypeOK
  <2>2. ReplyTo(header, response) \in Reply
    BY <1>1, <1>3, ReplyFacts DEF TypeOK
  <2>. QED
    BY <2>1, <2>2, <1>a, <1>4, AppendProperties
<1>7. Waiting' = W - 1 /\ W - 1 \in Nat /\ First' = 1
  BY <1>3, <1>5, <1>6 DEF Waiting, First
<1>8. TypeOK'
  BY <1>1, <1>5, <1>6 DEF TypeOK
<1>9. RepliesAreInStep' /\ NoOkBehindText'
  <2>1. /\ ReplyTo(header, response).handle = header.handle
        /\ \/ ReplyTo(header, response).data =
                IF header.op = "read" /\ ReplyTo(header, response).errno = "ok"
                THEN header.length ELSE 0
           \/ /\ closed /\ header.op = "read" /\ header.valid
              /\ ReplyTo(header, response).errno = "EIO"
        /\ ReplyTo(header, response).errno = "ok" => ~closed
    BY <1>1, <1>3, ReplyFacts DEF TypeOK
  <2>2. ASSUME NEW i \in 1 .. L
        PROVE  InStep(i)' = InStep(i) /\ replies'[i] = replies[i] /\ i <= Len(frames)
               /\ i \in 1 .. Len(replies)
    BY <1>3, <1>5, <1>6, <1>a DEF InStep
  <2>3. RepliesAreInStep'
    <3>1. SUFFICES ASSUME NEW i \in 1 .. L + 1
                   PROVE  /\ i <= Len(frames)
                          /\ replies'[i].handle = frames[i].handle
                          /\ \/ InStep(i)'
                             \/ /\ closed /\ frames[i].op = "read" /\ frames[i].valid
                                /\ replies'[i].errno = "EIO"
      BY <1>5, <1>6 DEF RepliesAreInStep
    <3>2. CASE i \in 1 .. L
      BY <2>2, <3>2, <1>1 DEF ServerInv, RepliesAreInStep
    <3>3. CASE i = L + 1
      BY <2>1, <3>3, <1>3, <1>5, <1>6 DEF InStep
    <3>. QED
      BY <3>2, <3>3, <1>3
  <2>4. NoOkBehindText'
    <3>1. SUFFICES ASSUME NEW i \in 1 .. L + 1, NEW j \in 1 .. L + 1, i < j, ~InStep(i)'
                   PROVE  replies'[j].errno # "ok"
      BY <1>6 DEF NoOkBehindText
    <3>2. i \in 1 .. L /\ (j \in 1 .. L \/ j = L + 1)
      BY <3>1, <1>3
    <3>3. ~InStep(i) /\ closed
      BY <3>1, <3>2, <2>2, <1>1 DEF ServerInv, RepliesAreInStep
    <3>4. CASE j \in 1 .. L
      BY <3>1, <3>2, <3>3, <3>4, <2>2, <1>1 DEF ServerInv, NoOkBehindText
    <3>5. CASE j = L + 1
      BY <3>3, <3>5, <2>1, <1>6
    <3>. QED
      BY <3>2, <3>4, <3>5
  <2>. QED
    BY <2>3, <2>4
<1>10. ServerInv'
  BY <1>1, <1>5, <1>7, <1>9 DEF ServerInv, ErrorMeansCut
<1>11. /\ \A k \in 1 .. W + 1 : q[k] \in Int
       /\ q[2] = 1 /\ q[W + 1] \in Int
       /\ q[W + 1] <= Len(stream) + 1
       /\ ~cut => q[W + 1] = Len(stream) + 1
       /\ \A k \in 1 .. W : q[k + 1] = q[k] + Payload(frames[L + k]) + 1
       /\ \A j, k \in 1 .. W + 1 : j < k => q[j] < q[k]
  <2>1. First = -Payload(header) /\ q[1] = First /\ Payload(header) \in Nat
    BY <1>1, <1>2, <1>3, FirstFacts, LayoutFacts, FrameFacts
  <2>2. \A k \in 1 .. W : q[k + 1] = q[k] + Payload(frames[L + k]) + 1
    BY <1>1, <1>2, <1>a, LayoutFacts
  <2>3. q[1 + 1] = q[1] + Payload(header) + 1
    BY <2>2, <1>3
  <2>4. q[2] = 1
    BY <2>1, <2>3
  <2>5. \A j, k \in 1 .. W + 1 : j < k => q[j] < q[k]
    BY <1>2, <1>a DEF Layout
  <2>. QED
    BY <1>1, <1>2, <1>a, <2>2, <2>4, <2>5, LayoutFacts
<1>12. /\ \A p \in 1 .. Len(stream) : p < q[W + 1] =>
            \E k \in 1 .. W : q[k] <= p /\ p < q[k + 1]
       /\ \A k \in 1 .. W, p \in 1 .. Len(stream) :
            q[k] <= p /\ p < q[k + 1] => LiesAt(frames[L + k], q[k], p)
       /\ q[W + 1] <= Len(stream) => Broken(q[W + 1])
  BY <1>2, <1>a DEF Layout
<1>13. /\ r \in [1 .. W -> Int] /\ r[1] = 1 /\ r[W] = q[W + 1]
       /\ \A k \in 1 .. W : r[k] = q[k + 1]
  BY <1>3, <1>b, <1>11
<1>14. ASSUME NEW k \in 1 .. W - 1
       PROVE  /\ k \in 1 .. W /\ k + 1 \in 1 .. W /\ k + 1 \in 1 .. W + 1
              /\ r[k] = q[k + 1] /\ r[k + 1] = q[k + 1 + 1]
              /\ r[k] \in Int /\ r[k + 1] \in Int
  <2>1. k \in 1 .. W /\ k + 1 \in 1 .. W /\ k + 1 \in 1 .. W + 1
    BY <1>3
  <2>. QED
    BY <2>1, <1>13
<1>15. ASSUME NEW k \in 1 .. W - 1
       PROVE  r[k + 1] = r[k] + Payload(frames[L + 1 + k]) + 1
  <2>1. PICK j \in 1 .. W : j = k + 1
    BY <1>14
  <2>2. q[j + 1] = q[j] + Payload(frames[L + j]) + 1
    BY <1>11
  <2>3. L + j = L + 1 + k
    BY <2>1, <1>3
  <2>. QED
    BY <2>1, <2>2, <2>3, <1>14
<1>16. ASSUME NEW j \in 1 .. W, NEW k \in 1 .. W, j < k
       PROVE  r[j] < r[k]
  <2>1. j + 1 \in 1 .. W + 1 /\ k + 1 \in 1 .. W + 1 /\ j + 1 < k + 1
    BY <1>3, <1>16
  <2>2. q[j + 1] < q[k + 1]
    BY <2>1, <1>11
  <2>. QED
    BY <2>2, <1>13
<1>17. ASSUME NEW p \in 1 .. Len(stream), p < r[W]
       PROVE  \E k \in 1 .. W - 1 : r[k] <= p /\ p < r[k + 1]
  <2>1. PICK j \in 1 .. W : q[j] <= p /\ p < q[j + 1]
    BY <1>12, <1>13, <1>17
  <2>2. j # 1
    BY <2>1, <1>11
  <2>3. PICK k \in 1 .. W - 1 : j = k + 1
    <3>1. j - 1 \in 1 .. W - 1 /\ j = (j - 1) + 1
      BY <2>2, <1>3
    <3>. QED
      BY <3>1
  <2>4. r[k] <= p /\ p < r[k + 1]
    BY <2>1, <2>3, <1>14
  <2>. QED
    BY <2>4
<1>18. ASSUME NEW k \in 1 .. W - 1, NEW p \in 1 .. Len(stream), r[k] <= p, p < r[k + 1]
       PROVE  LiesAt(frames[L + 1 + k], r[k], p)
  <2>1. PICK j \in 1 .. W : j = k + 1
    BY <1>14
  <2>2. q[j] <= p /\ p < q[j + 1] /\ q[j] = r[k]
    BY <2>1, <1>14, <1>18
  <2>3. LiesAt(frames[L + j], q[j], p)
    BY <2>2, <1>12
  <2>4. L + j = L + 1 + k
    BY <2>1, <1>3
  <2>. QED
    BY <2>2, <2>3, <2>4
<1>19. ASSUME Broken(r[W]) PROVE Broken(r[W])'
  BY <1>5, <1>19 DEF Broken, LiesAt
<1>20. r[W] <= Len(stream) + 1 /\ (~cut => r[W] = Len(stream) + 1)
       /\ (r[W] <= Len(stream) => Broken(r[W]))
  BY <1>11, <1>12, <1>13
<1>21. Layout(r)'
  <2>1. Waiting' + 1 = W
    BY <1>3, <1>7
  <2>. QED
    BY <2>1, <1>5, <1>6, <1>7, <1>13, <1>15, <1>16, <1>17, <1>18, <1>19, <1>20
    DEF Layout, LiesAt
<1>22. r = Positions'
  <2>1. ASSUME NEW k \in 1 .. W PROVE StartOf(k)' = q[k + 1]
    <3>1. k + 1 \in 1 .. Waiting + 1 /\ L + 1 \in Nat \ {0} /\ L + k \in Nat
          /\ L + k <= Len(frames) /\ L + 1 <= L + k
          /\ Len(replies') + 1 = L + 1 + 1 /\ Len(replies') + k - 1 = L + k
          /\ Len(replies) + (k + 1) - 1 = L + k
      BY <1>3, <1>6, <1>a
    <3>2. PICK c, e : /\ c = Cardinality(SentUnits(frames, L + 1, L + k))
                      /\ e = Cardinality(SentUnits(frames, L + 1 + 1, L + k))
      OBVIOUS
    <3>3. StartOf(k)' = 1 + e
      BY <3>1, <3>2, <1>5, <1>7 DEF StartOf
    <3>4. q[k + 1] = First + c
      BY <3>1, <3>2, <1>1, <1>2, <1>a, StartFacts DEF StartOf
    <3>5. First = -Payload(header) /\ Payload(header) \in Nat
      BY <1>1, <1>3, FirstFacts, FrameFacts
    <3>6. c = Payload(header) + 1 + e
      BY <3>1, <3>2, <1>1, <1>3, SentUnitsFacts DEF TypeOK
    <3>7. e \in Nat
      BY <3>1, <3>2, <1>1, <1>3, SentUnitsFacts DEF TypeOK
    <3>. QED
      BY <3>3, <3>4, <3>5, <3>6, <3>7
  <2>2. Waiting' + 1 = W
    BY <1>3, <1>7
  <2>. QED
    BY <2>1, <2>2, <1>b DEF Positions
<1>. QED
  BY <1>8, <1>10, <1>21, <1>22 DEF IInv

\* A request is sent: it lies behind the last, on a stream that is whole.
LEMMA KernelSendsStep ==
  ASSUME IInv, NEW f \in Frame, KernelSends(f)
  PROVE  IInv'
<1>1. TypeOK /\ ServerInv
  BY DEF IInv
<1>2. PICK q : q = Positions /\ Layout(q)
  BY DEF IInv, KernelSends, ServerInv, ErrorMeansCut
<1>a. PICK L, W, n : L = Len(replies) /\ W = Waiting /\ n = Payload(f) + 1
  OBVIOUS
<1>b. PICK r : r = [k \in 1 .. W + 2 |-> IF k <= W + 1 THEN q[k] ELSE q[W + 1] + n]
  OBVIOUS
<1>3. /\ L \in Nat /\ W \in Nat /\ Len(frames) = L + W /\ Len(stream) \in Nat
      /\ n \in Nat \ {0} /\ n = Payload(f) + 1
  BY <1>1, <1>a, Counters, FrameFacts
<1>4. /\ ~cut /\ Len(frames) < MaxFrames
      /\ stream' = stream \o UnitsOf(f) /\ frames' = Append(frames, f)
      /\ UNCHANGED <<cut, pc, header, replies, stopped, closed>>
  BY DEF KernelSends, serverVars
<1>5. /\ frames' \in Seq(Frame) /\ Len(frames') = L + W + 1
      /\ \A i \in 1 .. L + W : frames'[i] = frames[i]
      /\ frames'[L + W + 1] = f
  BY <1>1, <1>3, <1>4, AppendProperties DEF TypeOK
<1>6. /\ stream' \in Seq(Unit) /\ Len(stream') = Len(stream) + n
      /\ \A p \in 1 .. Len(stream) : stream'[p] = stream[p]
      /\ \A p \in Len(stream) + 1 .. Len(stream') :
           stream'[p] = UnitsOf(f)[p - Len(stream)]
  <2>1. stream \in Seq(Unit) /\ UnitsOf(f) \in Seq(Unit) /\ Len(UnitsOf(f)) = n
    BY <1>1, <1>a, UnitsFacts DEF TypeOK
  <2>2. /\ stream' \in Seq(Unit) /\ Len(stream') = Len(stream) + n
        /\ \A p \in 1 .. Len(stream) + n :
             stream'[p] = IF p <= Len(stream) THEN stream[p]
                                              ELSE UnitsOf(f)[p - Len(stream)]
    BY <2>1, <1>4, ConcatProperties
  <2>. QED
    BY <2>2, <1>3
<1>7. TypeOK'
  <2>1. Len(frames') <= MaxFrames
    BY <1>3, <1>4, <1>5, StreamBoundsAssumption
  <2>. QED
    BY <2>1, <1>1, <1>4, <1>5, <1>6 DEF TypeOK
<1>8. Waiting' = W + 1 /\ First' = First
  BY <1>3, <1>4, <1>5, <1>a DEF Waiting, First
<1>9. /\ \A k \in 1 .. W + 1 : q[k] \in Int
      /\ q[1] = First /\ First <= 1
      /\ q[W + 1] = Len(stream) + 1
      /\ \A k \in 1 .. W : q[k + 1] = q[k] + Payload(frames[L + k]) + 1
      /\ \A k \in 1 .. W : q[k + 1] <= q[W + 1]
      /\ \A j, k \in 1 .. W + 1 : j < k => q[j] < q[k]
  <2>1. \A j, k \in 1 .. W + 1 : j < k => q[j] < q[k]
    BY <1>2, <1>a DEF Layout
  <2>. QED
    BY <2>1, <1>1, <1>2, <1>4, <1>a, LayoutFacts, FirstFacts
<1>10. /\ \A p \in 1 .. Len(stream) : p < q[W + 1] =>
            \E k \in 1 .. W : q[k] <= p /\ p < q[k + 1]
       /\ \A k \in 1 .. W, p \in 1 .. Len(stream) :
            q[k] <= p /\ p < q[k + 1] => LiesAt(frames[L + k], q[k], p)
  BY <1>2, <1>a DEF Layout
<1>11. ServerInv'
  <2>1. ASSUME pc \in {"payload", "answer"} PROVE W > 0
    <3>1. pc = "answer" => W > 0
      BY <1>1, <1>a DEF ServerInv
    <3>2. pc = "payload" => First = 0
      BY <1>1, FirstFacts
    <3>3. W = 0 => First = Len(stream) + 1
      BY <1>9
    <3>. QED
      BY <2>1, <3>1, <3>2, <3>3, <1>3
  <2>2. W > 0 => frames'[L + 1] = frames[L + 1]
    BY <1>3, <1>5
  <2>3. RepliesAreInStep' /\ NoOkBehindText'
    <3>1. \A i \in 1 .. Len(replies) : i \in 1 .. L + W /\ i <= Len(frames')
      BY <1>3, <1>5, <1>a
    <3>. QED
      BY <3>1, <1>1, <1>4, <1>5, RepliesKept
  <2>. QED
    BY <2>1, <2>2, <2>3, <1>1, <1>3, <1>4, <1>8, <1>a DEF ServerInv, ErrorMeansCut
<1>12. /\ r \in [1 .. W + 2 -> Int]
       /\ \A k \in 1 .. W + 1 : r[k] = q[k]
       /\ r[W + 2] = Len(stream') + 1
       /\ r[1] = First
  <2>1. W + 2 \in 1 .. W + 2 /\ 1 \in 1 .. W + 1 /\ W + 1 \in 1 .. W + 1
        /\ \A k \in 1 .. W + 1 : k \in 1 .. W + 2 /\ k <= W + 1
        /\ ~(W + 2 <= W + 1)
    BY <1>3
  <2>2. \A k \in 1 .. W + 2 : r[k] = IF k <= W + 1 THEN q[k] ELSE q[W + 1] + n
    BY <1>b
  <2>3. r[W + 2] = q[W + 1] + n /\ \A k \in 1 .. W + 1 : r[k] = q[k]
    BY <2>1, <2>2
  <2>4. r \in [1 .. W + 2 -> Int]
    BY <2>1, <1>3, <1>9, <1>b
  <2>. QED
    BY <2>1, <2>3, <2>4, <1>3, <1>6, <1>9
<1>13. ASSUME NEW k \in 1 .. W
       PROVE  /\ k \in 1 .. W + 1 /\ k + 1 \in 1 .. W + 1
              /\ r[k] = q[k] /\ r[k + 1] = q[k + 1] /\ q[k] \in Int /\ q[k + 1] \in Int
              /\ frames'[L + k] = frames[L + k]
  <2>1. k \in 1 .. W + 1 /\ k + 1 \in 1 .. W + 1 /\ L + k \in 1 .. L + W
    BY <1>3
  <2>. QED
    BY <2>1, <1>5, <1>9, <1>12
<1>14. r[W + 1] = Len(stream) + 1 /\ r[W + 1 + 1] = Len(stream') + 1
       /\ frames'[L + (W + 1)] = f
  <2>1. W + 1 \in 1 .. W + 1 /\ W + 1 + 1 = W + 2 /\ L + (W + 1) = L + W + 1
    BY <1>3
  <2>. QED
    BY <2>1, <1>5, <1>9, <1>12
<1>15. ASSUME NEW k \in 1 .. W + 1
       PROVE  r[k + 1] = r[k] + Payload(frames'[L + k]) + 1
  <2>1. CASE k \in 1 .. W
    <3>1. q[k + 1] = q[k] + Payload(frames[L + k]) + 1
      BY <2>1, <1>9
    <3>. QED
      BY <2>1, <3>1, <1>13
  <2>2. CASE k = W + 1
    <3>1. frames'[L + k] = f /\ r[k] = Len(stream) + 1 /\ r[k + 1] = Len(stream) + n + 1
      BY <2>2, <1>6, <1>14
    <3>. QED
      BY <3>1, <1>3, FrameFacts
  <2>. QED
    BY <2>1, <2>2, <1>3
<1>16. ASSUME NEW j \in 1 .. W + 2, NEW k \in 1 .. W + 2, j < k
       PROVE  r[j] < r[k]
  <2>1. CASE k \in 1 .. W + 1
    <3>1. j \in 1 .. W + 1
      BY <2>1, <1>16, <1>3
    <3>. QED
      BY <2>1, <3>1, <1>9, <1>12, <1>16
  <2>2. CASE k = W + 2
    <3>1. j \in 1 .. W + 1
      BY <2>2, <1>16, <1>3
    <3>2. r[j] = q[j] /\ q[j] \in Int /\ (j = W + 1 \/ q[j] < q[W + 1])
      BY <3>1, <1>3, <1>9, <1>12
    <3>3. r[j] <= Len(stream) + 1
      BY <3>2, <1>3, <1>9
    <3>. QED
      BY <2>2, <3>2, <3>3, <1>3, <1>6, <1>12
  <2>. QED
    BY <2>1, <2>2, <1>3
<1>17. ASSUME NEW p \in 1 .. Len(stream')
       PROVE  \E k \in 1 .. W + 1 : r[k] <= p /\ p < r[k + 1]
  <2>1. CASE p \in 1 .. Len(stream)
    <3>3. p < q[W + 1]
      BY <2>1, <1>3, <1>9
    <3>1. PICK k \in 1 .. W : q[k] <= p /\ p < q[k + 1]
      BY <2>1, <3>3, <1>10
    <3>2. k \in 1 .. W + 1 /\ r[k] <= p /\ p < r[k + 1]
      BY <3>1, <1>13
    <3>. QED
      BY <3>2
  <2>2. CASE p > Len(stream)
    <3>1. W + 1 \in 1 .. W + 1 /\ r[W + 1] <= p /\ p < r[W + 1 + 1]
      BY <2>2, <1>3, <1>6, <1>14
    <3>. QED
      BY <3>1
  <2>3. p \in 1 .. Len(stream) \/ p > Len(stream)
    BY <1>3, <1>6
  <2>. QED
    BY <2>1, <2>2, <2>3
<1>18. ASSUME NEW k \in 1 .. W + 1, NEW p \in 1 .. Len(stream'), r[k] <= p, p < r[k + 1]
       PROVE  LiesAt(frames[L + k], r[k], p)'
  <2>1. CASE k \in 1 .. W
    <3>1. p \in 1 .. Len(stream) /\ q[k] <= p /\ p < q[k + 1]
      <4>1. q[k + 1] <= Len(stream) + 1 /\ q[k + 1] \in Int
        BY <2>1, <1>9, <1>13
      <4>2. q[k] <= p /\ p < q[k + 1]
        BY <2>1, <1>13, <1>18
      <4>. QED
        BY <4>1, <4>2, <1>3, <1>6
    <3>2. LiesAt(frames[L + k], q[k], p)
      BY <2>1, <3>1, <1>10
    <3>. QED
      BY <2>1, <3>1, <3>2, <1>4, <1>6, <1>13, <1>a DEF LiesAt
  <2>2. CASE k = W + 1
    <3>1. p \in Len(stream) + 1 .. Len(stream') /\ p - r[k] + 1 = p - Len(stream)
      BY <2>2, <1>3, <1>6, <1>14, <1>18
    <3>2. stream'[p] = UnitsOf(f)[p - Len(stream)]
      BY <3>1, <1>6
    <3>. QED
      BY <2>2, <3>1, <3>2, <1>4, <1>14, <1>a DEF LiesAt
  <2>. QED
    BY <2>1, <2>2, <1>3
<1>19. Layout(r)'
  <2>1. Waiting' + 1 = W + 2 /\ r[W + 2] = Len(stream') + 1 /\ ~(r[W + 2] <= Len(stream'))
        /\ r[W + 2] <= Len(stream') + 1
    BY <1>3, <1>6, <1>8, <1>12
  <2>2. Len(replies') = L
    BY <1>4, <1>a
  <2>. QED
    BY <2>1, <2>2, <1>8, <1>12, <1>15, <1>16, <1>17, <1>18 DEF Layout
<1>20. r = Positions'
  <2>1. frames \in Seq(Frame) /\ L + 1 \in Nat \ {0}
    BY <1>1, <1>3 DEF TypeOK
  <2>2. ASSUME NEW k \in 1 .. W + 1 PROVE StartOf(k)' = q[k]
    <3>1. \A i \in L + 1 .. L + k - 1 : frames'[i] = frames[i]
      BY <1>3, <1>5
    <3>2. SentUnits(frames', L + 1, L + k - 1) = SentUnits(frames, L + 1, L + k - 1)
      BY <3>1, SentUnitsSame
    <3>. QED
      BY <3>2, <1>1, <1>2, <1>4, <1>8, <1>a, StartFacts DEF StartOf
  <2>3. StartOf(W + 2)' = q[W + 1] + n
    <3>1. PICK e : e = L + W + 1
      OBVIOUS
    <3>2. e \in Nat /\ e <= Len(frames') /\ L + 1 <= e /\ e - 1 = L + (W + 1) - 1
          /\ e = L + (W + 2) - 1
      BY <3>1, <1>3, <1>5
    <3>3. Cardinality(SentUnits(frames', L + 1, e)) =
            Cardinality(SentUnits(frames', L + 1, e - 1)) + Payload(frames'[e]) + 1
      BY <3>2, <2>1, <1>5, SentUnitsFacts
    <3>4. PICK c \in Nat : c = Cardinality(SentUnits(frames', L + 1, e - 1))
      <4>1. e - 1 \in Nat /\ e - 1 <= Len(frames')
        BY <3>2, <3>1, <1>3
      <4>2. Cardinality(SentUnits(frames', L + 1, e - 1)) \in Nat
        BY <4>1, <2>1, <1>5, SentUnitsFacts
      <4>. QED
        BY <4>2
    <3>5. Payload(frames'[e]) + 1 = n
      BY <3>1, <1>3, <1>5
    <3>6. StartOf(W + 2)' = First + (c + Payload(frames'[e]) + 1)
      BY <3>2, <3>3, <3>4, <1>4, <1>8, <1>a DEF StartOf
    <3>7. StartOf(W + 1)' = First + c
      BY <3>2, <3>4, <1>4, <1>8, <1>a DEF StartOf
    <3>8. StartOf(W + 1)' = q[W + 1]
      BY <2>2, <1>3
    <3>9. Payload(frames'[e]) \in Nat /\ First \in Int
      BY <3>1, <1>1, <1>5, FrameFacts, FirstFacts
    <3>10. q[W + 1] = First + c
      BY <3>7, <3>8
    <3>11. First + (c + Payload(frames'[e]) + 1) = q[W + 1] + n
      BY <3>4, <3>5, <3>9, <3>10
    <3>. QED
      BY <3>6, <3>11
  <2>4. Waiting' + 1 = W + 2
    BY <1>3, <1>8
  <2>5. ASSUME NEW k \in 1 .. W + 2 PROVE StartOf(k)' = r[k]
    <3>1. CASE k \in 1 .. W + 1
      BY <3>1, <2>2, <1>12
    <3>2. CASE k = W + 2
      <4>1. r[k] = q[W + 1] + n
        BY <3>2, <1>3, <1>b
      <4>2. StartOf(k)' = StartOf(W + 2)'
        BY <3>2
      <4>. QED
        BY <4>1, <4>2, <2>3
    <3>. QED
      BY <3>1, <3>2, <1>3
  <2>. QED
    BY <2>4, <2>5, <1>12 DEF Positions
<1>. QED
  BY <1>7, <1>11, <1>19, <1>20 DEF IInv

\* The kernel leaves n units of a stream that is whole, and the cut falls into
\* the k-th request that waits: that one and those behind it are lost, each
\* with its last unit.
LEMMA LostRequests ==
  ASSUME TypeOK, ServerInv, ~cut, NEW q, Layout(q),
         NEW n \in 0 .. Len(stream),
         NEW k \in 1 .. Waiting, q[k] <= n + 1, n + 1 < q[k + 1]
  PROVE  Cardinality({i \in n + 1 .. Len(stream) : stream[i].last}) = Waiting - k + 1
<1>. DEFINE lost == {i \in n + 1 .. Len(stream) : stream[i].last}
<1>a. PICK L, W : L = Len(replies) /\ W = Waiting
  OBVIOUS
<1>b. PICK g : g = [j \in k .. W |-> q[j + 1] - 1]
  OBVIOUS
<1>1. /\ L \in Nat /\ W \in Nat /\ Len(stream) \in Nat /\ n \in Nat /\ k \in 1 .. W
      /\ \A j \in 1 .. W : frames[L + j] \in Frame
  BY <1>a, Counters
<1>2. /\ \A j \in 1 .. W + 1 : q[j] \in Int
      /\ \A j \in 1 .. W : q[j + 1] = q[j] + Payload(frames[L + j]) + 1
      /\ \A j \in 1 .. W : q[j] < q[j + 1] /\ q[j + 1] <= q[W + 1]
      /\ q[W + 1] = Len(stream) + 1
  BY <1>a, LayoutFacts
<1>3. /\ \A i, j \in 1 .. W + 1 : i < j => q[i] < q[j]
      /\ \A p \in 1 .. Len(stream) : p < q[W + 1] =>
           \E j \in 1 .. W : q[j] <= p /\ p < q[j + 1]
      /\ \A j \in 1 .. W, p \in 1 .. Len(stream) :
           q[j] <= p /\ p < q[j + 1] => LiesAt(frames[L + j], q[j], p)
  BY <1>a DEF Layout
<1>4. ASSUME NEW j \in 1 .. W
      PROVE  /\ j \in 1 .. W + 1 /\ j + 1 \in 1 .. W + 1
             /\ q[j] \in Int /\ q[j + 1] \in Int /\ q[j] < q[j + 1]
             /\ q[j + 1] <= Len(stream) + 1
             /\ q[j + 1] = q[j] + Payload(frames[L + j]) + 1
             /\ Payload(frames[L + j]) \in Nat
  <2>1. j \in 1 .. W + 1 /\ j + 1 \in 1 .. W + 1
    BY <1>1
  <2>2. Payload(frames[L + j]) \in Nat
    BY <1>1, FrameFacts
  <2>. QED
    BY <2>1, <2>2, <1>2
\* The last unit of a request is the one before the next request.
<1>5. ASSUME NEW j \in 1 .. W, NEW p \in 1 .. Len(stream), q[j] <= p, p < q[j + 1]
      PROVE  stream[p].last = (p = q[j + 1] - 1)
  <2>. DEFINE f == frames[L + j]
  <2>1. stream[p] = UnitsOf(f)[p - q[j] + 1] /\ f \in Frame
    BY <1>1, <1>3, <1>5 DEF LiesAt
  <2>2. PICK e \in 1 .. Payload(f) + 1 : e = p - q[j] + 1
    <3>. DEFINE b == q[j]  c == Payload(f)  d == q[j + 1]
    <3>1. b \in Int /\ c \in Nat /\ d = b + c + 1
      BY <1>4
    <3>2. p \in Int /\ b <= p /\ p < d
      BY <1>5
    <3>. HIDE DEF f, b, c, d
    <3>3. p - b + 1 \in 1 .. c + 1
      BY <3>1, <3>2
    <3>. QED
      BY <3>3 DEF b, c
  <2>3. UnitsOf(f)[e].last = (e = Payload(f) + 1)
    BY <2>1, <2>2, UnitsFacts
  <2>4. (e = Payload(f) + 1) = (p = q[j + 1] - 1)
    <3>. DEFINE b == q[j]  c == Payload(f)  d == q[j + 1]
    <3>1. /\ b \in Int /\ c \in Nat /\ d = b + c + 1
          /\ p \in Int /\ e \in Int /\ e = p - b + 1
      BY <1>4, <2>2
    <3>. HIDE DEF f, b, c, d
    <3>2. e = c + 1 <=> p = d - 1
      BY <3>1
    <3>. QED
      BY <3>2 DEF b, c, d
  <2>. QED
    BY <2>1, <2>2, <2>3, <2>4
<1>6. g \in [k .. W -> lost]
  <2>1. SUFFICES ASSUME NEW j \in k .. W PROVE q[j + 1] - 1 \in lost
    BY <1>b
  <2>2. j \in 1 .. W
    BY <1>1
  <2>3. q[k + 1] <= q[j + 1]
    <3>1. k + 1 \in 1 .. W + 1 /\ j + 1 \in 1 .. W + 1 /\ (k + 1 < j + 1 \/ k + 1 = j + 1)
      BY <1>1, <2>2
    <3>. QED
      BY <3>1, <1>2, <1>3
  <2>4. q[j] <= q[j + 1] - 1 /\ q[j + 1] - 1 < q[j + 1]
    BY <2>2, <1>4
  <2>5. q[j + 1] - 1 \in n + 1 .. Len(stream)
    <3>1. k \in 1 .. W
      BY <1>1
    <3>2. q[k + 1] \in Int /\ n + 1 < q[k + 1]
      BY <3>1, <1>4
    <3>3. q[j + 1] \in Int /\ q[j + 1] <= Len(stream) + 1
      BY <2>2, <1>4
    <3>. QED
      BY <3>2, <3>3, <2>3, <1>1
  <2>6. PICK p \in n + 1 .. Len(stream) : p = q[j + 1] - 1
    BY <2>5
  <2>7. p \in 1 .. Len(stream) /\ q[j] <= p /\ p < q[j + 1]
    BY <2>4, <2>6, <1>1
  <2>8. stream[p].last = (p = q[j + 1] - 1)
    BY <2>2, <2>7, <1>5
  <2>. QED
    BY <2>6, <2>8
<1>7. ASSUME NEW i \in k .. W, NEW j \in k .. W, g[i] = g[j]
      PROVE  i = j
  <2>1. i + 1 \in 1 .. W + 1 /\ j + 1 \in 1 .. W + 1 /\ i \in 1 .. W /\ j \in 1 .. W
    BY <1>1
  <2>2. q[i + 1] = q[j + 1]
    BY <2>1, <1>2, <1>7, <1>b
  <2>3. ~(i + 1 < j + 1) /\ ~(j + 1 < i + 1)
    BY <2>1, <2>2, <1>2, <1>3
  <2>. QED
    BY <2>1, <2>3
<1>8. ASSUME NEW p \in lost
      PROVE  \E j \in k .. W : g[j] = p
  <2>1. p \in 1 .. Len(stream) /\ p >= n + 1 /\ stream[p].last
    BY <1>1
  <2>0. p < q[W + 1]
    BY <2>1, <1>1, <1>2
  <2>2. PICK j \in 1 .. W : q[j] <= p /\ p < q[j + 1]
    BY <2>0, <2>1, <1>3
  <2>3. p = q[j + 1] - 1
    BY <2>1, <2>2, <1>5
  <2>4. j >= k
    <3>1. SUFFICES ASSUME j < k PROVE FALSE
      BY <1>1
    <3>2. j + 1 \in 1 .. W + 1 /\ k \in 1 .. W + 1 /\ (j + 1 < k \/ j + 1 = k)
      BY <3>1, <1>1
    <3>3. q[j + 1] <= q[k]
      BY <3>2, <1>2, <1>3
    <3>4. q[j + 1] \in Int /\ q[k] \in Int /\ p \in Int /\ p < q[j + 1]
          /\ q[k] <= n + 1 /\ p >= n + 1
      BY <3>2, <2>1, <2>2, <1>2
    <3>5. p = q[j + 1] - 1
      BY <2>3
    <3>6. n \in Int
      BY <1>1
    <3>. QED
      BY <3>3, <3>4, <3>5, <3>6
  <2>. QED
    BY <2>3, <2>4, <1>b, <1>1
<1>9. g \in Bijection(k .. W, lost)
  <2>. HIDE DEF lost
  <2>. QED
    BY <1>6, <1>7, <1>8 DEF Bijection, Injection, Surjection, IsInjective
<1>10. IsFiniteSet(k .. W) /\ Cardinality(k .. W) = W - k + 1
  <2>0. k \in Int /\ W \in Int
    BY <1>1
  <2>1. /\ IsFiniteSet(k .. W)
        /\ Cardinality(k .. W) = IF k > W THEN 0 ELSE W - k + 1
    BY <2>0, FS_Interval
  <2>. QED
    BY <2>1, <1>1
<1>11. Cardinality(lost) = W - k + 1
  <2>. HIDE DEF lost
  <2>. QED
    BY <1>9, <1>10, FS_Bijection DEF ExistsBijection
<1>. QED
  BY <1>11, <1>a

\* The kernel's end goes away: the requests before the cut stay where they
\* are, and what the cut leaves of the next is the broken one.
LEMMA KernelGoesStep ==
  ASSUME IInv, NEW n \in 0 .. Len(stream), KernelGoes(n)
  PROVE  IInv'
<1>. DEFINE lost == {i \in n + 1 .. Len(stream) : stream[i].last}
<1>1. TypeOK /\ ServerInv
  BY DEF IInv
<1>2. PICK q : q = Positions /\ Layout(q)
  BY DEF IInv, KernelGoes, ServerInv, ErrorMeansCut
<1>a. PICK L, W : L = Len(replies) /\ W = Waiting
  OBVIOUS
<1>3. /\ L \in Nat /\ W \in Nat /\ Len(frames) = L + W /\ Len(stream) \in Nat
      /\ \A j \in 1 .. W : frames[L + j] \in Frame
      /\ n \in Nat /\ n <= Len(stream)
  BY <1>1, <1>a, Counters
<1>4. /\ ~cut /\ cut' = TRUE
      /\ stream' = SubSeq(stream, 1, n)
      /\ frames' = SubSeq(frames, 1, Len(frames) - Cardinality(lost))
      /\ UNCHANGED <<pc, header, replies, stopped, closed>>
  BY DEF KernelGoes, serverVars
<1>. HIDE DEF lost
<1>5. /\ stream' \in Seq(Unit) /\ Len(stream') = n
      /\ \A p \in 1 .. n : stream'[p] = stream[p] /\ p \in 1 .. Len(stream)
  <2>1. \A i \in 1 .. n : i \in 1 .. Len(stream) /\ stream[i] \in Unit
    BY <1>1, <1>3, Counters
  <2>2. /\ SubSeq(stream, 1, n) \in Seq(Unit)
        /\ Len(SubSeq(stream, 1, n)) = IF 1 <= n THEN n - 1 + 1 ELSE 0
        /\ \A i \in 1 .. n - 1 + 1 : SubSeq(stream, 1, n)[i] = stream[1 + i - 1]
    BY <2>1, <1>3, SubSeqProperties
  <2>. QED
    BY <2>1, <2>2, <1>3, <1>4
<1>6. First' = First /\ First \in Int /\ First <= 1
  BY <1>1, <1>4, FirstFacts DEF First
<1>7. /\ \A j \in 1 .. W + 1 : q[j] \in Int
      /\ q[1] = First
      /\ \A j \in 1 .. W : q[j + 1] = q[j] + Payload(frames[L + j]) + 1
      /\ \A j \in 1 .. W : q[j + 1] <= q[W + 1]
      /\ q[W + 1] = Len(stream) + 1
  BY <1>1, <1>2, <1>4, <1>a, LayoutFacts
<1>8. /\ \A i, j \in 1 .. W + 1 : i < j => q[i] < q[j]
      /\ \A p \in 1 .. Len(stream) : p < q[W + 1] =>
           \E j \in 1 .. W : q[j] <= p /\ p < q[j + 1]
      /\ \A j \in 1 .. W, p \in 1 .. Len(stream) :
           q[j] <= p /\ p < q[j + 1] => LiesAt(frames[L + j], q[j], p)
  BY <1>2, <1>a DEF Layout
<1>9. CASE n = Len(stream)
  <2>1. lost = {}
    BY <1>3, <1>9 DEF lost
  <2>2. Cardinality(lost) = 0
    BY <2>1, FS_EmptySet
  <2>3. frames' = frames
    <3>1. frames' = SubSeq(frames, 1, Len(frames))
      BY <2>2, <1>3, <1>4
    <3>2. frames \in Seq(Frame)
      BY <1>1 DEF TypeOK
    <3>. QED
      BY <3>1, <3>2, SubSeqFull
  <2>4. stream' = stream
    <3>1. stream \in Seq(Unit)
      BY <1>1 DEF TypeOK
    <3>. QED
      BY <3>1, <1>4, <1>9, SubSeqFull
  <2>5. TypeOK'
    BY <2>3, <2>4, <1>1, <1>4 DEF TypeOK
  <2>6. ServerInv'
    <3>1. RepliesAreInStep' /\ NoOkBehindText'
      BY <2>3, <1>1, <1>4, RepliesKept DEF ServerInv, RepliesAreInStep
    <3>. QED
      BY <3>1, <2>3, <1>1, <1>4 DEF ServerInv, Waiting, ErrorMeansCut
  <2>7. Waiting' = W /\ ~(q[W + 1] <= Len(stream))
    BY <2>3, <1>3, <1>4, <1>7, <1>a DEF Waiting
  <2>8. Layout(q)'
    <3>1. Layout(q) /\ Waiting' = Waiting /\ First' = First /\ cut'
          /\ frames' = frames /\ stream' = stream /\ replies' = replies
          /\ ~(q[Waiting + 1] <= Len(stream))
      BY <2>3, <2>4, <2>7, <1>2, <1>4, <1>6, <1>a
    <3>. QED
      BY <3>1 DEF Layout, LiesAt
  <2>9. q = Positions'
    BY <2>3, <1>2, <1>4, <1>6 DEF Positions, StartOf, Waiting
  <2>. QED
    BY <2>5, <2>6, <2>8, <2>9 DEF IInv
<1>10. CASE n < Len(stream)
  <2>1. PICK k \in 1 .. W : q[k] <= n + 1 /\ n + 1 < q[k + 1]
    <3>1. n + 1 \in 1 .. Len(stream) /\ n + 1 < q[W + 1]
      BY <1>3, <1>7, <1>10
    <3>2. PICK p \in 1 .. Len(stream) : p = n + 1 /\ p < q[W + 1]
      BY <3>1
    <3>3. PICK k \in 1 .. W : q[k] <= p /\ p < q[k + 1]
      BY <3>2, <1>8
    <3>. QED
      BY <3>2, <3>3
  <2>2. Cardinality(lost) = W - k + 1
    BY <2>1, <1>1, <1>2, <1>4, <1>a, LostRequests DEF lost
  <2>3. PICK m : m = L + k - 1
    OBVIOUS
  <2>4. /\ m \in Nat /\ m <= Len(frames) /\ frames' = SubSeq(frames, 1, m)
        /\ m = L + (k - 1) /\ k - 1 \in Nat /\ k \in 1 .. W + 1
        /\ k \in Int /\ k >= 1 /\ k <= W
    <3>1. Len(frames) - Cardinality(lost) = m
      BY <2>2, <2>3, <1>3
    <3>. QED
      BY <3>1, <2>3, <1>3, <1>4
  <2>5. /\ frames' \in Seq(Frame) /\ Len(frames') = m
        /\ \A i \in 1 .. m : frames'[i] = frames[i]
    <3>1. \A i \in 1 .. m : i \in 1 .. Len(frames) /\ frames[i] \in Frame
      BY <2>4, <1>1, <1>3, ElementOfSeq DEF TypeOK
    <3>2. /\ SubSeq(frames, 1, m) \in Seq(Frame)
          /\ Len(SubSeq(frames, 1, m)) = IF 1 <= m THEN m - 1 + 1 ELSE 0
          /\ \A i \in 1 .. m - 1 + 1 : SubSeq(frames, 1, m)[i] = frames[1 + i - 1]
      BY <3>1, <2>4, SubSeqProperties
    <3>. QED
      BY <3>2, <2>4
  <2>6. Waiting' = k - 1
    BY <2>4, <2>5, <1>3, <1>4, <1>a DEF Waiting
  <2>7. TypeOK'
    <3>1. Len(frames') <= MaxFrames
      BY <2>4, <2>5, <1>1, <1>3, StreamBoundsAssumption DEF TypeOK
    <3>. QED
      BY <3>1, <2>5, <1>1, <1>4, <1>5 DEF TypeOK
  <2>8. ServerInv'
    <3>1. ASSUME pc = "answer" PROVE k - 1 > 0
      <4>1. W > 0 /\ header = frames[L + 1] /\ header \in Frame
        <5>1. W > 0 /\ header = frames[L + 1]
          BY <3>1, <1>1, <1>a DEF ServerInv
        <5>2. 1 \in 1 .. W
          BY <5>1, <1>3
        <5>. QED
          BY <5>1, <5>2, <1>3
      <4>2. q[1] = -Payload(header) /\ Payload(header) \in Nat
        BY <4>1, <3>1, <1>1, <1>7, FirstFacts, FrameFacts
      <4>3. q[1 + 1] = q[1] + Payload(header) + 1
        BY <4>1, <1>3, <1>7
      <4>4. q[1 + 1] = 1
        BY <4>2, <4>3
      <4>5. k # 1
        BY <4>4, <2>1, <1>3
      <4>. QED
        BY <4>5, <2>4
    <3>2. ASSUME k - 1 > 0 PROVE frames'[L + 1] = frames[L + 1] /\ W > 0
      <4>1. L + 1 \in 1 .. m
        BY <3>2, <2>4, <1>3
      <4>. QED
        BY <4>1, <3>2, <2>4, <2>5, <1>3
    <3>3. RepliesAreInStep' /\ NoOkBehindText'
      <4>1. \A i \in 1 .. L : i \in 1 .. m /\ i <= Len(frames')
        BY <2>4, <2>5, <1>3
      <4>. QED
        BY <4>1, <2>5, <1>1, <1>4, <1>a, RepliesKept
    <3>. QED
      BY <3>1, <3>2, <3>3, <2>4, <2>6, <1>1, <1>4, <1>a DEF ServerInv, ErrorMeansCut
  <2>9. PICK r : r = [j \in 1 .. k |-> q[j]]
    OBVIOUS
  <2>10. /\ r \in [1 .. k -> Int] /\ \A j \in 1 .. k : r[j] = q[j]
         /\ \A j \in 1 .. k : j \in 1 .. W /\ j \in 1 .. W + 1
         /\ r[1] = First' /\ r[k] = q[k]
    <3>1. \A j \in 1 .. k : j \in 1 .. W /\ j \in 1 .. W + 1 /\ q[j] \in Int
      BY <2>4, <1>3, <1>7
    <3>. QED
      BY <3>1, <2>4, <2>9, <1>6, <1>7
  <2>11. ASSUME NEW j \in 1 .. k - 1
         PROVE  /\ j \in 1 .. k /\ j + 1 \in 1 .. k /\ j \in 1 .. W
                /\ r[j] = q[j] /\ r[j + 1] = q[j + 1]
                /\ frames'[L + j] = frames[L + j]
    <3>1. j \in 1 .. k /\ j + 1 \in 1 .. k /\ j \in 1 .. W /\ L + j \in 1 .. m
      BY <2>4, <1>3
    <3>. QED
      BY <3>1, <2>5, <2>10
  <2>12. ASSUME NEW j \in 1 .. k - 1
         PROVE  r[j + 1] = r[j] + Payload(frames'[L + j]) + 1
    BY <2>11, <1>7
  <2>13. \A i, j \in 1 .. k : i < j => r[i] < r[j]
    BY <2>10, <1>8
  <2>14. ASSUME NEW p \in 1 .. n, p < r[k]
         PROVE  \E j \in 1 .. k - 1 : r[j] <= p /\ p < r[j + 1]
    <3>1. p \in 1 .. Len(stream) /\ p < q[k] /\ p < q[W + 1] /\ p \in Int
      BY <2>10, <2>14, <1>3, <1>5, <1>7
    <3>2. PICK j \in 1 .. W : q[j] <= p /\ p < q[j + 1]
      BY <3>1, <1>8
    <3>3. j < k
      <4>1. SUFFICES ASSUME j >= k PROVE FALSE
        BY <2>4
      <4>2. j \in 1 .. W + 1 /\ (k < j \/ k = j)
        BY <4>1, <2>4, <1>3
      <4>3. q[k] <= q[j] /\ q[k] \in Int /\ q[j] \in Int
        BY <4>2, <2>4, <1>7, <1>8
      <4>. QED
        BY <4>3, <3>1, <3>2
    <3>4. j \in 1 .. k - 1
      BY <3>3, <2>4
    <3>5. r[j] <= p /\ p < r[j + 1]
      BY <3>2, <3>4, <2>11
    <3>. QED
      BY <3>4, <3>5
  <2>15. ASSUME NEW j \in 1 .. k - 1, NEW p \in 1 .. n, r[j] <= p, p < r[j + 1]
         PROVE  LiesAt(frames[L + j], r[j], p)'
    <3>1. j \in 1 .. W /\ p \in 1 .. Len(stream) /\ q[j] <= p /\ p < q[j + 1]
      BY <2>11, <2>15, <1>5
    <3>2. LiesAt(frames[L + j], q[j], p)
      BY <3>1, <1>8
    <3>. QED
      BY <3>2, <2>11, <1>4, <1>5, <1>a DEF LiesAt
  <2>16. Broken(r[k])'
    <3>. DEFINE f == frames[L + k]
    <3>1. f \in Frame /\ Payload(f) \in Nat /\ q[k + 1] = q[k] + Payload(f) + 1
          /\ q[k] \in Int
      BY <2>4, <1>3, <1>7, FrameFacts
    <3>2. n - q[k] < Payload(f)
      BY <3>1, <2>1, <1>3
    <3>3. ASSUME NEW p \in 1 .. n, q[k] <= p
          PROVE  stream'[p] = UnitsOf(f)[p - q[k] + 1]
      <4>1. p \in 1 .. Len(stream) /\ p < q[k + 1] /\ stream'[p] = stream[p]
        BY <3>1, <2>1, <1>3, <1>5
      <4>2. LiesAt(f, q[k], p)
        BY <4>1, <3>3, <1>8
      <4>. QED
        BY <4>1, <4>2 DEF LiesAt
    <3>4. ASSUME pc = "payload", k - 1 = 0 PROVE f = header
      <4>1. k = 1 /\ W > 0
        BY <3>4, <2>4, <1>3
      <4>. QED
        BY <4>1, <3>4, <1>1, <1>a DEF ServerInv
    <3>5. pc' = pc /\ header' = header /\ Waiting' = k - 1 /\ Len(stream') = n
          /\ r[k] = q[k]
      BY <2>6, <2>10, <1>4, <1>5
    <3>. HIDE DEF f
    <3>. QED
      BY <3>1, <3>2, <3>3, <3>4, <3>5 DEF Broken, LiesAt
  <2>17. Layout(r)'
    <3>1. Waiting' + 1 = k /\ Waiting' = k - 1 /\ Len(stream') = n /\ Len(replies') = L
          /\ cut' = TRUE /\ r[k] <= n + 1
      BY <2>1, <2>4, <2>6, <2>10, <1>4, <1>5, <1>a
    <3>. QED
      BY <3>1, <2>10, <2>12, <2>13, <2>14, <2>15, <2>16 DEF Layout
  <2>18. r = Positions'
    <3>1. ASSUME NEW j \in 1 .. k PROVE StartOf(j)' = q[j]
      <4>1. ASSUME NEW i \in L + 1 .. L + j - 1 PROVE frames'[i] = frames[i]
        <5>1. i \in Int /\ j \in Int /\ L + 1 <= i /\ i <= L + j - 1 /\ j <= k
          BY <2>4, <1>3
        <5>2. L \in Nat /\ m = L + (k - 1) /\ k \in Int
          BY <2>4, <1>3
        <5>3. i \in 1 .. m
          BY <5>1, <5>2
        <5>. QED
          BY <5>3, <2>5
      <4>2. SentUnits(frames', L + 1, L + j - 1) = SentUnits(frames, L + 1, L + j - 1)
        BY <4>1, SentUnitsSame
      <4>. QED
        BY <4>2, <2>10, <1>1, <1>2, <1>4, <1>6, <1>a, StartFacts DEF StartOf
    <3>2. Waiting' + 1 = k
      BY <2>4, <2>6
    <3>. QED
      BY <3>1, <3>2, <2>9 DEF Positions
  <2>. QED
    BY <2>7, <2>8, <2>17, <2>18 DEF IInv
<1>. QED
  BY <1>3, <1>9, <1>10
\* The end of the engine loop moves nothing on the stream.
LEMMA OnlyTheChannel ==
  ASSUME IInv, closed' \in BOOLEAN, closed => closed',
         UNCHANGED <<stream, frames, cut, pc, header, replies, stopped>>
  PROVE  IInv'
<1>1. TypeOK /\ ServerInv
  BY DEF IInv
<1>2. TypeOK'
  BY <1>1 DEF TypeOK
<1>3. ServerInv'
  <2>1. RepliesAreInStep' /\ NoOkBehindText'
    BY <1>1, RepliesKept DEF ServerInv, RepliesAreInStep
  <2>. QED
    BY <2>1, <1>1 DEF ServerInv, Waiting, ErrorMeansCut
<1>4. Waiting' = Waiting /\ First' = First
  BY DEF Waiting, First
<1>5. ASSUME NEW start, Broken(start) PROVE Broken(start)'
  BY <1>4, <1>5 DEF Broken, LiesAt
<1>6. ASSUME NEW q, Layout(q) PROVE Layout(q)'
  BY <1>4, <1>5, <1>6 DEF Layout, LiesAt
<1>7. ASSUME Layout(Positions) PROVE Layout(Positions)'
  <2>1. PICK q : q = Positions /\ Layout(q)
    BY <1>7
  <2>2. q = Positions'
    BY <2>1, <1>4 DEF Positions, StartOf
  <2>. QED
    BY <2>1, <2>2, <1>6
<1>. QED
  BY <1>2, <1>3, <1>7 DEF IInv
-----------------------------------------------------------------------------
(* The theorems                                                            *)

LEMMA StreamStep == IInv /\ [Next]_vars => IInv'
<1>. SUFFICES ASSUME IInv, [Next]_vars PROVE IInv'
  OBVIOUS
<1>1. CASE \E f \in Frame : KernelSends(f)
  BY <1>1, KernelSendsStep
<1>2. CASE \E n \in 0 .. Len(stream) : KernelGoes(n)
  BY <1>2, KernelGoesStep
<1>3. CASE StopAtToken
  BY <1>3, StopAtTokenStep
<1>4. CASE ReadHeader
  BY <1>4, ReadHeaderStep
<1>5. CASE ReadHeaderEnds
  BY <1>5, ReadHeaderEndsStep
<1>6. CASE ReadPayload
  BY <1>6, ReadPayloadStep
<1>7. CASE WriteReply
  BY <1>7, WriteReplyStep
<1>8. CASE WriteFails
  BY <1>8, WriteFailsStep
<1>9. CASE EndAtDisc
  BY <1>9, EndAtDiscStep
<1>10. CASE UNCHANGED vars
  BY <1>10, OnlyTheChannel DEF vars, serverVars, IInv, TypeOK
<1>11. CASE Ended
  BY <1>10, <1>11 DEF Ended
<1>12. CASE BridgeCloses
  BY <1>12, OnlyTheChannel DEF BridgeCloses, serverVars
<1>. QED
  BY <1>1, <1>2, <1>3, <1>4, <1>5, <1>6, <1>7, <1>8, <1>9, <1>10, <1>11, <1>12
  DEF Next, Server

\* The requests without a reply lie on the stream one behind the other, the
\* first where the server stands, and behind them at most a part of one more.
THEOREM StreamInvariant == Spec => []IInv
<1>. QED
  BY StreamInit, StreamStep, PTL DEF Spec

\* The state of serve_blocking and of the socket keeps its types.
THEOREM StreamTypeCorrect == Spec => []TypeOK
<1>1. IInv => TypeOK
  BY DEF IInv
<1>. QED
  BY <1>1, StreamInvariant, PTL

\* As long as the engine loop lives the kernel finds each reply where it looks
\* for it, with the handle and the length of the oldest open request; then only
\* the EIO of a read may have more behind it.
THEOREM StreamRepliesAreInStep == Spec => []RepliesAreInStep
<1>1. IInv => RepliesAreInStep
  BY DEF IInv, ServerInv
<1>. QED
  BY <1>1, StreamInvariant, PTL

\* Once a reply was out of step with its request, none says ok any more.
THEOREM StreamNoOkBehindText == Spec => []NoOkBehindText
<1>1. IInv => NoOkBehindText
  BY DEF IInv, ServerInv
<1>. QED
  BY <1>1, StreamInvariant, PTL

\* On a stream the kernel has not cut serve_blocking never fails: what it
\* takes for a header is one.
THEOREM StreamErrorMeansCut == Spec => []ErrorMeansCut
<1>1. IInv => ErrorMeansCut
  BY DEF IInv, ServerInv
<1>. QED
  BY <1>1, StreamInvariant, PTL

\* An end of the stream that serve_blocking takes for a clean one leaves no
\* request that arrived whole without its reply.
THEOREM StreamCleanEndAnswersAll == Spec => []CleanEndAnswersAll
<1>1. IInv => CleanEndAnswersAll
  <2>1. TypeOK => Len(replies) \in Nat /\ Len(frames) \in Nat
    BY DEF TypeOK
  <2>. QED
    BY <2>1 DEF IInv, ServerInv, CleanEndAnswersAll, Waiting
<1>. QED
  BY <1>1, StreamInvariant, PTL
=============================================================================
