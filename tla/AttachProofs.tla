---------------------------- MODULE AttachProofs ----------------------------
(***************************************************************************)
(* Theorems about Attach for every volume, every set of requests and       *)
(* handles, and with or without the faults.                                *)
(***************************************************************************)
EXTENDS Attach, BlocksTheorems, FiniteSetTheorems, SequenceTheorems

\* The device speaks of the same blocks and requests.
LEMMA SameData ==
  /\ Device!Lba = Lba /\ Device!Volume = Volume /\ Device!NoBlocks = NoBlocks
  /\ Device!NoRequest = NoRequest /\ Device!NoReply = NoReply
  /\ \A r : Device!RangeOf(r) = RangeOf(r)
  /\ \A r, m : Device!Written(r, m) = Written(r, m)
  /\ \A m, S : Device!Restricted(m, S) = Restricted(m, S)
<1>1. Device!Lba = Lba /\ \A r : Device!RangeOf(r) = RangeOf(r)
  BY DEF Device!Lba, Lba, Device!RangeOf, RangeOf
<1>2. Device!Volume = Volume /\ Device!NoBlocks = NoBlocks
  BY <1>1 DEF Device!Volume, Volume, Device!NoBlocks, NoBlocks
<1>3. /\ \A r, m : Device!Written(r, m) = Written(r, m)
      /\ \A m, S : Device!Restricted(m, S) = Restricted(m, S)
  BY <1>1 DEF Device!Written, Written, Device!Restricted, Restricted
<1>. QED
  BY <1>1, <1>2, <1>3 DEF Device!NoRequest, NoRequest, Device!NoReply, NoReply

\* What kind each value is of.
LEMMA RequestKinds ==
  /\ \A r \in Requests : /\ r \in Request
                         /\ r.op \in {"read", "write", "flush"}
                         /\ r # NoRequest /\ r # DiscRequest
  /\ NoRequest.op = "none" /\ DiscRequest.op = "disconnect"
  /\ NoRequest # DiscRequest
<1>1. NoRequest.op = "none" /\ DiscRequest.op = "disconnect"
  BY DEF NoRequest, DiscRequest
<1>2. \A r \in Requests : r \in Request /\ r.op \in {"read", "write", "flush"}
  BY AttachRequestsAssumption DEF Request
<1>. QED
  BY <1>1, <1>2

LEMMA HeaderKinds ==
  /\ \A h \in Header : h.handle \in Handles /\ h.req \in Requests \cup {NoRequest}
  /\ Disc.handle = "none" /\ Disc.req = DiscRequest
  /\ NoHeader.handle = "none" /\ NoHeader.req = NoRequest
BY DEF Header, Disc, NoHeader

LEMMA ResponseKinds ==
  /\ NoResponse \notin Response /\ NoResponse.status = "none"
  /\ \A x \in Response : x # NoResponse /\ x.status \in {"ok", "EINVAL", "EIO"}
                         /\ x.data \in {"nothing", "blocks", "text"}
  /\ ChannelError \in Response /\ ChannelError.status = "EIO"
  /\ [status |-> "EINVAL", data |-> "nothing"] \in Response
BY DEF Response, NoResponse, ChannelError

\* What bridge::request is given: a request, or the disconnect.
LEMMA CurrentKind ==
  ASSUME TypeOK
  PROVE  Current \in Requests \cup {DiscRequest, NoRequest}
BY HeaderKinds DEF TypeOK, Current

\* A write changes a map into a map, also when it goes beyond the volume.
LEMMA WriteKeepsTypes ==
  ASSUME NEW r \in Requests, r.op = "write"
  PROVE  /\ \A m \in BlockMap : Written(r, m) \in BlockMap
         /\ \A v \in Volume : Written(r, v) \in Volume
<1>1. \A b \in RangeOf(r) : r.data[b - r.start + 1] \in Data
  BY RequestKinds DEF RangeOf, Request
<1>. QED
  BY <1>1 DEF Written, BlockMap, Volume

\* Writing twice is writing once.
LEMMA WrittenTwice ==
  ASSUME NEW r, NEW v
  PROVE  Written(r, Written(r, v)) = Written(r, v)
BY DEF Written
-----------------------------------------------------------------------------
(* The parts of the invariant, where nothing they speak of changes         *)

LEMMA OnePlaceFrame ==
  ASSUME OnePlace, UNCHANGED <<nbd, header, loop, queued, response>>
  PROVE  OnePlace'
BY DEF OnePlace, Current

LEMMA EngineFrame ==
  ASSUME EngineInv, UNCHANGED <<nbd, header, loop, engineVars, main>>
  PROVE  EngineInv'
BY DEF EngineInv, Current, engineVars

LEMMA HandleFrame ==
  ASSUME HandleInv, UNCHANGED <<nbd, header, conn, wire, outstanding>>
  PROVE  HandleInv'
BY DEF HandleInv

LEMMA AckedFrame ==
  ASSUME AckedInv, UNCHANGED <<nbd, header, loop, engineVars, response, sent, acked>>
  PROVE  AckedInv'
BY DEF AckedInv, AckedWritesVisible, FlushAckMeansStored, Holds, engineVars
-----------------------------------------------------------------------------
(* The initial states                                                      *)

LEMMA InitIInv == Init => IInv
<1>. SUFFICES ASSUME Init PROVE IInv
  OBVIOUS
<1>1. /\ view \in Volume /\ stable = view /\ pending = NoRequest /\ reply = NoReply
  BY SameData DEF Init, Device!Init
<1>2. reply \in Reply /\ NoBlocks \in BlockMap /\ reply.op = "none" /\ reply.status = "none"
  BY <1>1, NoBlocksFacts DEF NoReply, Reply
<1>3. TypeOK
  <2>1. Cardinality(Handles) \in Nat
    BY HandlesAssumption, FS_CardinalityType
  <2>2. wire \in Seq(Header \cup {Disc}) /\ Len(wire) <= Cardinality(Handles) + 1
    BY <2>1 DEF Init
  <2>3. sent \in ToKernel
    BY DEF Init, ToKernel
  <2>. QED
    BY <1>1, <1>2, <2>2, <2>3 DEF Init, TypeOK
<1>4. OnePlace /\ EngineInv /\ HandleInv
  BY <1>1, <1>2, RequestKinds DEF Init, OnePlace, EngineInv, HandleInv
<1>5. AckedInv
  BY DEF Init, AckedInv, AckedWritesVisible, FlushAckMeansStored, NoBlocks
<1>. QED
  BY <1>3, <1>4, <1>5 DEF IInv
-----------------------------------------------------------------------------
(* The engine loop                                                         *)

LEMMA NoReplyFacts ==
  NoReply \in Reply /\ NoReply.op = "none" /\ NoReply.status = "none"
BY NoBlocksFacts DEF NoReply, Reply

LEMMA SubmitFacts ==
  ASSUME NEW r, Device!Submit(r)
  PROVE  /\ pending = NoRequest /\ pending' = r /\ reply' = NoReply
         /\ view' = view /\ stable' = stable
BY SameData DEF Device!Submit

LEMMA LoopTakesIInv == ASSUME IInv, LoopTakes PROVE IInv'
<1>1. /\ loop = "select" /\ queued # NoRequest /\ loop' = "serving"
      /\ queued' = NoRequest /\ pending' = queued /\ reply' = NoReply
      /\ acked' = Unsure(acked, queued)
      /\ UNCHANGED <<view, stable, response, nbdVars, mainVars, conn, wire, outstanding, sent>>
  BY SubmitFacts DEF LoopTakes
<1>2. /\ nbd \in {"waiting", "closing"} /\ queued = Current /\ response = NoResponse
      /\ Current' = Current
  BY <1>1 DEF IInv, OnePlace, Current, nbdVars
<1>3. acked' \in BlockMap /\ \A b \in Lba : acked'[b] # Absent => acked'[b] = acked[b]
  <2>1. acked \in BlockMap
    BY DEF IInv, TypeOK
  <2>. QED
    BY <1>1, <2>1 DEF Unsure, Restricted, BlockMap
<1>4. pending'.op = "write" => \A b \in RangeOf(pending') \cap Lba : acked'[b] = Absent
  BY <1>1 DEF Unsure, Restricted
<1>5. TypeOK'
  BY <1>1, <1>3, NoReplyFacts DEF IInv, TypeOK, nbdVars, mainVars
<1>6. OnePlace'
  BY <1>1, <1>2 DEF OnePlace, nbdVars
<1>7. EngineInv'
  BY <1>1, <1>2 DEF IInv, EngineInv, mainVars
<1>8. HandleInv'
  BY <1>1, HandleFrame DEF IInv, nbdVars
<1>9. AckedInv'
  <2>1. AckedWritesVisible'
    BY <1>1, <1>3 DEF IInv, AckedInv, AckedWritesVisible
  <2>2. FlushAckMeansStored'
    BY <1>1, <1>3 DEF IInv, AckedInv, FlushAckMeansStored, nbdVars
  <2>. QED
    BY <1>1, <1>2, <1>4, <2>1, <2>2, ResponseKinds DEF IInv, AckedInv, nbdVars
<1>. QED
  BY <1>5, <1>6, <1>7, <1>8, <1>9 DEF IInv

\* The engine has a request in hand only where the loop waits for it.
LEMMA EngineBusy ==
  ASSUME IInv, pending # NoRequest
  PROVE  /\ loop \in {"serving", "closing"}
         /\ loop = "closing" => pending = DiscRequest
         /\ loop = "serving" => /\ pending = Current /\ response = NoResponse
                                /\ nbd \in {"waiting", "closing"}
BY DEF IInv, TypeOK, EngineInv, OnePlace

\* A write the engine has in hand is the one the NBD thread waits for, and
\* nothing is claimed of its blocks: they may change.
LEMMA TakeWriteHolds ==
  ASSUME IInv, pending.op = "write"
  PROVE  /\ pending \in Requests /\ pending = header.req /\ nbd = "waiting"
         /\ loop = "serving" /\ response = NoResponse
         /\ Written(pending, view) \in Volume
         /\ Holds(Written(pending, view))
<1>1. pending \in Requests /\ pending # NoRequest
  BY RequestKinds DEF IInv, TypeOK
<1>2. /\ loop = "serving" /\ pending = Current /\ response = NoResponse
      /\ nbd \in {"waiting", "closing"}
  BY <1>1, EngineBusy, RequestKinds
<1>3. nbd = "waiting" /\ pending = header.req
  BY <1>1, <1>2, RequestKinds DEF Current
<1>4. \A b \in RangeOf(pending) \cap Lba : acked[b] = Absent
  BY <1>2 DEF IInv, AckedInv
<1>5. Written(pending, view) \in Volume
  BY <1>1, WriteKeepsTypes DEF IInv, TypeOK
<1>6. Holds(view)
  BY <1>2 DEF IInv, AckedInv, AckedWritesVisible, Holds
<1>7. Holds(Written(pending, view))
  BY <1>4, <1>6 DEF Holds, Written
<1>. QED
  BY <1>1, <1>2, <1>3, <1>5, <1>7

LEMMA EngineWorksIInv == ASSUME IInv, EngineWorks PROVE IInv'
<1>1. /\ pending # NoRequest /\ pending' = pending /\ reply' = reply
      /\ UNCHANGED <<bridgeVars, nbdVars, mainVars, kernelVars>>
  BY DEF EngineWorks, Device!TakeWrite, Device!Destage
<1>2. OnePlace' /\ HandleInv'
  BY <1>1, OnePlaceFrame, HandleFrame DEF IInv, bridgeVars, nbdVars, kernelVars
<1>3. EngineInv'
  BY <1>1 DEF IInv, EngineInv, Current, bridgeVars, nbdVars, mainVars
<1>4. loop \in {"serving", "closing"} /\ loop' = loop
  BY <1>1, EngineBusy DEF bridgeVars
<1>5. CASE Device!TakeWrite
  <2>1. /\ pending.op = "write" /\ view' = Written(pending, view) /\ stable' = stable
    BY <1>5, SameData DEF Device!TakeWrite
  <2>2. /\ nbd = "waiting" /\ header.req = pending /\ response = NoResponse
        /\ view' \in Volume /\ Holds(view')
    BY <2>1, TakeWriteHolds
  <2>3. TypeOK'
    BY <1>1, <2>1, <2>2 DEF IInv, TypeOK, bridgeVars, nbdVars, mainVars, kernelVars
  <2>4. AckedInv'
    BY <1>1, <2>1, <2>2, ResponseKinds
       DEF IInv, AckedInv, AckedWritesVisible, FlushAckMeansStored, Holds, bridgeVars,
           nbdVars, kernelVars
  <2>. QED
    BY <1>2, <1>3, <2>3, <2>4 DEF IInv
<1>6. ASSUME NEW S \in SUBSET Lba, Device!Destage(S)
      PROVE  IInv'
  <2>1. /\ view' = view
        /\ stable' = [b \in Lba |-> IF b \in S THEN view[b] ELSE stable[b]]
    BY <1>6, SameData DEF Device!Destage
  <2>2. stable' \in Volume
    BY <2>1 DEF IInv, TypeOK, Volume
  <2>3. TypeOK'
    BY <1>1, <2>1, <2>2 DEF IInv, TypeOK, bridgeVars, nbdVars, mainVars, kernelVars
  <2>4. Holds(view)
    BY <1>4 DEF IInv, AckedInv, AckedWritesVisible, Holds
  <2>5. Holds(stable) => Holds(stable)'
    BY <1>1, <2>1, <2>4 DEF Holds, kernelVars
  <2>6. FlushAckMeansStored'
    BY <1>1, <2>5 DEF IInv, AckedInv, FlushAckMeansStored, Holds, nbdVars, kernelVars
  <2>7. AckedWritesVisible'
    BY <1>1, <2>1, <2>4 DEF AckedWritesVisible, Holds, kernelVars
  <2>8. AckedInv'
    BY <1>1, <1>4, <2>1, <2>5, <2>6, <2>7
       DEF IInv, AckedInv, bridgeVars, nbdVars, kernelVars
  <2>. QED
    BY <1>2, <1>3, <2>3, <2>8 DEF IInv
<1>. QED
  BY <1>5, <1>6, SameData DEF EngineWorks

\* Every answer is to what the engine has in hand.
LEMMA AnswerFacts ==
  ASSUME IInv, EngineAnswers
  PROVE  /\ pending # NoRequest /\ pending' = NoRequest
         /\ reply' \in Reply /\ reply'.op = pending.op /\ reply'.status \in {"ok", "EIO"}
         /\ stable' = stable
         /\ \/ view' = view /\ (pending.op = "write" => reply'.status = "EIO")
            \/ pending.op = "write" /\ view' = Written(pending, view)
         /\ pending.op \in {"flush", "disconnect"} /\ reply'.status = "ok" => stable = view
<1>1. pending \in Requests \cup {DiscRequest, NoRequest} /\ view \in Volume
  BY DEF IInv, TypeOK
<1>2. NoBlocks \in BlockMap
  BY NoBlocksFacts
<1>3. CASE Device!AckRead
  <2>1. /\ pending.op = "read" /\ pending' = NoRequest /\ view' = view /\ stable' = stable
        /\ reply' = [op |-> "read", status |-> "ok",
                     data |-> Restricted(view, RangeOf(pending))]
    BY <1>3, SameData DEF Device!AckRead, Device!Answer
  <2>2. Restricted(view, RangeOf(pending)) \in BlockMap
    BY <1>1 DEF Volume, BlockMap, Restricted
  <2>. QED
    BY <2>1, <2>2, RequestKinds DEF Reply
<1>4. CASE Device!AckWrite
  <2>1. /\ pending.op = "write" /\ pending' = NoRequest /\ stable' = stable
        /\ view' = Written(pending, view)
        /\ reply' = [op |-> "write", status |-> "ok", data |-> NoBlocks]
    BY <1>4, SameData DEF Device!AckWrite, Device!Answer
  <2>. QED
    BY <1>2, <2>1, RequestKinds DEF Reply
<1>5. CASE Device!AckFlush
  <2>1. /\ pending.op \in {"flush", "disconnect"} /\ pending' = NoRequest
        /\ stable = view /\ view' = view /\ stable' = stable
        /\ reply' = [op |-> pending.op, status |-> "ok", data |-> NoBlocks]
    BY <1>5, SameData DEF Device!AckFlush, Device!Answer
  <2>. QED
    BY <1>2, <2>1, RequestKinds DEF Reply
<1>6. CASE Device!Fail
  <2>1. /\ pending # NoRequest /\ pending' = NoRequest /\ view' = view /\ stable' = stable
        /\ reply' = [op |-> pending.op, status |-> "EIO", data |-> NoBlocks]
    BY <1>6, SameData DEF Device!Fail, Device!Answer
  <2>2. pending.op \in {"read", "write", "flush", "disconnect"}
    BY <1>1, <2>1, RequestKinds
  <2>. QED
    BY <1>2, <2>1, <2>2 DEF Reply
<1>. QED
  BY <1>3, <1>4, <1>5, <1>6 DEF EngineAnswers

LEMMA EngineAnswersIInv == ASSUME IInv, EngineAnswers PROVE IInv'
<1>1. /\ pending # NoRequest /\ pending' = NoRequest
      /\ reply' \in Reply /\ reply'.op = pending.op /\ reply'.status \in {"ok", "EIO"}
      /\ stable' = stable
      /\ \/ view' = view /\ (pending.op = "write" => reply'.status = "EIO")
         \/ pending.op = "write" /\ view' = Written(pending, view)
      /\ pending.op \in {"flush", "disconnect"} /\ reply'.status = "ok" => stable = view
  BY AnswerFacts
<1>2. UNCHANGED <<bridgeVars, nbdVars, mainVars, kernelVars>>
  BY DEF EngineAnswers
<1>3. /\ loop \in {"serving", "closing"}
      /\ loop = "closing" => pending = DiscRequest
      /\ loop = "serving" => pending = Current /\ response = NoResponse
  BY <1>1, EngineBusy
<1>4. pending.op = "write" =>
        /\ pending = header.req /\ nbd = "waiting" /\ loop = "serving"
        /\ response = NoResponse
        /\ Written(pending, view) \in Volume /\ Holds(Written(pending, view))
  BY TakeWriteHolds
<1>5. TypeOK'
  BY <1>1, <1>2, <1>4 DEF IInv, TypeOK, bridgeVars, nbdVars, mainVars, kernelVars
<1>6. OnePlace' /\ HandleInv'
  BY <1>2, OnePlaceFrame, HandleFrame DEF IInv, bridgeVars, nbdVars, kernelVars
<1>7. EngineInv'
  <2>1. pending.op = "write" => ~(reply'.op \in {"flush", "disconnect"})
    BY <1>1
  <2>2. pending'= NoRequest /\ reply'.op \in {"flush", "disconnect"} /\ reply'.status = "ok" =>
          stable' = view'
    BY <1>1, <2>1
  <2>. QED
    BY <1>1, <1>2, <1>3, <2>2, RequestKinds
       DEF IInv, EngineInv, Current, bridgeVars, nbdVars, mainVars
<1>8. AckedInv'
  <2>1. Holds(view) /\ Holds(view)'
    BY <1>1, <1>2, <1>3, <1>4 DEF IInv, AckedInv, AckedWritesVisible, Holds, kernelVars
  <2>2. AckedWritesVisible'
    BY <2>1 DEF AckedWritesVisible, Holds
  <2>3. FlushAckMeansStored'
    BY <1>1, <1>2 DEF IInv, AckedInv, FlushAckMeansStored, nbdVars, kernelVars
  <2>4. ASSUME nbd = "waiting", header.req.op = "write", loop = "serving",
               reply'.status = "ok"
        PROVE  Written(header.req, view') = view'
    <3>1. pending.op = "write" /\ pending = header.req
      BY <1>3, <1>4, <2>4 DEF Current
    <3>. QED
      BY <1>1, <2>4, <3>1, WrittenTwice
  <2>5. response.status = "ok" => view' = view
    BY <1>1, <1>4, ResponseKinds
  <2>. QED
    BY <1>1, <1>2, <2>2, <2>3, <2>4, <2>5, RequestKinds
       DEF IInv, AckedInv, Holds, bridgeVars, nbdVars, kernelVars
<1>. QED
  BY <1>5, <1>6, <1>7, <1>8 DEF IInv

\* What the loop makes of a reply of the engine.
LEMMA FromReplyFacts ==
  ASSUME TypeOK, reply.status # "none"
  PROVE  FromReply \in Response /\ FromReply.status = reply.status
BY DEF TypeOK, Reply, FromReply, Response

LEMMA LoopAnswersIInv == ASSUME IInv, LoopAnswers PROVE IInv'
<1>1. /\ loop = "serving" /\ pending = NoRequest /\ response' = FromReply
      /\ loop' = IF reply.op = "disconnect" THEN "done" ELSE "select"
      /\ UNCHANGED <<view, stable, pending, reply, queued, nbdVars, main, shutdown,
                     kernelVars>>
      /\ logged' \in BOOLEAN
  BY DEF LoopAnswers, engineVars, IInv, TypeOK
<1>2. /\ reply.op = Current.op /\ reply.status # "none" /\ queued = NoRequest
      /\ nbd \in {"waiting", "closing"}
  BY <1>1 DEF IInv, EngineInv, OnePlace
<1>3. /\ response' \in Response /\ response' # NoResponse
      /\ response'.status = reply.status
  BY <1>1, <1>2, FromReplyFacts, ResponseKinds DEF IInv
<1>4. TypeOK'
  BY <1>1, <1>3 DEF IInv, TypeOK, nbdVars, kernelVars
<1>5. OnePlace'
  BY <1>1, <1>2, <1>3 DEF OnePlace, nbdVars
<1>6. EngineInv'
  BY <1>1 DEF IInv, EngineInv, nbdVars
<1>7. HandleInv'
  BY <1>1, HandleFrame DEF IInv, nbdVars, kernelVars
<1>8. AckedInv'
  <2>1. Holds(view)
    BY <1>1 DEF IInv, AckedInv, AckedWritesVisible, Holds
  <2>2. nbd = "waiting" /\ header.req.op = "flush" /\ reply.status = "ok" => Holds(stable)
    BY <1>1, <1>2, <2>1 DEF IInv, EngineInv, Current
  <2>. QED
    BY <1>1, <1>3, <2>1, <2>2
       DEF IInv, AckedInv, AckedWritesVisible, FlushAckMeansStored, Holds, nbdVars, kernelVars
<1>. QED
  BY <1>4, <1>5, <1>6, <1>7, <1>8 DEF IInv

LEMMA LoopShutsDownIInv == ASSUME IInv, LoopShutsDown PROVE IInv'
<1>1. /\ loop = "select" /\ loop' = "closing" /\ pending' = DiscRequest /\ reply' = NoReply
      /\ UNCHANGED <<view, stable, queued, response, nbdVars, mainVars, kernelVars>>
  BY SubmitFacts DEF LoopShutsDown
<1>2. TypeOK'
  BY <1>1, NoReplyFacts DEF IInv, TypeOK, nbdVars, mainVars, kernelVars
<1>3. OnePlace'
  BY <1>1 DEF IInv, OnePlace, Current, nbdVars
<1>4. EngineInv'
  BY <1>1, RequestKinds DEF IInv, EngineInv, mainVars
<1>5. HandleInv'
  BY <1>1, HandleFrame DEF IInv, nbdVars, kernelVars
<1>6. AckedInv'
  BY <1>1
     DEF IInv, AckedInv, AckedWritesVisible, FlushAckMeansStored, Holds, nbdVars, kernelVars
<1>. QED
  BY <1>2, <1>3, <1>4, <1>5, <1>6 DEF IInv

LEMMA LoopEndsIInv == ASSUME IInv, LoopEnds PROVE IInv'
<1>1. /\ loop = "closing" /\ pending = NoRequest /\ loop' = "done" /\ queued' = NoRequest
      /\ response' = IF queued # NoRequest THEN ChannelError ELSE response
      /\ UNCHANGED <<view, stable, pending, reply, nbdVars, mainVars, kernelVars>>
  BY DEF LoopEnds, engineVars
<1>2. TypeOK'
  BY <1>1, ResponseKinds DEF IInv, TypeOK, nbdVars, mainVars, kernelVars
<1>3. OnePlace'
  BY <1>1, ResponseKinds DEF IInv, OnePlace, nbdVars
<1>4. EngineInv'
  BY <1>1 DEF IInv, EngineInv, mainVars
<1>5. HandleInv'
  BY <1>1, HandleFrame DEF IInv, nbdVars, kernelVars
<1>6. AckedInv'
  BY <1>1, ResponseKinds
     DEF IInv, AckedInv, AckedWritesVisible, FlushAckMeansStored, Holds, nbdVars, kernelVars
<1>. QED
  BY <1>2, <1>3, <1>4, <1>5, <1>6 DEF IInv

\* Whatever drops the loop leaves the invariant, unless the process has
\* already ended well.
LEMMA LoopDroppedIInv ==
  ASSUME IInv, LoopDropped, main # "exited"
  PROVE  IInv'
<1>1. /\ loop' = "gone" /\ queued' = NoRequest
      /\ view' = stable /\ stable' = stable /\ pending' = NoRequest /\ reply' = NoReply
      /\ response' = IF queued # NoRequest \/ loop = "serving" THEN ChannelError
                                                               ELSE response
      /\ UNCHANGED <<nbdVars, mainVars, kernelVars>>
  BY SameData DEF LoopDropped, Device!PowerLoss
<1>2. TypeOK'
  BY <1>1, ResponseKinds, NoReplyFacts DEF IInv, TypeOK, nbdVars, mainVars, kernelVars
<1>3. OnePlace'
  BY <1>1, ResponseKinds DEF IInv, OnePlace, nbdVars
<1>4. EngineInv'
  BY <1>1, NoReplyFacts DEF EngineInv, mainVars
<1>5. HandleInv'
  BY <1>1, HandleFrame DEF IInv, nbdVars, kernelVars
<1>6. AckedInv'
  BY <1>1, ResponseKinds
     DEF IInv, AckedInv, AckedWritesVisible, FlushAckMeansStored, Holds, nbdVars, kernelVars
<1>. QED
  BY <1>2, <1>3, <1>4, <1>5, <1>6 DEF IInv

LEMMA LoopPanicsIInv == ASSUME IInv, LoopPanics PROVE IInv'
<1>1. pending # NoRequest /\ LoopDropped
  BY DEF LoopPanics
<1>2. main # "exited"
  BY <1>1, EngineBusy DEF IInv, EngineInv
<1>. QED
  BY <1>1, <1>2, LoopDroppedIInv

LEMMA RuntimeDropsLoopIInv == ASSUME IInv, RuntimeDropsLoop PROVE IInv'
BY LoopDroppedIInv DEF RuntimeDropsLoop
-----------------------------------------------------------------------------
(* The NBD thread                                                          *)

\* Requests with different handles: no more of them than handles, and one
\* DISC.
LEMMA WireBound ==
  ASSUME NEW w \in Seq(Header \cup {Disc}),
         \A i, j \in 1 .. Len(w) : w[i].handle = w[j].handle => i = j
  PROVE  Len(w) <= Cardinality(Handles) + 1
<1>. DEFINE f == [i \in 1 .. Len(w) |-> w[i].handle]
            T == Handles \cup {"none"}
<1>1. Len(w) \in Nat /\ \A i \in 1 .. Len(w) : w[i] \in Header \cup {Disc}
  OBVIOUS
<1>2. f \in Injection(1 .. Len(w), T)
  BY <1>1, HeaderKinds DEF Injection, IsInjective
<1>3. IsFiniteSet(T) /\ Cardinality(T) = Cardinality(Handles) + 1
  BY HandlesAssumption, FS_AddElement
<1>4. Cardinality(1 .. Len(w)) <= Cardinality(T)
  <2>. HIDE DEF f, T
  <2>. QED
    BY <1>2, <1>3, FS_Injection
<1>5. Cardinality(1 .. Len(w)) = Len(w)
  <2>1. Cardinality(1 .. Len(w)) = IF 1 > Len(w) THEN 0 ELSE Len(w) - 1 + 1
    BY <1>1, FS_Interval
  <2>. QED
    BY <1>1, <2>1
<1>. QED
  BY <1>3, <1>4, <1>5

LEMMA NbdOpensIInv == ASSUME IInv, NbdOpens PROVE IInv'
<1>1. /\ nbd = "opening" /\ nbd' = "checking" /\ conn' = "up" /\ watcher' = "polling"
      /\ doIt' = "running"
      /\ UNCHANGED <<view, stable, pending, reply, loop, queued, response, header,
                     nbdFailed, nbdCancelled, mainVars, wire, outstanding, sent, acked>>
  BY DEF NbdOpens, engineVars, bridgeVars
<1>2. wire = <<>> /\ sent.op = "none"
  BY <1>1 DEF IInv, HandleInv, AckedInv
<1>3. TypeOK'
  BY <1>1 DEF IInv, TypeOK, mainVars
<1>4. OnePlace'
  BY <1>1 DEF IInv, OnePlace
<1>5. EngineInv'
  BY <1>1 DEF IInv, OnePlace, EngineInv, mainVars
<1>6. HandleInv'
  BY <1>1, <1>2 DEF HandleInv
<1>7. AckedInv'
  BY <1>1, <1>2 DEF IInv, AckedInv, AckedWritesVisible, FlushAckMeansStored, Holds
<1>. QED
  BY <1>3, <1>4, <1>5, <1>6, <1>7 DEF IInv

LEMMA NbdOpenFailsIInv == ASSUME IInv, NbdOpenFails PROVE IInv'
<1>1. /\ nbd = "opening" /\ nbd' = "done" /\ conn' = "down" /\ nbdFailed' = TRUE
      /\ doIt' \in {"off", "running"}
      /\ UNCHANGED <<view, stable, pending, reply, loop, queued, response, header,
                     nbdCancelled, watcher, mainVars, wire, outstanding, sent, acked>>
  BY DEF NbdOpenFails, engineVars, bridgeVars
<1>2. TypeOK'
  BY <1>1 DEF IInv, TypeOK, mainVars
<1>3. OnePlace'
  BY <1>1 DEF IInv, OnePlace
<1>4. EngineInv'
  BY <1>1 DEF IInv, OnePlace, EngineInv, mainVars
<1>5. HandleInv'
  BY <1>1 DEF IInv, HandleInv
<1>6. AckedInv'
  BY <1>1 DEF IInv, AckedInv, AckedWritesVisible, FlushAckMeansStored, Holds
<1>. QED
  BY <1>2, <1>3, <1>4, <1>5, <1>6 DEF IInv

\* A step of the NBD thread from one place where it waits for no answer to
\* another.
LEMMA NbdMoves ==
  ASSUME IInv, TypeOK',
         nbd \notin {"opening", "waiting", "closing"},
         nbd' \notin {"opening", "waiting", "closing"},
         nbd' # "checking",
         UNCHANGED <<engineVars, bridgeVars, header, mainVars, kernelVars>>
  PROVE  IInv'
<1>1. OnePlace'
  BY DEF IInv, OnePlace, bridgeVars
<1>2. EngineInv'
  BY DEF IInv, OnePlace, EngineInv, engineVars, bridgeVars, mainVars
<1>3. HandleInv'
  BY DEF IInv, HandleInv, kernelVars
<1>4. AckedInv'
  BY DEF IInv, AckedInv, AckedWritesVisible, FlushAckMeansStored, engineVars, bridgeVars,
         kernelVars
<1>. QED
  BY <1>1, <1>2, <1>3, <1>4 DEF IInv

LEMMA NbdChecksIInv == ASSUME IInv, NbdChecks PROVE IInv'
<1>1. /\ nbd = "checking" /\ nbd' \in {"teardown", "header"}
      /\ UNCHANGED <<engineVars, bridgeVars, header, nbdFailed, nbdCancelled, watcher,
                     doIt, mainVars, kernelVars>>
  BY DEF NbdChecks
<1>2. TypeOK'
  BY <1>1 DEF IInv, TypeOK, engineVars, bridgeVars, mainVars, kernelVars
<1>. QED
  BY <1>1, <1>2, NbdMoves

LEMMA NbdReadEndsIInv == ASSUME IInv, NbdReadEnds PROVE IInv'
<1>1. /\ nbd = "header" /\ nbd' = "teardown" /\ nbdFailed' \in BOOLEAN
      /\ UNCHANGED <<engineVars, bridgeVars, header, nbdCancelled, watcher, doIt,
                     mainVars, kernelVars>>
  BY DEF NbdReadEnds, IInv, TypeOK
<1>2. TypeOK'
  BY <1>1 DEF IInv, TypeOK, engineVars, bridgeVars, mainVars, kernelVars
<1>. QED
  BY <1>1, <1>2, NbdMoves

LEMMA NbdJoinsIInv == ASSUME IInv, NbdJoins PROVE IInv'
<1>1. /\ nbd = "joining" /\ nbd' = "done"
      /\ UNCHANGED <<engineVars, bridgeVars, header, nbdFailed, nbdCancelled, watcher,
                     doIt, mainVars, kernelVars>>
  BY DEF NbdJoins
<1>2. TypeOK'
  BY <1>1 DEF IInv, TypeOK, engineVars, bridgeVars, mainVars, kernelVars
<1>. QED
  BY <1>1, <1>2, NbdMoves

\* bridge::request leaves its request in one place, with no answer of the
\* engine before the engine has seen it.
LEMMA AskFacts ==
  ASSUME IInv, nbd \notin {"waiting", "closing"}, UNCHANGED loop,
         NEW r \in Requests \cup {DiscRequest}, Ask(r)
  PROVE  /\ queued' \in {r, NoRequest} /\ response' \in {ChannelError, NoResponse}
         /\ loop # "serving"
         /\ queued' # NoRequest =>
              queued' = r /\ response' = NoResponse /\ loop \in {"select", "closing"}
         /\ queued' # NoRequest \/ response' # NoResponse
<1>1. queued = NoRequest /\ loop # "serving" /\ loop \in {"select", "closing", "done", "gone"}
  BY DEF IInv, OnePlace, TypeOK
<1>2. r # NoRequest
  BY RequestKinds
<1>. QED
  BY <1>1, <1>2, ResponseKinds DEF Ask

LEMMA NbdReadsIInv == ASSUME IInv, NbdReads PROVE IInv'
<1>. DEFINE r == Head(wire).req
<1>1. /\ nbd = "header" /\ nbd' = "waiting" /\ wire # <<>>
      /\ header' = Head(wire) /\ wire' = Tail(wire)
      /\ UNCHANGED <<view, stable, pending, reply, loop, nbdFailed, nbdCancelled,
                     watcher, doIt, mainVars, conn, outstanding, sent, acked>>
  BY DEF NbdReads, engineVars
<1>2. \/ response' = [status |-> "EINVAL", data |-> "nothing"] /\ queued' = queued
      \/ r # NoRequest /\ Ask(r)
  BY DEF NbdReads
<1>3. /\ Head(wire) \in Header \cup {Disc} /\ Head(wire) = wire[1]
      /\ Tail(wire) \in Seq(Header \cup {Disc}) /\ Len(Tail(wire)) = Len(wire) - 1
      /\ \A i \in 1 .. Len(Tail(wire)) : Tail(wire)[i] = wire[i + 1]
      /\ Len(wire) \in Nat \ {0}
  BY <1>1, HeadTailProperties DEF IInv, TypeOK
<1>4. r \in Requests \cup {NoRequest, DiscRequest}
  BY <1>3, HeaderKinds
<1>5. queued = NoRequest /\ loop # "serving" /\ response = NoResponse
  BY <1>1 DEF IInv, OnePlace
<1>6. /\ queued' \in {r, NoRequest} /\ response' \in Response \cup {NoResponse}
      /\ response'.status # "ok"
      /\ queued' # NoRequest =>
           queued' = r /\ response' = NoResponse /\ loop \in {"select", "closing"}
      /\ queued' # NoRequest \/ response' # NoResponse
  <2>1. CASE r # NoRequest /\ Ask(r)
    BY <1>1, <1>4, <2>1, AskFacts, ResponseKinds
  <2>2. CASE response' = [status |-> "EINVAL", data |-> "nothing"] /\ queued' = queued
    BY <1>5, <2>2, ResponseKinds
  <2>. QED
    BY <1>2, <2>1, <2>2
<1>7. TypeOK'
  <2>1. Len(wire') <= Cardinality(Handles) + 1
    BY <1>1, <1>3, HandlesAssumption, FS_CardinalityType DEF IInv, TypeOK
  <2>2. header' \in Header \cup {Disc, NoHeader}
    BY <1>1, <1>3
  <2>3. queued' \in Requests \cup {DiscRequest, NoRequest}
    BY <1>4, <1>6
  <2>. QED
    BY <1>1, <1>3, <1>6, <2>1, <2>2, <2>3 DEF IInv, TypeOK, mainVars
<1>8. OnePlace'
  <2>1. Current' = r
    BY <1>1 DEF Current
  <2>. QED
    BY <1>1, <1>5, <1>6, <2>1 DEF OnePlace
<1>9. EngineInv'
  BY <1>1, <1>5 DEF IInv, EngineInv, mainVars
<1>10. HandleInv'
  <2>1. HandleInv /\ Len(wire) \in Nat \ {0}
    BY <1>3 DEF IInv
  <2>2. \A i \in 1 .. Len(wire') : i + 1 \in 1 .. Len(wire) /\ wire'[i] = wire[i + 1]
    BY <1>1, <1>3
  <2>3. \A i, j \in 1 .. Len(wire') : wire'[i].handle = wire'[j].handle => i = j
    BY <2>1, <2>2 DEF HandleInv
  <2>4. \A i \in 1 .. Len(wire') : wire'[i].handle # wire[1].handle
    BY <2>1, <2>2 DEF HandleInv
  <2>5. 1 \in 1 .. Len(wire)
    BY <2>1
  <2>6. conn # "off"
    BY <1>1, <2>1 DEF HandleInv
  <2>. QED
    BY <1>1, <1>3, <2>1, <2>2, <2>3, <2>4, <2>5, <2>6 DEF HandleInv
<1>11. AckedInv'
  <2>1. AckedWritesVisible'
    BY <1>1 DEF IInv, AckedInv, AckedWritesVisible
  <2>. QED
    BY <1>1, <1>5, <1>6, <2>1 DEF AckedInv, FlushAckMeansStored
<1>. QED
  BY <1>7, <1>8, <1>9, <1>10, <1>11 DEF IInv

\* An answer that is there is in no other place.
LEMMA Answered ==
  ASSUME IInv, response # NoResponse
  PROVE  queued = NoRequest /\ loop # "serving" /\ nbd \in {"waiting", "closing"}
         /\ response \in Response
BY DEF IInv, OnePlace, TypeOK

LEMMA NbdRepliesIInv == ASSUME IInv, NbdReplies PROVE IInv'
<1>1. /\ nbd = "waiting" /\ header.req.op # "disconnect" /\ response # NoResponse
      /\ sent' = ReplyTo(header.req, response)
      /\ outstanding' = outstanding \ {header.handle}
      /\ conn' \in {conn, "down"} /\ conn # "down"
      /\ acked' = IF header.req.op = "write" /\ response.status = "ok"
                    THEN Written(header.req, acked) ELSE acked
      /\ header' = NoHeader /\ response' = NoResponse /\ nbd' = "checking"
      /\ UNCHANGED <<view, stable, pending, reply, loop, queued, nbdFailed,
                     nbdCancelled, watcher, doIt, mainVars, wire>>
  BY DEF NbdReplies, KernelTakes, engineVars
<1>2. queued = NoRequest /\ loop # "serving" /\ response \in Response
  BY <1>1, Answered
<1>3. header.req \in Requests \cup {NoRequest}
  BY <1>1, HeaderKinds, RequestKinds DEF IInv, TypeOK
<1>4. sent' \in ToKernel /\ sent'.op = header.req.op /\ sent'.status = response.status
  BY <1>1, <1>2, <1>3, RequestKinds, ResponseKinds DEF ReplyTo, ToKernel
<1>5. acked' \in BlockMap
  BY <1>1, <1>3, WriteKeepsTypes, RequestKinds DEF IInv, TypeOK
<1>6. TypeOK'
  BY <1>1, <1>4, <1>5 DEF IInv, TypeOK, mainVars
<1>7. OnePlace'
  BY <1>1, <1>2 DEF OnePlace
<1>8. EngineInv'
  BY <1>1, <1>2 DEF IInv, EngineInv, mainVars
<1>9. HandleInv'
  BY <1>1 DEF IInv, HandleInv
<1>10. AckedInv'
  <2>1. AckedWritesVisible'
    <3>1. CASE header.req.op = "write" /\ response.status = "ok"
      <4>1. SUFFICES ASSUME loop # "gone", NEW b \in Lba, acked'[b] # Absent
                     PROVE  view[b] = acked'[b]
        BY <1>1 DEF AckedWritesVisible
      <4>2. Written(header.req, view) = view
        BY <1>1, <3>1, <4>1 DEF IInv, AckedInv
      <4>3. acked[b] # Absent => view[b] = acked[b]
        BY <4>1 DEF IInv, AckedInv, AckedWritesVisible
      <4>4. /\ acked'[b] = IF b \in RangeOf(header.req)
                             THEN header.req.data[b - header.req.start + 1] ELSE acked[b]
            /\ view[b] = IF b \in RangeOf(header.req)
                           THEN header.req.data[b - header.req.start + 1] ELSE view[b]
        BY <1>1, <3>1, <4>2 DEF Written
      <4>. QED
        BY <4>1, <4>3, <4>4
    <3>2. CASE ~(header.req.op = "write" /\ response.status = "ok")
      BY <1>1, <3>2 DEF IInv, AckedInv, AckedWritesVisible
    <3>. QED
      BY <3>1, <3>2
  <2>2. FlushAckMeansStored'
    BY <1>1, <1>4 DEF IInv, AckedInv, FlushAckMeansStored, Holds
  <2>. QED
    BY <1>1, <1>2, <2>1, <2>2 DEF AckedInv
<1>. QED
  BY <1>6, <1>7, <1>8, <1>9, <1>10 DEF IInv

LEMMA NbdStopsIInv == ASSUME IInv, NbdStops PROVE IInv'
<1>1. /\ nbd = "waiting" /\ response # NoResponse /\ nbdFailed' \in BOOLEAN
      /\ header' = NoHeader /\ response' = NoResponse /\ nbd' = "teardown"
      /\ UNCHANGED <<view, stable, pending, reply, loop, queued, nbdCancelled, watcher,
                     doIt, mainVars, kernelVars>>
  BY DEF NbdStops, engineVars, IInv, TypeOK
<1>2. queued = NoRequest /\ loop # "serving"
  BY <1>1, Answered
<1>3. TypeOK'
  BY <1>1 DEF IInv, TypeOK, mainVars, kernelVars
<1>4. OnePlace'
  BY <1>1, <1>2 DEF OnePlace
<1>5. EngineInv'
  BY <1>1, <1>2 DEF IInv, EngineInv, mainVars
<1>6. HandleInv'
  BY <1>1 DEF IInv, HandleInv, kernelVars
<1>7. AckedInv'
  BY <1>1 DEF IInv, AckedInv, AckedWritesVisible, FlushAckMeansStored, kernelVars
<1>. QED
  BY <1>3, <1>4, <1>5, <1>6, <1>7 DEF IInv

LEMMA NbdTearsDownIInv == ASSUME IInv, NbdTearsDown PROVE IInv'
<1>1. /\ nbd = "teardown" /\ nbdCancelled' = TRUE /\ nbd' = "closing" /\ Ask(DiscRequest)
      /\ UNCHANGED <<view, stable, pending, reply, loop, header, nbdFailed, watcher,
                     doIt, mainVars, kernelVars>>
  BY DEF NbdTearsDown, engineVars
<1>2. /\ queued' \in {DiscRequest, NoRequest} /\ response' \in {ChannelError, NoResponse}
      /\ loop # "serving"
      /\ queued' # NoRequest =>
           queued' = DiscRequest /\ response' = NoResponse /\ loop \in {"select", "closing"}
      /\ queued' # NoRequest \/ response' # NoResponse
  BY <1>1, AskFacts
<1>3. TypeOK'
  BY <1>1, <1>2, ResponseKinds DEF IInv, TypeOK, mainVars, kernelVars
<1>4. OnePlace'
  BY <1>1, <1>2 DEF OnePlace, Current
<1>5. EngineInv'
  BY <1>1, <1>2 DEF IInv, EngineInv, mainVars
<1>6. HandleInv'
  BY <1>1 DEF IInv, HandleInv, kernelVars
<1>7. AckedInv'
  BY <1>1 DEF IInv, AckedInv, AckedWritesVisible, FlushAckMeansStored, kernelVars
<1>. QED
  BY <1>3, <1>4, <1>5, <1>6, <1>7 DEF IInv

LEMMA NbdClosesIInv == ASSUME IInv, NbdCloses PROVE IInv'
<1>1. /\ nbd = "closing" /\ response # NoResponse /\ response' = NoResponse
      /\ conn' = "down" /\ wire' = <<>> /\ outstanding' = {} /\ nbd' = "joining"
      /\ UNCHANGED <<view, stable, pending, reply, loop, queued, header, nbdFailed,
                     nbdCancelled, watcher, doIt, mainVars, sent, acked>>
  BY DEF NbdCloses, engineVars
<1>2. queued = NoRequest /\ loop # "serving"
  BY <1>1, Answered
<1>3. TypeOK'
  BY <1>1, HandlesAssumption, FS_CardinalityType DEF IInv, TypeOK, mainVars
<1>4. OnePlace'
  BY <1>1, <1>2 DEF OnePlace
<1>5. EngineInv'
  BY <1>1, <1>2 DEF IInv, EngineInv, mainVars
<1>6. HandleInv'
  BY <1>1 DEF HandleInv
<1>7. AckedInv'
  BY <1>1 DEF IInv, AckedInv, AckedWritesVisible, FlushAckMeansStored
<1>. QED
  BY <1>3, <1>4, <1>5, <1>6, <1>7 DEF IInv
-----------------------------------------------------------------------------
(* The kernel                                                              *)

\* The kernel sends DISC once, and nothing after it.
LEMMA KernelDisconnectsFacts ==
  ASSUME IInv, KernelDisconnects, UNCHANGED <<nbd, header, outstanding>>
  PROVE  /\ conn' \in {"off", "up", "disconnecting", "down"}
         /\ wire' \in Seq(Header \cup {Disc}) /\ Len(wire') <= Cardinality(Handles) + 1
         /\ HandleInv'
<1>1. CASE conn # "up"
  BY <1>1, HandleFrame DEF IInv, KernelDisconnects, TypeOK
<1>2. CASE conn = "up"
  <2>1. conn' = "disconnecting" /\ wire' = Append(wire, Disc)
    BY <1>2 DEF KernelDisconnects
  <2>2. wire \in Seq(Header \cup {Disc}) /\ Len(wire) \in Nat
    BY DEF IInv, TypeOK
  <2>3. /\ wire' \in Seq(Header \cup {Disc}) /\ Len(wire') = Len(wire) + 1
        /\ \A i \in 1 .. Len(wire) : wire'[i] = wire[i]
        /\ wire'[Len(wire) + 1] = Disc
    BY <2>1, <2>2, AppendProperties
  <2>4. /\ \A i \in 1 .. Len(wire) : wire[i].handle \in outstanding /\ wire[i].handle # "none"
        /\ \A i, j \in 1 .. Len(wire) : wire[i].handle = wire[j].handle => i = j
        /\ nbd = "waiting" => header.handle # "none"
        /\ nbd = "waiting" => \A i \in 1 .. Len(wire) : wire[i].handle # header.handle
        /\ nbd # "opening"
    BY <1>2, HandlesAssumption DEF IInv, HandleInv, TypeOK
  <2>5. \A i \in 1 .. Len(wire') : i \in 1 .. Len(wire) \/ i = Len(wire) + 1
    BY <2>2, <2>3
  <2>6. \A i, j \in 1 .. Len(wire') : wire'[i].handle = wire'[j].handle => i = j
    BY <2>3, <2>4, <2>5, HeaderKinds
  <2>7. HandleInv'
    BY <2>1, <2>3, <2>4, <2>5, <2>6, HeaderKinds DEF HandleInv
  <2>. QED
    BY <2>1, <2>3, <2>6, <2>7, WireBound
<1>. QED
  BY <1>1, <1>2

LEMMA KernelDetachedIInv == ASSUME IInv, KernelDetached PROVE IInv'
<1>1. /\ KernelDisconnects
      /\ UNCHANGED <<engineVars, bridgeVars, nbdVars, mainVars, outstanding, sent, acked>>
  BY DEF KernelDetached
<1>2. TypeOK' /\ HandleInv'
  <2>1. UNCHANGED <<nbd, header, outstanding>>
    BY <1>1 DEF nbdVars
  <2>. QED
    BY <1>1, <2>1, KernelDisconnectsFacts
       DEF IInv, TypeOK, engineVars, bridgeVars, nbdVars, mainVars
<1>3. OnePlace' /\ EngineInv' /\ AckedInv'
  BY <1>1, OnePlaceFrame, EngineFrame, AckedFrame DEF IInv, bridgeVars, nbdVars, mainVars
<1>. QED
  BY <1>2, <1>3 DEF IInv

LEMMA WatcherFiresIInv == ASSUME IInv, WatcherFires PROVE IInv'
<1>1. /\ KernelDisconnects /\ watcher' = "done"
      /\ UNCHANGED <<engineVars, bridgeVars, nbd, header, nbdFailed, nbdCancelled, doIt,
                     mainVars, outstanding, sent, acked>>
  BY DEF WatcherFires
<1>2. TypeOK' /\ HandleInv'
  BY <1>1, KernelDisconnectsFacts DEF IInv, TypeOK, engineVars, bridgeVars, mainVars
<1>3. OnePlace' /\ EngineInv' /\ AckedInv'
  BY <1>1, OnePlaceFrame, EngineFrame, AckedFrame DEF IInv, bridgeVars, mainVars
<1>. QED
  BY <1>2, <1>3 DEF IInv

\* A new request has a handle that no request on the wire, and not the one
\* that is served, has.
LEMMA KernelSendsIInv ==
  ASSUME IInv, NEW h \in Handles, NEW r \in Requests \cup {NoRequest}, KernelSends(h, r)
  PROVE  IInv'
<1>. DEFINE m == [handle |-> h, req |-> r]
<1>1. /\ conn = "up" /\ h \notin outstanding /\ outstanding' = outstanding \cup {h}
      /\ wire' = Append(wire, m)
      /\ UNCHANGED <<engineVars, bridgeVars, nbdVars, mainVars, conn, sent, acked>>
  BY DEF KernelSends
<1>2. m \in Header /\ m.handle = h /\ h # "none"
  BY HandlesAssumption DEF Header
<1>3. wire \in Seq(Header \cup {Disc}) /\ Len(wire) \in Nat
  BY DEF IInv, TypeOK
<1>4. /\ wire' \in Seq(Header \cup {Disc}) /\ Len(wire') = Len(wire) + 1
      /\ \A i \in 1 .. Len(wire) : wire'[i] = wire[i]
      /\ wire'[Len(wire) + 1] = m
  BY <1>1, <1>2, <1>3, AppendProperties
<1>5. /\ \A i \in 1 .. Len(wire) : wire[i].handle \in outstanding /\ wire[i].handle # "none"
      /\ \A i, j \in 1 .. Len(wire) : wire[i].handle = wire[j].handle => i = j
      /\ nbd = "waiting" => /\ header.handle \in outstanding
                            /\ \A i \in 1 .. Len(wire) : wire[i].handle # header.handle
      /\ nbd # "opening"
  BY <1>1 DEF IInv, HandleInv
<1>6. \A i \in 1 .. Len(wire') : i \in 1 .. Len(wire) \/ i = Len(wire) + 1
  BY <1>3, <1>4
<1>7. \A i, j \in 1 .. Len(wire') : wire'[i].handle = wire'[j].handle => i = j
  BY <1>1, <1>2, <1>4, <1>5, <1>6
<1>8. HandleInv'
  BY <1>1, <1>2, <1>4, <1>5, <1>6, <1>7 DEF HandleInv, nbdVars
<1>9. TypeOK'
  <2>1. Len(wire') <= Cardinality(Handles) + 1
    BY <1>4, <1>7, WireBound
  <2>2. outstanding' \subseteq Handles
    BY <1>1 DEF IInv, TypeOK
  <2>. QED
    BY <1>1, <1>4, <2>1, <2>2 DEF IInv, TypeOK, engineVars, bridgeVars, nbdVars, mainVars
<1>10. OnePlace' /\ EngineInv' /\ AckedInv'
  BY <1>1, OnePlaceFrame, EngineFrame, AckedFrame DEF IInv, bridgeVars, nbdVars, mainVars
<1>. QED
  BY <1>8, <1>9, <1>10 DEF IInv

LEMMA KernelTimesOutIInv == ASSUME IInv, KernelTimesOut PROVE IInv'
<1>1. /\ conn \in {"up", "disconnecting"} /\ conn' = "down" /\ outstanding' = {}
      /\ UNCHANGED <<engineVars, bridgeVars, nbdVars, mainVars, wire, sent, acked>>
  BY DEF KernelTimesOut
<1>2. TypeOK'
  BY <1>1 DEF IInv, TypeOK, engineVars, bridgeVars, nbdVars, mainVars
<1>3. HandleInv'
  BY <1>1 DEF IInv, HandleInv, nbdVars
<1>4. OnePlace' /\ EngineInv' /\ AckedInv'
  BY <1>1, OnePlaceFrame, EngineFrame, AckedFrame DEF IInv, bridgeVars, nbdVars, mainVars
<1>. QED
  BY <1>2, <1>3, <1>4 DEF IInv

LEMMA DoItReturnsIInv == ASSUME IInv, DoItReturns PROVE IInv'
<1>1. /\ doIt' = "returned" /\ nbdFailed' \in BOOLEAN
      /\ UNCHANGED <<engineVars, bridgeVars, nbd, header, nbdCancelled, watcher, mainVars,
                     kernelVars>>
  BY DEF DoItReturns, IInv, TypeOK
<1>2. TypeOK'
  BY <1>1 DEF IInv, TypeOK, engineVars, bridgeVars, mainVars, kernelVars
<1>3. OnePlace' /\ EngineInv' /\ HandleInv' /\ AckedInv'
  BY <1>1, OnePlaceFrame, EngineFrame, HandleFrame, AckedFrame
     DEF IInv, bridgeVars, mainVars, kernelVars
<1>. QED
  BY <1>2, <1>3 DEF IInv
-----------------------------------------------------------------------------
(* run_attach                                                              *)

\* A step of run_attach touches nothing but its own state.
LEMMA MainSteps ==
  ASSUME IInv, UNCHANGED <<engineVars, bridgeVars, nbdVars, logged, kernelVars>>,
         main' \in {"joiningNbd", "joiningEngine", "unwinding", "exited", "failed"},
         main' = "exited" => loop = "done",
         shutdown' \in BOOLEAN
  PROVE  IInv'
<1>1. TypeOK'
  BY DEF IInv, TypeOK, engineVars, bridgeVars, nbdVars, kernelVars
<1>2. OnePlace' /\ HandleInv' /\ AckedInv'
  BY OnePlaceFrame, HandleFrame, AckedFrame DEF IInv, bridgeVars, nbdVars, kernelVars
<1>3. EngineInv'
  BY DEF IInv, EngineInv, Current, engineVars, bridgeVars, nbdVars
<1>. QED
  BY <1>1, <1>2, <1>3 DEF IInv

LEMMA MainIInv ==
  ASSUME IInv, Signal \/ MainNbdDone \/ MainExits \/ SignalFails \/ RuntimeEnds
  PROVE  IInv'
<1>1. CASE Signal
  BY <1>1, MainSteps DEF Signal
<1>2. CASE MainNbdDone
  BY <1>2, MainSteps DEF MainNbdDone
<1>3. CASE MainExits
  BY <1>3, MainSteps DEF MainExits, IInv, TypeOK
<1>4. CASE SignalFails
  BY <1>4, MainSteps DEF SignalFails, IInv, TypeOK
<1>5. CASE RuntimeEnds
  BY <1>5, MainSteps DEF RuntimeEnds, IInv, TypeOK
<1>. QED
  BY <1>1, <1>2, <1>3, <1>4, <1>5

LEMMA StutterIInv == ASSUME IInv, UNCHANGED vars PROVE IInv'
<1>1. UNCHANGED <<engineVars, bridgeVars, nbdVars, mainVars, kernelVars>>
  BY DEF vars
<1>2. TypeOK'
  BY <1>1 DEF IInv, TypeOK, engineVars, bridgeVars, nbdVars, mainVars, kernelVars
<1>3. OnePlace' /\ EngineInv' /\ HandleInv' /\ AckedInv'
  BY <1>1, OnePlaceFrame, EngineFrame, HandleFrame, AckedFrame
     DEF IInv, bridgeVars, nbdVars, mainVars, kernelVars
<1>. QED
  BY <1>2, <1>3 DEF IInv
-----------------------------------------------------------------------------
(* The theorems                                                            *)

\* Every step keeps the invariant.
LEMMA NextIInv == IInv /\ [Next]_vars => IInv'
<1>. SUFFICES ASSUME IInv, [Next]_vars PROVE IInv'
  OBVIOUS
<1>1. CASE LoopStep
  BY <1>1, LoopTakesIInv, LoopAnswersIInv, LoopShutsDownIInv, LoopEndsIInv DEF LoopStep
<1>2. CASE EngineWorks \/ EngineAnswers
  BY <1>2, EngineWorksIInv, EngineAnswersIInv
<1>3. CASE NbdStep
  BY <1>3, NbdOpensIInv, NbdOpenFailsIInv, NbdChecksIInv, NbdReadsIInv, NbdReadEndsIInv,
     NbdRepliesIInv, NbdStopsIInv, NbdTearsDownIInv, NbdClosesIInv, NbdJoinsIInv
     DEF NbdStep
<1>4. CASE WatcherFires \/ DoItReturns
  BY <1>4, WatcherFiresIInv, DoItReturnsIInv
<1>5. CASE LoopPanics \/ RuntimeDropsLoop
  BY <1>5, LoopPanicsIInv, RuntimeDropsLoopIInv
<1>6. CASE Signal \/ MainNbdDone \/ MainExits \/ SignalFails \/ RuntimeEnds
  BY <1>6, MainIInv
<1>7. CASE \E h \in Handles, r \in Requests \cup {NoRequest} : KernelSends(h, r)
  BY <1>7, KernelSendsIInv
<1>8. CASE KernelDetached \/ KernelTimesOut
  BY <1>8, KernelDetachedIInv, KernelTimesOutIInv
<1>9. CASE Gone \/ UNCHANGED vars
  BY <1>9, StutterIInv DEF Gone
<1>. QED
  BY <1>1, <1>2, <1>3, <1>4, <1>5, <1>6, <1>7, <1>8, <1>9 DEF Next

\* The request the NBD thread has asked for is in one place, the engine has
\* in hand what it says, the handles on the wire are the kernel's, and what the
\* kernel was told of a write or a flush is so.
THEOREM AttachInvariant == Spec => []IInv
BY InitIInv, NextIInv, PTL DEF Spec

\* Every variable of the attach process has its type; the wire holds no more
\* than one request per handle, and the DISC.
THEOREM AttachTypeCorrect == Spec => []TypeOK
<1>1. IInv => TypeOK
  BY DEF IInv
<1>. QED
  BY <1>1, AttachInvariant, PTL

\* No request the NBD thread waits for is lost, or answered twice: it is in the
\* channel, with the loop, or answered, whatever ends the loop.
THEOREM AttachRequestInOnePlace == Spec => []OnePlace
<1>1. IInv => OnePlace
  BY DEF IInv
<1>. QED
  BY <1>1, AttachInvariant, PTL

\* A write the kernel was told is done is what a reader finds, as long as the
\* engine is not dropped with its cache.
THEOREM AttachAckedWritesVisible == Spec => []AckedWritesVisible
<1>1. IInv => AckedWritesVisible
  BY DEF IInv, AckedInv
<1>. QED
  BY <1>1, AttachInvariant, PTL

\* A flush the kernel was told is done found every acknowledged write stored.
THEOREM AttachFlushAckMeansStored == Spec => []FlushAckMeansStored
<1>1. IInv => FlushAckMeansStored
  BY DEF IInv, AckedInv
<1>. QED
  BY <1>1, AttachInvariant, PTL

\* Behind a final flush that went well nothing is acknowledged.
THEOREM AttachFinalFlushIsFinal == Spec => []FinalFlushIsFinal
<1>1. ASSUME IInv PROVE FinalFlushIsFinal
  <2>. SUFFICES ASSUME loop = "done", reply.status = "ok"
                PROVE  \A b \in Lba : acked[b] # Absent => stable[b] = acked[b]
    BY DEF FinalFlushIsFinal
  <2>1. stable = view
    BY <1>1 DEF IInv, EngineInv
  <2>. QED
    BY <1>1, <2>1 DEF IInv, AckedInv, AckedWritesVisible
<1>. QED
  BY <1>1, AttachInvariant, PTL

\* The process ends well only behind a final disconnect, with everything
\* stored if the flush of that disconnect went well.
THEOREM AttachSuccessIsAfterDisconnect == Spec => []SuccessIsAfterDisconnect
<1>1. IInv => SuccessIsAfterDisconnect
  BY DEF IInv, EngineInv, SuccessIsAfterDisconnect
<1>. QED
  BY <1>1, AttachInvariant, PTL
=============================================================================
