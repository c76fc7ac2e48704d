------------------------------ MODULE NbdStream ------------------------------
(***************************************************************************)
(* The byte stream between the kernel and serve_blocking (src/nbd.rs), cut *)
(* into units: a header, or one unit of the payload of a write.  The       *)
(* server reads one request at a time and answers it before it reads the   *)
(* next; the kernel may have several under way, and its socket may go away *)
(* at any unit.  The engine loop may go away too: from then on `request`   *)
(* of src/bridge.rs answers everything with the text of an error.          *)
(***************************************************************************)
EXTENDS Integers, Sequences, FiniteSets

CONSTANTS
  Handles,     \* names for the requests under way
  MaxLength,   \* bound: the longest read or write, in units
  MaxFrames    \* bound: the requests the kernel sends

ASSUME StreamBoundsAssumption == MaxLength \in Nat \ {0} /\ MaxFrames \in Nat

VARIABLES
  stream,    \* the units that are sent and not read
  frames,    \* history: the requests that are on the stream, whole
  cut,       \* the kernel's end is gone
  pc,        \* serve_blocking
  header,    \* the request it serves
  replies,   \* what it has written
  stopped,   \* it left the loop at the token or at a DISC
  closed     \* the engine loop has ended, and its end of the channel is gone

serverVars == <<pc, header, replies, stopped>>
vars == <<stream, frames, cut, serverVars, closed>>

\* `valid` stands for what validate_range says, which RequestPath models.
Frame ==
  [handle : Handles, op : {"read", "write"}, length : 1 .. MaxLength, valid : BOOLEAN]
    \cup [handle : Handles, op : {"flush", "disc", "other"}, length : {0}, valid : {TRUE}]

NoFrame == [handle |-> "none", op |-> "none", length |-> 0, valid |-> FALSE]

Unit == [frame : Frame, kind : {"header", "data"}, last : BOOLEAN]

Reply == [handle : Handles, errno : {"ok", "EINVAL", "EIO"}, data : 0 .. MaxLength + 1]

TypeOK ==
  /\ stream \in Seq(Unit)
  /\ frames \in Seq(Frame) /\ Len(frames) <= MaxFrames
  /\ cut \in BOOLEAN /\ stopped \in BOOLEAN /\ closed \in BOOLEAN
  /\ pc \in {"header", "payload", "answer", "clean", "error"}
  /\ header \in Frame \cup {NoFrame}
  /\ replies \in Seq(Reply)
  /\ pc = "header" => header = NoFrame
  /\ pc = "payload" => header.op = "write"

Init ==
  /\ stream = <<>> /\ frames = <<>> /\ cut = FALSE
  /\ pc = "header" /\ header = NoFrame
  /\ replies = <<>> /\ stopped = FALSE /\ closed = FALSE

Payload(f) == IF f.op = "write" THEN f.length ELSE 0

\* A header, and the payload of a write behind it.
UnitsOf(f) ==
  [i \in 1 .. Payload(f) + 1 |->
     [frame |-> f, kind |-> IF i = 1 THEN "header" ELSE "data",
      last |-> i = Payload(f) + 1]]

\* The requests without a reply: a handle is used again after its reply.
Outstanding == {frames[i].handle : i \in Len(replies) + 1 .. Len(frames)}

KernelSends(f) ==
  /\ ~cut
  /\ Len(frames) < MaxFrames
  /\ f.handle \notin Outstanding
  /\ stream' = stream \o UnitsOf(f)
  /\ frames' = Append(frames, f)
  /\ UNCHANGED <<cut, serverVars, closed>>

\* The socket is shut down behind n units; a part of a header is like none.
KernelGoes(n) ==
  /\ ~cut
  /\ cut' = TRUE
  /\ stream' = SubSeq(stream, 1, n)
  /\ LET lost == {i \in n + 1 .. Len(stream) : stream[i].last}
     IN  frames' = SubSeq(frames, 1, Len(frames) - Cardinality(lost))
  /\ UNCHANGED <<serverVars, closed>>

\* run_engine_loop ends, by the token or by a panic, while the server goes on.
BridgeCloses ==
  /\ ~closed
  /\ closed' = TRUE
  /\ UNCHANGED <<stream, frames, cut, serverVars>>
-----------------------------------------------------------------------------
(* The server                                                              *)

\* The token is looked at between two requests.
StopAtToken ==
  /\ pc = "header"
  /\ pc' = "clean" /\ stopped' = TRUE
  /\ UNCHANGED <<stream, frames, cut, header, replies, closed>>

\* Faulty variant: the payload of a write that is refused stays on the stream.
ReadsPayload(f) == f.op = "write" /\ f.valid

\* The payload is read before the range is checked.
HasPayload(f) == f.op = "write"

\* read_request_header: 28 bytes with the magic of a request, or an error.
ReadHeader ==
  /\ pc = "header"
  /\ stream # <<>>
  /\ stream' = Tail(stream)
  /\ IF Head(stream).kind = "header"
     THEN /\ header' = Head(stream).frame
          /\ pc' = IF HasPayload(header') THEN "payload" ELSE "answer"
     ELSE pc' = "error" /\ UNCHANGED header
  /\ UNCHANGED <<frames, cut, replies, stopped, closed>>

\* The end of the stream in a header is a clean one, a reset is an error.
ReadHeaderEnds ==
  /\ pc = "header"
  /\ stream = <<>> /\ cut
  /\ pc' \in {"clean", "error"}
  /\ UNCHANGED <<stream, frames, cut, header, replies, stopped, closed>>

ReadPayload ==
  /\ pc = "payload"
  /\ IF Len(stream) >= header.length
     THEN /\ stream' = SubSeq(stream, header.length + 1, Len(stream))
          /\ pc' = "answer"
     ELSE cut /\ pc' = "error" /\ UNCHANGED stream
  /\ UNCHANGED <<frames, cut, header, replies, stopped, closed>>

\* What handle_request answers: data of any length to a read that succeeded,
\* and a bare error (BridgeResponse::from_error) to anything.
LoopAnswers(f) ==
  [errno : {"EINVAL", "EIO"}, data : {0}]
    \cup [errno : {"ok"}, data : IF f.op = "read" THEN 0 .. MaxLength + 1 ELSE {0}]

\* What `request` answers when the send, or the wait for the answer, finds the
\* loop gone: the text of the error, whose length is no concern of the request.
ClosedAnswers == [errno : {"EIO"}, data : 1 .. MaxLength + 1]

\* Faulty variant: without the loop there is nothing left to flush.
NothingToFlush(f) ==
  IF ~closed THEN LoopAnswers(f)
  ELSE IF f.op = "flush" THEN [errno : {"ok"}, data : {0}]
  ELSE ClosedAnswers

BridgeAnswers(f) == IF closed THEN ClosedAnswers ELSE LoopAnswers(f)

\* Faulty variant: the length of the data is not compared.
ChosenUnchecked(f, response) ==
  IF f.op = "other" \/ ~f.valid THEN [errno |-> "EINVAL", data |-> 0]
  ELSE [errno |-> response.errno, data |-> IF f.op = "read" THEN response.data ELSE 0]

\* The arms of serve_blocking: what is written for an answer of the bridge.
\* Only the arm of a read writes its data, and it compares the length of the
\* data only if there is no error.
Chosen(f, response) ==
  IF f.op = "other" \/ ~f.valid THEN [errno |-> "EINVAL", data |-> 0]
  ELSE IF f.op = "read" /\ response.errno = "ok" /\ response.data # f.length
    THEN [errno |-> "EIO", data |-> 0]
  ELSE [errno |-> response.errno, data |-> IF f.op = "read" THEN response.data ELSE 0]

ReplyTo(f, response) ==
  LET chosen == Chosen(f, response)
  IN  [handle |-> f.handle, errno |-> chosen.errno, data |-> chosen.data]

\* Faulty variant: a command that is not known is passed over.
WriteReplyToKnown ==
  /\ pc = "answer" /\ header.op # "disc"
  /\ pc' = "header" /\ header' = NoFrame
  /\ \E response \in BridgeAnswers(header) :
       replies' = IF header.op = "other" THEN replies
                  ELSE Append(replies, ReplyTo(header, response))
  /\ UNCHANGED <<stream, frames, cut, stopped, closed>>

WriteReply ==
  /\ pc = "answer" /\ header.op # "disc"
  /\ pc' = "header" /\ header' = NoFrame
  /\ \E response \in BridgeAnswers(header) :
       replies' = Append(replies, ReplyTo(header, response))
  /\ UNCHANGED <<stream, frames, cut, stopped, closed>>

\* A socket that is gone takes no reply, or takes it and loses it.
WriteFails ==
  /\ pc = "answer" /\ header.op # "disc"
  /\ cut
  /\ pc' = "error"
  /\ UNCHANGED <<stream, frames, cut, header, replies, stopped, closed>>

\* DISC has no reply.
EndAtDisc ==
  /\ pc = "answer" /\ header.op = "disc"
  /\ pc' = "clean" /\ stopped' = TRUE
  /\ UNCHANGED <<stream, frames, cut, header, replies, closed>>

Ended == pc \in {"clean", "error"} /\ UNCHANGED vars

Server ==
  \/ StopAtToken \/ ReadHeader \/ ReadHeaderEnds \/ ReadPayload
  \/ WriteReply \/ WriteFails \/ EndAtDisc

Next ==
  \/ \E f \in Frame : KernelSends(f)
  \/ \E n \in 0 .. Len(stream) : KernelGoes(n)
  \/ BridgeCloses
  \/ Server
  \/ Ended

Spec == Init /\ [][Next]_vars
-----------------------------------------------------------------------------
\* A reply with as much data behind it as the kernel's reader expects.
InStep(i) ==
  replies[i].data = IF frames[i].op = "read" /\ replies[i].errno = "ok"
                    THEN frames[i].length ELSE 0

\* As long as the engine loop lives, what the kernel's reader takes for a reply
\* is one: reply after reply has the handle of the oldest request without one,
\* and as much data behind it as that request and the error code say, whatever
\* was refused before it.  Without the loop only the EIO of a read has data the
\* reader does not expect: the text (ErrorRepliesAreBare of Attach).
RepliesAreInStep ==
  \A i \in 1 .. Len(replies) :
    /\ i <= Len(frames)
    /\ replies[i].handle = frames[i].handle
    /\ \/ InStep(i)
       \/ closed /\ frames[i].op = "read" /\ frames[i].valid /\ replies[i].errno = "EIO"

\* Behind a text, from where on the kernel's reader takes other bytes for a
\* header, no reply says ok: what it misreads, or loses when it gives up, is
\* never the acknowledgement of a write or of a flush.
NoOkBehindText ==
  \A i, j \in 1 .. Len(replies) :
    i < j /\ ~InStep(i) => replies[j].errno # "ok"

\* The server only ever fails on a stream the kernel has cut: of an unbroken
\* stream no payload is read as a header.
ErrorMeansCut == pc = "error" => cut

\* A loop that ends without an error and without being told to has answered
\* every request that arrived whole, although the end of the stream within a
\* header is no error.
CleanEndAnswersAll ==
  pc = "clean" /\ ~stopped => Len(replies) = Len(frames)

\* The inductive invariant.  The requests without a reply lie on the stream
\* one behind the other: the k-th of them from position starts[k] on, where
\* position 1 is the next unit to be read, so that what is read of the request
\* being served lies before it.  Behind them the kernel may have left a part
\* of one more.
Waiting == Len(frames) - Len(replies)

First ==
  IF header = NoFrame THEN 1 ELSE IF pc = "payload" THEN 0 ELSE -Payload(header)

LiesAt(f, start, p) == stream[p] = UnitsOf(f)[p - start + 1]

Broken(start) ==
  \E f \in Frame :
    /\ Len(stream) - start < Payload(f)
    /\ \A p \in 1 .. Len(stream) : start <= p => LiesAt(f, start, p)
    /\ pc = "payload" /\ Waiting = 0 => f = header

Layout(starts) ==
  /\ starts \in [1 .. Waiting + 1 -> Int]
  /\ starts[1] = First
  /\ \A k \in 1 .. Waiting :
       starts[k + 1] = starts[k] + Payload(frames[Len(replies) + k]) + 1
  /\ \A j, k \in 1 .. Waiting + 1 : j < k => starts[j] < starts[k]
  /\ \A p \in 1 .. Len(stream) : p < starts[Waiting + 1] =>
       \E k \in 1 .. Waiting : starts[k] <= p /\ p < starts[k + 1]
  /\ \A k \in 1 .. Waiting, p \in 1 .. Len(stream) :
       starts[k] <= p /\ p < starts[k + 1] =>
         LiesAt(frames[Len(replies) + k], starts[k], p)
  /\ starts[Waiting + 1] <= Len(stream) + 1
  /\ ~cut => starts[Waiting + 1] = Len(stream) + 1
  /\ starts[Waiting + 1] <= Len(stream) => Broken(starts[Waiting + 1])

ServerInv ==
  /\ Waiting >= 0
  /\ pc \in {"payload", "answer"} =>
       header # NoFrame /\ (Waiting > 0 => header = frames[Len(replies) + 1])
  /\ pc = "answer" => Waiting > 0
  /\ pc = "clean" /\ ~stopped => cut /\ Waiting = 0
  /\ RepliesAreInStep /\ NoOkBehindText /\ ErrorMeansCut

\* The units of the requests from the a-th to the b-th of fs, as pairs of the
\* request and the unit's place in it: what lies before a request is counted.
SentUnits(fs, a, b) ==
  {u \in (a .. b) \X (1 .. MaxLength + 1) : u[2] <= Payload(fs[u[1]]) + 1}

StartOf(k) ==
  First + Cardinality(SentUnits(frames, Len(replies) + 1, Len(replies) + k - 1))

Positions == [k \in 1 .. Waiting + 1 |-> StartOf(k)]

IInv == TypeOK /\ ServerInv /\ (pc # "error" => Layout(Positions))
=============================================================================
