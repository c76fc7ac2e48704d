------------------------------- MODULE Attach -------------------------------
(***************************************************************************)
(* The attach process: run_attach (src/attach.rs), the engine loop and the *)
(* request function of the bridge (src/bridge.rs), and the NBD thread with *)
(* its disconnect watcher and its NBD_DO_IT thread (src/nbd.rs), between a *)
(* kernel that sends requests and an engine taken as what it promises, the *)
(* block device of BlockDevice.                                            *)
(***************************************************************************)
EXTENDS Blocks

CONSTANTS
  Requests,   \* the reads, writes and flushes the kernel may send
  Handles,    \* names for the requests of the kernel that have no reply yet
  Faults      \* which of "panic" and "handler" may happen, see below

ASSUME AttachRequestsAssumption ==
  /\ Requests \subseteq Request
  /\ \A r \in Requests : r.op # "disconnect"

ASSUME HandlesAssumption == IsFiniteSet(Handles) /\ "none" \notin Handles

ASSUME FaultsAssumption == Faults \subseteq {"panic", "handler"}

VARIABLES
  view, stable, pending, reply,   \* the engine, as a block device
  loop,          \* run_engine_loop
  queued,        \* the request in the channel, or NoRequest
  response,      \* the answer in the oneshot channel, or NoResponse
  nbd,           \* serve_blocking
  header,        \* the request the NBD thread serves
  nbdFailed,     \* serve returns an error
  nbdCancelled,  \* the NBD thread has cancelled its own child token
  watcher,       \* the disconnect watcher thread
  doIt,          \* the NBD_DO_IT thread
  main,          \* run_attach
  shutdown,      \* the parent token is cancelled
  logged,        \* a failed final flush was written to stderr
  conn,          \* the socket, as the kernel has it
  wire,          \* what the kernel has sent and the NBD thread not read
  outstanding,   \* handles the kernel waits for
  sent,          \* the last reply written to the kernel
  acked          \* history: what acknowledged writes left in each block

engineVars == <<view, stable, pending, reply>>
bridgeVars == <<loop, queued, response>>
nbdVars == <<nbd, header, nbdFailed, nbdCancelled, watcher, doIt>>
mainVars == <<main, shutdown, logged>>
kernelVars == <<conn, wire, outstanding, sent, acked>>
vars == <<engineVars, bridgeVars, nbdVars, mainVars, kernelVars>>

Device == INSTANCE BlockDevice

\* A request on the wire; NoRequest stands for a command nbd.rs does not know.
Header == [handle : Handles, req : Requests \cup {NoRequest}]
DiscRequest == [NoRequest EXCEPT !.op = "disconnect"]
NoHeader == [handle |-> "none", req |-> NoRequest]
Disc == [handle |-> "none", req |-> DiscRequest]

\* A BridgeResponse: its data is the blocks of a read, the text of an error
\* of the channel, or nothing.
Response ==
  [status : {"ok", "EINVAL", "EIO"}, data : {"nothing", "blocks", "text"}]
NoResponse == [status |-> "none", data |-> "nothing"]

ToKernel ==
  [op : {"none", "read", "write", "flush"}, status : {"none", "ok", "EINVAL", "EIO"},
   payload : {"nothing", "blocks", "text"}]

TypeOK ==
  /\ view \in Volume /\ stable \in Volume
  /\ pending \in Requests \cup {DiscRequest, NoRequest}
  /\ reply \in Reply
  /\ loop \in {"select", "serving", "closing", "done", "gone"}
  /\ queued \in Requests \cup {DiscRequest, NoRequest}
  /\ response \in Response \cup {NoResponse}
  /\ nbd \in {"opening", "checking", "header", "waiting", "teardown", "closing",
              "joining", "done"}
  /\ header \in Header \cup {Disc, NoHeader}
  /\ nbdFailed \in BOOLEAN /\ nbdCancelled \in BOOLEAN
  /\ watcher \in {"off", "polling", "done"}
  /\ doIt \in {"off", "running", "returned"}
  /\ main \in {"selecting", "joiningNbd", "joiningEngine", "unwinding", "exited",
               "failed"}
  /\ shutdown \in BOOLEAN /\ logged \in BOOLEAN
  /\ conn \in {"off", "up", "disconnecting", "down"}
  /\ wire \in Seq(Header \cup {Disc}) /\ Len(wire) <= Cardinality(Handles) + 1
  /\ outstanding \subseteq Handles
  /\ sent \in ToKernel
  /\ acked \in BlockMap

Init ==
  /\ Device!Init
  /\ loop = "select" /\ queued = NoRequest /\ response = NoResponse
  /\ nbd = "opening" /\ header = NoHeader
  /\ nbdFailed = FALSE /\ nbdCancelled = FALSE
  /\ watcher = "off" /\ doIt = "off"
  /\ main = "selecting" /\ shutdown = FALSE /\ logged = FALSE
  /\ conn = "off" /\ wire = <<>> /\ outstanding = {}
  /\ sent = [op |-> "none", status |-> "none", payload |-> "nothing"]
  /\ acked = NoBlocks

\* What the child token of the NBD thread says.
Cancelled == shutdown \/ nbdCancelled

-----------------------------------------------------------------------------
(* The engine loop                                                         *)

\* What an acknowledged write left is unsure once the engine is given its
\* blocks to write again.
Unsure(m, r) ==
  IF r.op = "write" THEN Restricted(m, Lba \ RangeOf(r)) ELSE m

\* recv() gives a request and handle_request passes it to the engine; the
\* select is unbiased, so a request may win over a shutdown.
LoopTakes ==
  /\ loop = "select"
  /\ queued # NoRequest
  /\ Device!Submit(queued)
  /\ queued' = NoRequest
  /\ loop' = "serving"
  /\ acked' = Unsure(acked, queued)
  /\ UNCHANGED <<response, nbdVars, mainVars, conn, wire, outstanding, sent>>

\* The engine works on what it was given, and answers.
EngineWorks ==
  /\ pending # NoRequest
  /\ \/ Device!TakeWrite
     \/ \E S \in SUBSET Lba : Device!Destage(S)
  /\ UNCHANGED <<bridgeVars, nbdVars, mainVars, kernelVars>>

EngineAnswers ==
  /\ Device!AckRead \/ Device!AckWrite \/ Device!AckFlush \/ Device!Fail
  /\ UNCHANGED <<bridgeVars, nbdVars, mainVars, kernelVars>>

\* Faulty variant: the error of the engine is lost.
AlwaysOk ==
  [status |-> IF reply.status = "none" THEN "none" ELSE "ok",
   data |-> IF reply.op = "read" /\ reply.status = "ok" THEN "blocks" ELSE "nothing"]

\* BridgeResponse::ok and BridgeResponse::from_error.
FromReply ==
  [status |-> reply.status,
   data |-> IF reply.op = "read" /\ reply.status = "ok" THEN "blocks" ELSE "nothing"]

\* handle_request returns.  The loop ends after a Disconnect, even after one
\* whose flush failed; that failure is logged.
LoopAnswers ==
  /\ loop = "serving"
  /\ pending = NoRequest
  /\ response' = FromReply
  /\ loop' = IF reply.op = "disconnect" THEN "done" ELSE "select"
  /\ logged' = (logged \/ (reply.op = "disconnect" /\ reply.status # "ok"))
  /\ UNCHANGED <<engineVars, queued, nbdVars, main, shutdown, kernelVars>>

\* Faulty variant: the loop ends without the final disconnect.
LoopQuits ==
  /\ loop = "select"
  /\ shutdown \/ (nbd = "done" /\ queued = NoRequest)
  /\ loop' = "done"
  /\ UNCHANGED <<engineVars, queued, response, nbdVars, mainVars, kernelVars>>

\* The parent token is cancelled, or every sender is gone.
LoopShutsDown ==
  /\ loop = "select"
  /\ shutdown \/ (nbd = "done" /\ queued = NoRequest)
  /\ Device!Submit(DiscRequest)
  /\ loop' = "closing"
  /\ UNCHANGED <<queued, response, nbdVars, mainVars, kernelVars>>

\* Faulty variant: the text is taken for an answer.
ChannelSilent == [status |-> "ok", data |-> "text"]

\* What `request` makes of a channel that is closed, or of an answer that
\* will never come.
ChannelError == [status |-> "EIO", data |-> "text"]

\* The result of the final disconnect is discarded; the channel is dropped,
\* and a request in it with it.
LoopEnds ==
  /\ loop = "closing"
  /\ pending = NoRequest
  /\ loop' = "done"
  /\ queued' = NoRequest
  /\ response' = IF queued # NoRequest THEN ChannelError ELSE response
  /\ UNCHANGED <<engineVars, nbdVars, mainVars, kernelVars>>

\* The task is dropped with the engine and its cache, and no disconnect: a
\* request in the channel or in its hands finds the sender of its answer gone.
LoopDropped ==
  /\ loop' = "gone"
  /\ Device!PowerLoss
  /\ queued' = NoRequest
  /\ response' = IF queued # NoRequest \/ loop = "serving" THEN ChannelError ELSE response
  /\ UNCHANGED <<nbdVars, mainVars, kernelVars>>

\* "panic": the engine panics in a retry, when delay_for_attempt is given a
\* jitter ratio (NaN, infinite, huge) that gen_range or from_secs_f64 refuses.
LoopPanics ==
  /\ "panic" \in Faults
  /\ pending # NoRequest
  /\ LoopDropped

\* run_attach has returned early: the runtime drops the task at an await.
RuntimeDropsLoop ==
  /\ main = "unwinding"
  /\ loop \notin {"done", "gone"}
  /\ LoopDropped

-----------------------------------------------------------------------------
(* The NBD thread                                                          *)

\* The device is opened and configured, the two threads are started.
NbdOpens ==
  /\ nbd = "opening"
  /\ nbd' = "checking"
  /\ conn' = "up" /\ watcher' = "polling" /\ doIt' = "running"
  /\ UNCHANGED <<engineVars, bridgeVars, header, nbdFailed, nbdCancelled,
                 mainVars, wire, outstanding, sent, acked>>

\* An early `?`: before any thread is started, or, when the second dup fails,
\* with NBD_DO_IT running; the socket is closed by the return.
NbdOpenFails ==
  /\ nbd = "opening"
  /\ nbd' = "done" /\ nbdFailed' = TRUE
  /\ conn' = "down" /\ doIt' \in {"off", "running"}
  /\ UNCHANGED <<engineVars, bridgeVars, header, nbdCancelled, watcher,
                 mainVars, wire, outstanding, sent, acked>>

NbdChecks ==
  /\ nbd = "checking"
  /\ nbd' = IF Cancelled THEN "teardown" ELSE "header"
  /\ UNCHANGED <<engineVars, bridgeVars, header, nbdFailed, nbdCancelled,
                 watcher, doIt, mainVars, kernelVars>>

\* bridge::request: send to the engine loop, or find its channel closed.
Ask(r) ==
  IF loop \in {"done", "gone"}
    THEN response' = ChannelError /\ UNCHANGED queued
    ELSE queued' = r /\ response' = NoResponse

\* validate_range, for reads and writes; other commands have no range.
RangeRefused(r) ==
  r.op \in {"read", "write"} /\ ~Device!WellFormed(r)

\* read_request_header, and the payload of a write; then the range check or
\* the default arm answers EINVAL, or the engine is asked.
NbdReads ==
  /\ nbd = "header"
  /\ wire # <<>>
  /\ LET r == Head(wire).req
     IN  IF RangeRefused(r) \/ r = NoRequest
         THEN response' = [status |-> "EINVAL", data |-> "nothing"] /\ UNCHANGED queued
         ELSE Ask(r)
  /\ header' = Head(wire)
  /\ wire' = Tail(wire)
  /\ nbd' = "waiting"
  /\ UNCHANGED <<engineVars, loop, nbdFailed, nbdCancelled, watcher, doIt,
                 mainVars, conn, outstanding, sent, acked>>

\* The socket ends: between two requests or in a header, which are the same to
\* read_request_header, or in the payload of a write, which is an error; or it
\* is reset, which is an error anywhere.
NbdReadEnds ==
  /\ nbd = "header"
  /\ conn = "down"
  /\ nbd' = "teardown"
  /\ nbdFailed' \in {nbdFailed, TRUE}
  /\ UNCHANGED <<engineVars, bridgeVars, header, nbdCancelled, watcher, doIt,
                 mainVars, kernelVars>>

\* What write_reply is given: only a reply to a READ has a payload.
ReplyTo(r, resp) ==
  [op |-> r.op, status |-> resp.status,
   payload |-> IF r.op = "read" THEN resp.data ELSE "nothing"]

\* The kernel takes a reply; bytes that are no reply make it drop the socket.
KernelTakes(h, rep) ==
  /\ sent' = rep
  /\ outstanding' = outstanding \ {h}
  /\ conn' = IF rep.payload = "text" THEN "down" ELSE conn

\* Faulty variant: the handle is forgotten too early.
NbdRepliesToNobody ==
  /\ nbd = "waiting"
  /\ header.req.op # "disconnect"
  /\ response # NoResponse
  /\ conn # "down"
  /\ KernelTakes(NoHeader.handle, ReplyTo(header.req, response))
  /\ header' = NoHeader
  /\ response' = NoResponse
  /\ nbd' = "checking"
  /\ UNCHANGED <<engineVars, loop, queued, nbdFailed, nbdCancelled, watcher,
                 doIt, mainVars, wire, acked>>

NbdReplies ==
  /\ nbd = "waiting"
  /\ header.req.op # "disconnect"
  /\ response # NoResponse
  /\ conn # "down"
  /\ KernelTakes(header.handle, ReplyTo(header.req, response))
  /\ acked' = IF header.req.op = "write" /\ response.status = "ok"
                THEN Written(header.req, acked) ELSE acked
  /\ header' = NoHeader
  /\ response' = NoResponse
  /\ nbd' = "checking"
  /\ UNCHANGED <<engineVars, loop, queued, nbdFailed, nbdCancelled, watcher,
                 doIt, mainVars, wire>>

\* write_reply fails, or the answer to DISC, which is not looked at.
NbdStops ==
  /\ nbd = "waiting"
  /\ response # NoResponse
  /\ \/ header.req.op = "disconnect" /\ UNCHANGED nbdFailed
     \/ header.req.op # "disconnect" /\ conn = "down" /\ nbdFailed' = TRUE
  /\ header' = NoHeader
  /\ response' = NoResponse
  /\ nbd' = "teardown"
  /\ UNCHANGED <<engineVars, loop, queued, nbdCancelled, watcher, doIt,
                 mainVars, kernelVars>>

\* After the loop: cancel the own token and ask for a disconnect again.
NbdTearsDown ==
  /\ nbd = "teardown"
  /\ nbdCancelled' = TRUE
  /\ Ask(DiscRequest)
  /\ nbd' = "closing"
  /\ UNCHANGED <<engineVars, loop, header, nbdFailed, watcher, doIt, mainVars,
                 kernelVars>>

\* The ioctls of the teardown, and the sockets are dropped.
NbdCloses ==
  /\ nbd = "closing"
  /\ response # NoResponse
  /\ response' = NoResponse
  /\ conn' = "down" /\ wire' = <<>> /\ outstanding' = {}
  /\ nbd' = "joining"
  /\ UNCHANGED <<engineVars, loop, queued, header, nbdFailed, nbdCancelled,
                 watcher, doIt, mainVars, sent, acked>>

NbdJoins ==
  /\ nbd = "joining"
  /\ watcher = "done" /\ doIt = "returned"
  /\ nbd' = "done"
  /\ UNCHANGED <<engineVars, bridgeVars, header, nbdFailed, nbdCancelled,
                 watcher, doIt, mainVars, kernelVars>>

\* NBD_DISCONNECT: the kernel sends DISC, and nothing after it.
KernelDisconnects ==
  IF conn = "up" THEN conn' = "disconnecting" /\ wire' = Append(wire, Disc)
                 ELSE UNCHANGED <<conn, wire>>

\* Faulty variant: the watcher ends without the ioctl.
WatcherQuits ==
  /\ watcher = "polling"
  /\ Cancelled
  /\ watcher' = "done"
  /\ UNCHANGED <<engineVars, bridgeVars, nbd, header, nbdFailed, nbdCancelled,
                 doIt, mainVars, kernelVars>>

WatcherFires ==
  /\ watcher = "polling"
  /\ Cancelled
  /\ watcher' = "done"
  /\ KernelDisconnects
  /\ UNCHANGED <<engineVars, bridgeVars, nbd, header, nbdFailed, nbdCancelled,
                 doIt, mainVars, outstanding, sent, acked>>

\* run_nbd_do_it: the ioctl returns once the socket is gone, with an error or
\* with one of those that mean a disconnect.
DoItReturns ==
  /\ doIt = "running"
  /\ conn = "down"
  /\ doIt' = "returned"
  /\ nbdFailed' \in {nbdFailed, TRUE}
  /\ UNCHANGED <<engineVars, bridgeVars, nbd, header, nbdCancelled, watcher,
                 mainVars, kernelVars>>

-----------------------------------------------------------------------------
(* run_attach                                                              *)

Signal ==
  /\ main = "selecting"
  /\ main' = "joiningNbd"
  /\ shutdown' = TRUE
  /\ UNCHANGED <<engineVars, bridgeVars, nbdVars, logged, kernelVars>>

MainNbdDone ==
  /\ main \in {"selecting", "joiningNbd"}
  /\ nbd = "done"
  /\ shutdown' = TRUE
  /\ main' = "joiningEngine"
  /\ UNCHANGED <<engineVars, bridgeVars, nbdVars, logged, kernelVars>>

\* Faulty variant: an engine task that panicked is joined like any other.
MainExitsRegardless ==
  /\ main = "joiningEngine"
  /\ loop \in {"done", "gone"}
  /\ main' = IF nbdFailed THEN "failed" ELSE "exited"
  /\ UNCHANGED <<engineVars, bridgeVars, nbdVars, shutdown, logged, kernelVars>>

\* The engine task is joined: an error if it panicked, else what nbd returned.
MainExits ==
  /\ main = "joiningEngine"
  /\ loop \in {"done", "gone"}
  /\ main' = IF nbdFailed \/ loop = "gone" THEN "failed" ELSE "exited"
  /\ UNCHANGED <<engineVars, bridgeVars, nbdVars, shutdown, logged, kernelVars>>

\* "handler": a signal handler cannot be installed, and run_attach returns
\* with neither a cancellation nor a join.
SignalFails ==
  /\ "handler" \in Faults
  /\ main = "selecting"
  /\ main' = "unwinding"
  /\ UNCHANGED <<engineVars, bridgeVars, nbdVars, shutdown, logged, kernelVars>>

\* The end of the runtime waits for the NBD thread, a spawn_blocking task.
RuntimeEnds ==
  /\ main = "unwinding"
  /\ loop \in {"done", "gone"}
  /\ nbd = "done"
  /\ main' = "failed"
  /\ UNCHANGED <<engineVars, bridgeVars, nbdVars, shutdown, logged, kernelVars>>

Ended == main \in {"exited", "failed"}

\* The process is gone; the engine, its threads and the socket with it.
Gone == Ended /\ UNCHANGED vars

-----------------------------------------------------------------------------
(* The kernel                                                              *)

KernelSends(h, r) ==
  /\ conn = "up"
  /\ h \notin outstanding
  /\ outstanding' = outstanding \cup {h}
  /\ wire' = Append(wire, [handle |-> h, req |-> r])
  /\ UNCHANGED <<engineVars, bridgeVars, nbdVars, mainVars, conn, sent, acked>>

\* Another program disconnects the device (nbd-client -d).
KernelDetached ==
  /\ conn = "up"
  /\ KernelDisconnects
  /\ UNCHANGED <<engineVars, bridgeVars, nbdVars, mainVars, outstanding, sent,
                 acked>>

\* NBD_SET_TIMEOUT: a request has waited too long, the socket is shut down.
KernelTimesOut ==
  /\ conn \in {"up", "disconnecting"}
  /\ outstanding # {}
  /\ conn' = "down"
  /\ outstanding' = {}
  /\ UNCHANGED <<engineVars, bridgeVars, nbdVars, mainVars, wire, sent, acked>>

LoopStep == LoopTakes \/ LoopAnswers \/ LoopShutsDown \/ LoopEnds

NbdStep ==
  \/ NbdOpens \/ NbdOpenFails \/ NbdChecks \/ NbdReads \/ NbdReadEnds
  \/ NbdReplies \/ NbdStops \/ NbdTearsDown \/ NbdCloses \/ NbdJoins

Next ==
  \/ LoopStep \/ EngineWorks \/ EngineAnswers
  \/ NbdStep \/ WatcherFires \/ DoItReturns
  \/ LoopPanics \/ RuntimeDropsLoop
  \/ Signal \/ MainNbdDone \/ MainExits \/ SignalFails \/ RuntimeEnds \/ Gone
  \/ \E h \in Handles, r \in Requests \cup {NoRequest} : KernelSends(h, r)
  \/ KernelDetached \/ KernelTimesOut

Spec == Init /\ [][Next]_vars

\* Tasks and threads are scheduled; the engine answers every request (the
\* property Answered of Engine).  Nothing is asked of the kernel's users, its
\* timeout, the signal or the faults.
FairSpec ==
  /\ Spec
  /\ WF_vars(LoopStep) /\ WF_vars(EngineAnswers)
  /\ WF_vars(NbdStep) /\ WF_vars(WatcherFires) /\ WF_vars(DoItReturns)
  /\ WF_vars(MainNbdDone) /\ WF_vars(MainExits)
  /\ WF_vars(RuntimeDropsLoop) /\ WF_vars(RuntimeEnds)

-----------------------------------------------------------------------------
(* Properties                                                              *)

\* A write the kernel was told is done is what a reader finds, across the
\* bridge, the shutdown and the closed channel: no OK without the engine's.
\* Only an engine that is dropped with its cache takes its writes along.
AckedWritesVisible ==
  loop # "gone" => \A b \in Lba : acked[b] # Absent => view[b] = acked[b]

\* When the kernel is told that a flush is done, every write it was told of
\* before is stored.
FlushAckMeansStored ==
  sent.op = "flush" /\ sent.status = "ok" /\ nbd = "checking" =>
    \A b \in Lba : acked[b] # Absent => stable[b] = acked[b]

\* A final flush that went well is final: nothing is acknowledged behind it,
\* whichever of signal, DISC, teardown and closed channel came first.
FinalFlushIsFinal ==
  loop = "done" /\ reply.status = "ok" =>
    \A b \in Lba : acked[b] # Absent => stable[b] = acked[b]

\* The process ends well only after a final disconnect, behind which nothing
\* was written, and with everything stored if its flush went well: an engine
\* task that panicked, or was dropped, never looks like a clean detach.
SuccessIsAfterDisconnect ==
  main = "exited" =>
    reply.op = "disconnect" /\ (reply.status = "ok" => stable = view)

\* The inductive invariant.  The request the NBD thread has asked for is in
\* exactly one place: the channel, the hands of the loop, or the answer.
Current == IF nbd = "closing" THEN DiscRequest ELSE header.req

OnePlace ==
  /\ nbd \in {"waiting", "closing"} <=>
       queued # NoRequest \/ loop = "serving" \/ response # NoResponse
  /\ queued # NoRequest =>
       queued = Current /\ response = NoResponse /\ loop \in {"select", "closing"}
  /\ loop = "serving" => response = NoResponse

\* What the engine has in hand, by the place of the loop, and what it answered.
EngineInv ==
  /\ loop \in {"select", "done", "gone"} => pending = NoRequest
  /\ loop = "closing" => pending \in {DiscRequest, NoRequest}
  /\ loop = "serving" => pending \in {Current, NoRequest}
  /\ loop = "serving" /\ pending = NoRequest =>
       reply.op = Current.op /\ reply.status # "none"
  /\ loop \in {"closing", "done"} /\ pending = NoRequest => reply.op = "disconnect"
  /\ pending = NoRequest /\ reply.op \in {"flush", "disconnect"} /\ reply.status = "ok" =>
       stable = view
  /\ main = "exited" => loop = "done"

\* The handles on the wire are different ones, and the kernel waits for them.
HandleInv ==
  /\ nbd = "opening" => conn = "off"
  /\ conn = "off" => wire = <<>>
  /\ \A i, j \in 1 .. Len(wire) : wire[i].handle = wire[j].handle => i = j
  /\ nbd = "waiting" => \A i \in 1 .. Len(wire) : wire[i].handle # header.handle
  /\ conn \in {"up", "disconnecting"} =>
       \A i \in 1 .. Len(wire) : wire[i].handle \in outstanding \cup {"none"}
  /\ conn = "up" => /\ \A i \in 1 .. Len(wire) : wire[i].handle # "none"
                    /\ nbd = "waiting" => header.handle \in outstanding

\* What the kernel may have been told of is held by m.
Holds(m) == \A b \in Lba : acked[b] # Absent => m[b] = acked[b]

\* A write that is answered is in view until the kernel has the answer; while
\* the engine has it in hand nothing is claimed of its blocks.  A flush that is answered
\* found what the kernel was told of stored.
AckedInv ==
  /\ AckedWritesVisible
  /\ loop = "serving" /\ pending.op = "write" =>
       \A b \in RangeOf(pending) \cap Lba : acked[b] = Absent
  /\ nbd = "waiting" /\ header.req.op = "write" =>
       /\ loop = "serving" /\ pending = NoRequest /\ reply.status = "ok" =>
            Written(header.req, view) = view
       /\ loop # "gone" /\ response.status = "ok" => Written(header.req, view) = view
  /\ nbd = "waiting" /\ header.req.op = "flush" /\ response.status = "ok" => Holds(stable)
  /\ FlushAckMeansStored
  /\ nbd = "opening" => sent.op = "none"

IInv == TypeOK /\ OnePlace /\ EngineInv /\ HandleInv /\ AckedInv

\* The process does not end well, without having said that the final flush
\* failed, while writes that were taken are not stored (README: "Dirty data is
\* never silently dropped"; the lines of the session are about attempts).
NoSilentLoss == main = "exited" /\ ~logged => stable = view

\* A reply that reports an error is a header alone (DESIGN: the adapter
\* "writes NBD replies"; BridgeResponse::from_error carries no data).
ErrorRepliesAreBare ==
  sent.status \in {"EINVAL", "EIO"} => sent.payload = "nothing"

\* Once a signal has come or the device is disconnected, the process ends: no
\* thread waits for ever for a header, an answer or another thread.
DetachCompletes ==
  main = "joiningNbd" \/ conn \in {"disconnecting", "down"} ~> Ended

\* Every request of the kernel is answered, or given up with the socket.
EveryRequestEnds ==
  \A h \in Handles : h \in outstanding ~> h \notin outstanding
=============================================================================
