---------------------------- MODULE CreateVolume ----------------------------
(***************************************************************************)
(* run_create_volume (src/create.rs), run by several commands for the same *)
(* volume, at once or one after another.  Each makes one RPC, without      *)
(* retry; the frontend may carry it out after the command gave up.  What   *)
(* the frontend does with a request is modelled from how create.rs and     *)
(* tests/support/workflow_smoke.rs use it: the first request creates the   *)
(* volume, one with another request_id is answered AlreadyExists, and one  *)
(* with the same request_id may be answered either way.                    *)
(***************************************************************************)
EXTENDS Integers

CONSTANTS
  Commands,     \* the runs of create-volume
  Sizes,        \* values of --size-bytes, a u64
  BlockSizes,   \* values of --block-size-bytes, a u32; 0: let server choose
  I64Max,       \* i64::MAX
  I32Max,       \* i32::MAX
  Explicit,     \* values of --request-id
  ServerBlock   \* the block size the server chooses

ASSUME WidthsAssumption ==
  /\ I64Max \in Nat /\ I32Max \in Nat
  /\ Sizes \subseteq 0 .. 2 * I64Max + 1
  /\ BlockSizes \subseteq 0 .. 2 * I32Max + 1
ASSUME CreateNamesAssumption ==
  /\ ServerBlock \in 0 .. I32Max
  /\ Explicit \cap Commands = {}

VARIABLES
  args,     \* the arguments of each command
  pc,       \* where each command is
  outcome,  \* what it returned
  message,  \* the CreateVolumeRequest it sent
  arrived,  \* the commands whose request the frontend has and has not served
  answer,   \* the answer of the frontend to each command
  volume    \* the volume at the frontend

commandVars == <<args, pc, outcome, message>>
vars == <<commandVars, arrived, answer, volume>>

NoVolume == [size |-> 0, block |-> 0, by |-> "none"]
NoMessage == [size |-> 0, block |-> 0, id |-> "none"]

\* A command without --request-id makes one up from its pid and the time,
\* which no other command has: its own name.
NoRequestId == "default"

Arguments ==
  [size : Sizes, block : BlockSizes, id : Explicit \cup {NoRequestId},
   ifNotExists : BOOLEAN]

RequestIds == Explicit \cup Commands

\* Faulty variant: the default is the same for every command.
DefaultConstant(c) == CHOOSE d \in Commands : TRUE

DefaultRequestId(c) == c

RequestIdOf(c) == IF args[c].id = NoRequestId THEN DefaultRequestId(c) ELSE args[c].id

TypeOK ==
  /\ args \in [Commands -> Arguments]
  /\ pc \in [Commands -> {"idle", "connecting", "waiting", "ended"}]
  /\ outcome \in [Commands -> {"none", "created", "alreadyExists", "error"}]
  /\ message \in [Commands ->
       [size : 0 .. I64Max, block : 0 .. I32Max, id : RequestIds \cup {"none"}]]
  /\ arrived \subseteq Commands
  /\ answer \in [Commands -> {"none", "created", "mismatch", "AlreadyExists", "other"}]
  /\ volume \in [size : 1 .. I64Max, block : 0 .. I32Max, by : RequestIds] \cup {NoVolume}

\* Nothing keeps a request_id from being given again with other arguments.
Init ==
  /\ args \in [Commands -> Arguments]
  /\ pc = [c \in Commands |-> "idle"]
  /\ outcome = [c \in Commands |-> "none"]
  /\ message = [c \in Commands |-> NoMessage]
  /\ arrived = {}
  /\ answer = [c \in Commands |-> "none"]
  /\ volume = NoVolume

End(c, result) ==
  /\ pc' = [pc EXCEPT ![c] = "ended"]
  /\ outcome' = [outcome EXCEPT ![c] = result]

\* The size is checked before anything is connected.
Start(c) ==
  /\ pc[c] = "idle"
  /\ IF args[c].size = 0
     THEN End(c, "error")
     ELSE pc' = [pc EXCEPT ![c] = "connecting"] /\ UNCHANGED outcome
  /\ UNCHANGED <<args, message, arrived, answer, volume>>

ConnectFails(c) ==
  /\ pc[c] = "connecting"
  /\ End(c, "error")
  /\ UNCHANGED <<args, message, arrived, answer, volume>>

\* `as i64`, which wraps, and i64::try_from, which refuses.
Wrapped(value, max) == IF value > max THEN value - 2 * (max + 1) ELSE value
FitsSigned(value, max) == value <= max

\* Faulty variant: the conversions wrap.
SendWrapping(c) ==
  /\ pc[c] = "connecting"
  /\ message' = [message EXCEPT ![c] =
       [size |-> Wrapped(args[c].size, I64Max),
        block |-> Wrapped(args[c].block, I32Max), id |-> RequestIdOf(c)]]
  /\ arrived' = arrived \cup {c}
  /\ pc' = [pc EXCEPT ![c] = "waiting"]
  /\ UNCHANGED <<args, outcome, answer, volume>>

\* Connected: the two integers are converted and the request is sent.
Send(c) ==
  /\ pc[c] = "connecting"
  /\ IF FitsSigned(args[c].size, I64Max) /\ FitsSigned(args[c].block, I32Max)
     THEN /\ message' = [message EXCEPT ![c] =
               [size |-> args[c].size, block |-> args[c].block, id |-> RequestIdOf(c)]]
          /\ arrived' = arrived \cup {c}
          /\ pc' = [pc EXCEPT ![c] = "waiting"]
          /\ UNCHANGED outcome
     ELSE End(c, "error") /\ UNCHANGED <<message, arrived>>
  /\ UNCHANGED <<args, answer, volume>>

\* The frontend carries a request out, although its command may be gone.
Serve(c) ==
  /\ c \in arrived
  /\ arrived' = arrived \ {c}
  /\ IF volume = NoVolume
     THEN /\ volume' = [size |-> message[c].size, by |-> message[c].id,
                        block |-> IF message[c].block = 0 THEN ServerBlock
                                                          ELSE message[c].block]
          /\ answer' = [answer EXCEPT ![c] = "created"]
     ELSE /\ \E a \in {"AlreadyExists"} \cup
                      (IF volume.by = message[c].id THEN {"created"} ELSE {}) :
               answer' = [answer EXCEPT ![c] = a]
          /\ UNCHANGED volume
  /\ UNCHANGED commandVars

\* It refuses, or loses, a request, or answers for another volume.
Refuse(c) ==
  /\ c \in arrived
  /\ arrived' = arrived \ {c}
  /\ \E a \in {"none", "mismatch", "other"} : answer' = [answer EXCEPT ![c] = a]
  /\ UNCHANGED <<commandVars, volume>>

\* Faulty variant: --if-not-exists takes every status for AlreadyExists.
OutcomeAnyStatus(c) ==
  CASE answer[c] = "created" -> "created"
    [] answer[c] # "mismatch" /\ args[c].ifNotExists -> "alreadyExists"
    [] OTHER -> "error"

\* Faulty variant: the response is not looked at.
OutcomeUnchecked(c) ==
  CASE answer[c] \in {"created", "mismatch"} -> "created"
    [] answer[c] = "AlreadyExists" /\ args[c].ifNotExists -> "alreadyExists"
    [] OTHER -> "error"

\* A response must name the volume and a run; of the statuses only
\* AlreadyExists can be a success.
Outcome(c) ==
  CASE answer[c] = "created" -> "created"
    [] answer[c] = "AlreadyExists" /\ args[c].ifNotExists -> "alreadyExists"
    [] OTHER -> "error"

Return(c) ==
  /\ pc[c] = "waiting"
  /\ answer[c] # "none"
  /\ End(c, Outcome(c))
  /\ UNCHANGED <<args, message, arrived, answer, volume>>

\* Faulty variant: a frontend that does not answer is waited for.
WaitForEver(c) == FALSE /\ UNCHANGED vars

\* The timeout may pass although the answer is on its way.
TimesOut(c) ==
  /\ pc[c] = "waiting"
  /\ End(c, "error")
  /\ UNCHANGED <<args, message, arrived, answer, volume>>

AllEnded == \A c \in Commands : pc[c] = "ended"

Done == AllEnded /\ arrived = {} /\ UNCHANGED vars

CommandStep(c) ==
  Start(c) \/ ConnectFails(c) \/ Send(c) \/ Return(c) \/ TimesOut(c)

Next ==
  \/ \E c \in Commands : CommandStep(c) \/ Serve(c) \/ Refuse(c)
  \/ Done

\* Every await of a command has a timeout; the frontend may do nothing.
Spec == Init /\ [][Next]_vars /\ \A c \in Commands : WF_vars(CommandStep(c))
-----------------------------------------------------------------------------
Geometry(size, block) ==
  [size |-> size, block |-> IF block = 0 THEN ServerBlock ELSE block]

\* The commands whose request the frontend cannot tell from that of c.
SameId(c) ==
  {d \in Commands : d = c \/ (args[d].id = args[c].id /\ args[c].id # NoRequestId)}

\* A command that says it created the volume means it: the volume is the one
\* it asked for, or the one that a command with its --request-id asked for,
\* although any other command, or an abandoned request of an earlier one, may
\* have raced it.  (With a --request-id given again for another size or block
\* size it may be only the latter: the response has no geometry to compare.)
CreatedIsAsAsked ==
  \A c \in Commands : outcome[c] = "created" =>
    /\ volume # NoVolume
    /\ \E d \in SameId(c) :
         [size |-> volume.size, block |-> volume.block]
           = Geometry(args[d].size, args[d].block)

\* Two commands that both say they created the volume are the same request.
CreatedOnce ==
  \A c, d \in Commands :
    c # d /\ outcome[c] = "created" /\ outcome[d] = "created" =>
      args[c].id = args[d].id /\ args[c].id # NoRequestId

\* A command that succeeds leaves a volume to attach, whatever it found; that
\* it has the geometry asked for is not promised with --if-not-exists.
SuccessMeansExists ==
  \A c \in Commands : outcome[c] \in {"created", "alreadyExists"} => volume # NoVolume

\* Whatever timed out before, the volume is never one nobody asked for.
VolumeWasAskedFor ==
  volume # NoVolume =>
    \E c \in Commands :
      [size |-> volume.size, block |-> volume.block]
        = Geometry(args[c].size, args[c].block)

\* The inductive invariant.  What a command has sent is what it was told to
\* ask for; before it has sent it, the frontend has nothing of it.
Asked(c) ==
  [size |-> args[c].size, block |-> args[c].block, id |-> RequestIdOf(c)]

CommandInv ==
  \A c \in Commands :
    /\ pc[c] = "connecting" => args[c].size # 0
    /\ pc[c] \in {"idle", "connecting"} => c \notin arrived /\ answer[c] = "none"
    /\ c \in arrived \/ answer[c] # "none" =>
         message[c] = Asked(c) /\ args[c].size # 0
    /\ c \in arrived => answer[c] = "none"
    /\ outcome[c] = "created" => answer[c] = "created"
    /\ outcome[c] = "alreadyExists" => answer[c] = "AlreadyExists"

\* The volume is what one of the commands asked for, under the request_id of
\* that command; who is told that it created the volume has the same one.
VolumeInv ==
  /\ volume # NoVolume => \E c \in Commands :
       /\ volume.by = RequestIdOf(c)
       /\ [size |-> volume.size, block |-> volume.block]
            = Geometry(args[c].size, args[c].block)
  /\ \A c \in Commands :
       /\ answer[c] \in {"created", "AlreadyExists"} => volume # NoVolume
       /\ answer[c] = "created" => volume.by = RequestIdOf(c)

IInv == TypeOK /\ CommandInv /\ VolumeInv

\* Every command ends, although the frontend may never answer.
CommandEnds == \A c \in Commands : pc[c] # "idle" ~> pc[c] = "ended"
=============================================================================
