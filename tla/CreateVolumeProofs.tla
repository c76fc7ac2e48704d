------------------------- MODULE CreateVolumeProofs -------------------------
(***************************************************************************)
(* Theorems about CreateVolume for any number of commands, every size and  *)
(* block size they may be given, and every width of the integers they are  *)
(* converted to.                                                           *)
(***************************************************************************)
EXTENDS CreateVolume, TLAPS

\* Every command has a request_id.
LEMMA RequestIdType ==
  ASSUME args \in [Commands -> Arguments], NEW c \in Commands
  PROVE  /\ RequestIdOf(c) \in RequestIds
         /\ args[c].size \in 0 .. 2 * I64Max + 1 /\ args[c].block \in 0 .. 2 * I32Max + 1
BY WidthsAssumption DEF RequestIdOf, DefaultRequestId, RequestIds, Arguments

\* A request_id two commands have is one they were both given.
LEMMA SharedRequestId ==
  ASSUME args \in [Commands -> Arguments], NEW c \in Commands, NEW d \in Commands,
         c # d, RequestIdOf(c) = RequestIdOf(d)
  PROVE  args[c].id = args[d].id /\ args[c].id # NoRequestId
BY CreateNamesAssumption DEF RequestIdOf, DefaultRequestId, Arguments

\* A volume that was created is not the one that was not.
LEMMA NoVolumeFacts ==
  /\ NoVolume.size = 0
  /\ TypeOK /\ volume # NoVolume => volume.size \in 1 .. I64Max /\ volume.by \in RequestIds
                                    /\ volume.block \in 0 .. I32Max
BY DEF NoVolume, TypeOK

LEMMA InitIInv == Init => IInv
<1>. SUFFICES ASSUME Init PROVE IInv
  OBVIOUS
<1>1. NoMessage \in [size : 0 .. I64Max, block : 0 .. I32Max, id : RequestIds \cup {"none"}]
  BY WidthsAssumption DEF NoMessage
<1>2. TypeOK
  BY <1>1 DEF Init, TypeOK
<1>3. CommandInv /\ VolumeInv
  BY DEF Init, CommandInv, VolumeInv
<1>. QED
  BY <1>2, <1>3 DEF IInv

-----------------------------------------------------------------------------
(* The commands                                                            *)

\* A command that ends has not changed what it asked for, nor the volume.
LEMMA EndKeeps ==
  ASSUME IInv, NEW c \in Commands,
         NEW result \in {"created", "alreadyExists", "error"}, End(c, result),
         result = "created" => answer[c] = "created",
         result = "alreadyExists" => answer[c] = "AlreadyExists",
         UNCHANGED <<args, message, arrived, answer, volume>>
  PROVE  IInv'
<1>1. /\ pc' = [pc EXCEPT ![c] = "ended"] /\ outcome' = [outcome EXCEPT ![c] = result]
  BY DEF End
<1>2. TypeOK'
  BY <1>1 DEF IInv, TypeOK
<1>3. CommandInv'
  BY <1>1 DEF IInv, TypeOK, CommandInv, Asked, RequestIdOf
<1>4. VolumeInv'
  BY DEF IInv, VolumeInv, RequestIdOf
<1>. QED
  BY <1>2, <1>3, <1>4 DEF IInv

LEMMA StartIInv == ASSUME IInv, NEW c \in Commands, Start(c) PROVE IInv'
<1>1. CASE args[c].size = 0
  BY <1>1, EndKeeps DEF Start
<1>2. CASE args[c].size # 0
  <2>1. /\ pc[c] = "idle" /\ pc' = [pc EXCEPT ![c] = "connecting"]
        /\ UNCHANGED <<args, outcome, message, arrived, answer, volume>>
    BY <1>2 DEF Start
  <2>2. TypeOK'
    BY <2>1 DEF IInv, TypeOK
  <2>3. CommandInv'
    BY <1>2, <2>1 DEF IInv, TypeOK, CommandInv, Asked, RequestIdOf
  <2>4. VolumeInv'
    BY <2>1 DEF IInv, VolumeInv, RequestIdOf
  <2>. QED
    BY <2>2, <2>3, <2>4 DEF IInv
<1>. QED
  BY <1>1, <1>2

LEMMA SendIInv == ASSUME IInv, NEW c \in Commands, Send(c) PROVE IInv'
<1>1. CASE FitsSigned(args[c].size, I64Max) /\ FitsSigned(args[c].block, I32Max)
  <2>1. /\ pc[c] = "connecting" /\ message' = [message EXCEPT ![c] = Asked(c)]
        /\ arrived' = arrived \cup {c} /\ pc' = [pc EXCEPT ![c] = "waiting"]
        /\ UNCHANGED <<args, outcome, answer, volume>>
    BY <1>1 DEF Send, Asked
  <2>2. Asked(c) \in
          [size : 0 .. I64Max, block : 0 .. I32Max, id : RequestIds \cup {"none"}]
    BY <1>1, RequestIdType, WidthsAssumption DEF IInv, TypeOK, Asked, FitsSigned
  <2>3. TypeOK'
    BY <2>1, <2>2 DEF IInv, TypeOK
  <2>4. CommandInv'
    <3>1. SUFFICES ASSUME NEW d \in Commands
                   PROVE  /\ pc'[d] = "connecting" => args[d].size # 0
                          /\ pc'[d] \in {"idle", "connecting"} =>
                               d \notin arrived' /\ answer[d] = "none"
                          /\ d \in arrived' \/ answer[d] # "none" =>
                               message'[d] = Asked(d) /\ args[d].size # 0
                          /\ d \in arrived' => answer[d] = "none"
                          /\ outcome[d] = "created" => answer[d] = "created"
                          /\ outcome[d] = "alreadyExists" => answer[d] = "AlreadyExists"
      BY <2>1 DEF CommandInv, Asked, RequestIdOf
    <3>2. CASE d = c
      BY <2>1, <3>2 DEF IInv, TypeOK, CommandInv
    <3>3. CASE d # c
      BY <2>1, <3>3 DEF IInv, TypeOK, CommandInv
    <3>. QED
      BY <3>2, <3>3
  <2>5. VolumeInv'
    BY <2>1 DEF IInv, VolumeInv, RequestIdOf
  <2>. QED
    BY <2>3, <2>4, <2>5 DEF IInv
<1>2. CASE ~(FitsSigned(args[c].size, I64Max) /\ FitsSigned(args[c].block, I32Max))
  BY <1>2, EndKeeps DEF Send
<1>. QED
  BY <1>1, <1>2

\* A command believes what it was answered, and nothing else.
LEMMA ReturnIInv == ASSUME IInv, NEW c \in Commands, Return(c) PROVE IInv'
<1>1. /\ Outcome(c) \in {"created", "alreadyExists", "error"}
      /\ Outcome(c) = "created" => answer[c] = "created"
      /\ Outcome(c) = "alreadyExists" => answer[c] = "AlreadyExists"
  BY DEF Outcome
<1>. QED
  BY <1>1, EndKeeps DEF Return

LEMMA CommandStepIInv == ASSUME IInv, NEW c \in Commands, CommandStep(c) PROVE IInv'
<1>1. CASE ConnectFails(c) \/ TimesOut(c)
  BY <1>1, EndKeeps DEF ConnectFails, TimesOut
<1>. QED
  BY <1>1, StartIInv, SendIInv, ReturnIInv DEF CommandStep

-----------------------------------------------------------------------------
(* The frontend                                                            *)

\* An answer to a request: what the command was told before, it was told
\* nothing.
LEMMA AnswerKeeps ==
  ASSUME IInv, NEW c \in arrived,
         NEW a \in {"none", "created", "mismatch", "AlreadyExists", "other"},
         arrived' = arrived \ {c}, answer' = [answer EXCEPT ![c] = a],
         UNCHANGED commandVars
  PROVE  /\ CommandInv'
         /\ arrived' \subseteq Commands
         /\ answer' \in [Commands ->
              {"none", "created", "mismatch", "AlreadyExists", "other"}]
<1>1. c \in Commands /\ UNCHANGED <<args, pc, outcome, message>>
  BY DEF IInv, TypeOK, commandVars
<1>2. CommandInv'
  <2>1. SUFFICES ASSUME NEW d \in Commands
                 PROVE  /\ pc[d] = "connecting" => args[d].size # 0
                        /\ pc[d] \in {"idle", "connecting"} =>
                             d \notin arrived' /\ answer'[d] = "none"
                        /\ d \in arrived' \/ answer'[d] # "none" =>
                             message[d] = Asked(d) /\ args[d].size # 0
                        /\ d \in arrived' => answer'[d] = "none"
                        /\ outcome[d] = "created" => answer'[d] = "created"
                        /\ outcome[d] = "alreadyExists" => answer'[d] = "AlreadyExists"
    BY <1>1 DEF CommandInv, Asked, RequestIdOf
  <2>2. CASE d = c
    BY <2>2 DEF IInv, TypeOK, CommandInv
  <2>3. CASE d # c
    BY <2>3 DEF IInv, TypeOK, CommandInv
  <2>. QED
    BY <2>2, <2>3
<1>. QED
  BY <1>1, <1>2 DEF IInv, TypeOK

\* The first request makes the volume, and no later one changes it.
LEMMA ServeIInv == ASSUME IInv, NEW c \in Commands, Serve(c) PROVE IInv'
<1>1. /\ c \in arrived /\ arrived' = arrived \ {c}
      /\ UNCHANGED commandVars /\ UNCHANGED <<args, pc, outcome, message>>
  BY DEF Serve, commandVars
<1>2. message[c] = Asked(c) /\ args[c].size # 0
  BY <1>1 DEF IInv, CommandInv
<1>3. CASE volume = NoVolume
  <2>1. /\ volume' = [size |-> message[c].size, by |-> message[c].id,
                      block |-> IF message[c].block = 0 THEN ServerBlock
                                                        ELSE message[c].block]
        /\ answer' = [answer EXCEPT ![c] = "created"]
    BY <1>3 DEF Serve
  <2>2. /\ message[c].size \in 1 .. I64Max /\ message[c].block \in 0 .. I32Max
        /\ message[c].id = RequestIdOf(c) /\ RequestIdOf(c) \in RequestIds
    BY <1>2, RequestIdType, WidthsAssumption DEF IInv, TypeOK, Asked
  <2>3. /\ volume'.by = RequestIdOf(c) /\ volume'.size \in 1 .. I64Max
        /\ [size |-> volume'.size, block |-> volume'.block]
             = Geometry(args[c].size, args[c].block)
    BY <1>2, <2>1, <2>2 DEF Geometry, Asked
  <2>4. volume' # NoVolume
    BY <2>3, NoVolumeFacts, WidthsAssumption
  <2>5. TypeOK'
    BY <1>1, <2>1, <2>2, AnswerKeeps, CreateNamesAssumption DEF IInv, TypeOK
  <2>6. \A d \in Commands : d # c =>
          answer'[d] = answer[d] /\ answer[d] \notin {"created", "AlreadyExists"}
    BY <1>3, <2>1 DEF IInv, TypeOK, VolumeInv
  <2>7. VolumeInv'
    BY <1>1, <2>3, <2>4, <2>6 DEF VolumeInv, RequestIdOf
  <2>. QED
    BY <1>1, <2>1, <2>5, <2>7, AnswerKeeps DEF IInv
<1>4. CASE volume # NoVolume
  <2>1. PICK a \in {"AlreadyExists"} \cup
                   (IF volume.by = message[c].id THEN {"created"} ELSE {}) :
          answer' = [answer EXCEPT ![c] = a]
    BY <1>4 DEF Serve
  <2>2. volume' = volume /\ a \in {"AlreadyExists", "created"}
        /\ (a = "created" => volume.by = RequestIdOf(c))
    BY <1>2, <1>4, <2>1 DEF Serve, Asked
  <2>3. TypeOK'
    BY <1>1, <2>1, <2>2, AnswerKeeps DEF IInv, TypeOK
  <2>4. VolumeInv'
    <3>1. \E d \in Commands :
            /\ volume'.by = RequestIdOf(d)'
            /\ [size |-> volume'.size, block |-> volume'.block]
                 = Geometry(args'[d].size, args'[d].block)
      BY <1>1, <1>4, <2>2 DEF IInv, VolumeInv, RequestIdOf
    <3>2. ASSUME NEW d \in Commands, answer'[d] = "created"
          PROVE  volume'.by = RequestIdOf(d)'
      BY <1>1, <2>1, <2>2, <3>2 DEF IInv, TypeOK, VolumeInv, RequestIdOf
    <3>. QED
      BY <1>4, <2>2, <3>1, <3>2 DEF VolumeInv
  <2>. QED
    BY <1>1, <2>1, <2>2, <2>3, <2>4, AnswerKeeps DEF IInv
<1>. QED
  BY <1>3, <1>4

LEMMA RefuseIInv == ASSUME IInv, NEW c \in Commands, Refuse(c) PROVE IInv'
<1>1. /\ c \in arrived /\ arrived' = arrived \ {c} /\ volume' = volume
      /\ UNCHANGED commandVars /\ UNCHANGED <<args, pc, outcome, message>>
  BY DEF Refuse, commandVars
<1>2. PICK a \in {"none", "mismatch", "other"} : answer' = [answer EXCEPT ![c] = a]
  BY DEF Refuse
<1>3. TypeOK'
  BY <1>1, <1>2, AnswerKeeps DEF IInv, TypeOK
<1>4. VolumeInv'
  BY <1>1, <1>2 DEF IInv, TypeOK, VolumeInv, RequestIdOf
<1>. QED
  BY <1>1, <1>2, <1>3, <1>4, AnswerKeeps DEF IInv

-----------------------------------------------------------------------------
(* The theorems                                                            *)

LEMMA NextIInv == IInv /\ [Next]_vars => IInv'
<1>. SUFFICES ASSUME IInv, [Next]_vars PROVE IInv'
  OBVIOUS
<1>1. CASE UNCHANGED vars
  BY <1>1 DEF vars, commandVars, IInv, TypeOK, CommandInv, Asked, VolumeInv,
              RequestIdOf
<1>2. CASE \E c \in Commands : CommandStep(c) \/ Serve(c) \/ Refuse(c)
  BY <1>2, CommandStepIInv, ServeIInv, RefuseIInv
<1>. QED
  BY <1>1, <1>2 DEF Next, Done

\* What was asked for, sent, answered and created belong together.
THEOREM CreateInvariant == Spec => []IInv
BY InitIInv, NextIInv, PTL DEF Spec

\* Sizes and block sizes stay in the signed integers of the request.
THEOREM CreateTypeCorrect == Spec => []TypeOK
<1>1. IInv => TypeOK
  BY DEF IInv
<1>. QED
  BY <1>1, CreateInvariant, PTL

\* A command that says it created the volume finds the volume it asked for, or
\* the one that a command it shares its --request-id with asked for.
THEOREM CreateCreatedIsAsAsked == Spec => []CreatedIsAsAsked
<1>1. ASSUME IInv PROVE CreatedIsAsAsked
  <2>. SUFFICES ASSUME NEW c \in Commands, outcome[c] = "created"
                PROVE  /\ volume # NoVolume
                       /\ \E d \in SameId(c) :
                            [size |-> volume.size, block |-> volume.block]
                              = Geometry(args[d].size, args[d].block)
    BY DEF CreatedIsAsAsked
  <2>1. volume # NoVolume /\ volume.by = RequestIdOf(c)
    BY <1>1 DEF IInv, CommandInv, VolumeInv
  <2>2. PICK d \in Commands :
          /\ volume.by = RequestIdOf(d)
          /\ [size |-> volume.size, block |-> volume.block]
               = Geometry(args[d].size, args[d].block)
    BY <1>1, <2>1 DEF IInv, VolumeInv
  <2>3. d \in SameId(c)
    BY <1>1, <2>1, <2>2, SharedRequestId DEF IInv, TypeOK, SameId
  <2>. QED
    BY <2>1, <2>2, <2>3
<1>. QED
  BY <1>1, CreateInvariant, PTL

\* Two commands that both say so were given the same request_id.
THEOREM CreateCreatedOnce == Spec => []CreatedOnce
<1>1. ASSUME IInv PROVE CreatedOnce
  <2>. SUFFICES ASSUME NEW c \in Commands, NEW d \in Commands, c # d,
                       outcome[c] = "created", outcome[d] = "created"
                PROVE  args[c].id = args[d].id /\ args[c].id # NoRequestId
    BY DEF CreatedOnce
  <2>1. volume.by = RequestIdOf(c) /\ volume.by = RequestIdOf(d)
    BY <1>1 DEF IInv, CommandInv, VolumeInv
  <2>. QED
    BY <1>1, <2>1, SharedRequestId DEF IInv, TypeOK
<1>. QED
  BY <1>1, CreateInvariant, PTL

\* A command that succeeds leaves a volume.
THEOREM CreateSuccessMeansExists == Spec => []SuccessMeansExists
<1>1. IInv => SuccessMeansExists
  BY DEF IInv, CommandInv, VolumeInv, SuccessMeansExists
<1>. QED
  BY <1>1, CreateInvariant, PTL

\* The volume is one that a command asked for.
THEOREM CreateVolumeWasAskedFor == Spec => []VolumeWasAskedFor
<1>1. IInv => VolumeWasAskedFor
  BY DEF IInv, VolumeInv, VolumeWasAskedFor
<1>. QED
  BY <1>1, CreateInvariant, PTL
=============================================================================
