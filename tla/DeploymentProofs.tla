--------------------------- MODULE DeploymentProofs ---------------------------
(***************************************************************************)
(* Evaluators and their coordinator together are a Coordinator; a frame    *)
(* has an owner; what an evaluator believes of its registration is true:   *)
(* for any workers, threads, connections and bounds.                       *)
(***************************************************************************)
EXTENDS Deployment, CoordinatorProofs

-----------------------------------------------------------------------------
(* What evaluators send.                                                   *)

\* The epoch the next process takes, when the operator asks for none.
NextStart == IF store = NoImage THEN 1 ELSE store.epoch + 1

\* An epoch that can have been heard of, up to the one of a process that is running.
Heard(e) == Overridden(e) \/ (e <= NextStart /\ (status # "down" => e <= epoch))

\* Evaluators, their calls and the frames carry no other.
HeardInv ==
    /\ status # "down" => Heard(epoch)
    /\ \A w \in Worker : Heard(evaluators[w].epoch)
    /\ \A t \in Caller :
          calls[t].pc \in {"decided", "sent"} =>
              calls[t].request \in AskType \/ Heard(calls[t].request.epoch)
    /\ \A c \in Connection :
          /\ requests[c] \in {NoFrame, Dropped} \cup AskType \/ Heard(requests[c].epoch)
          /\ responses[c] \in {NoFrame, Dropped} \/ Heard(responses[c].epoch)

\* A request that changes something, as Coordinator's Client sends it.
Plain(r) ==
    \E id \in Identity, p \in Path, bound \in 1..MaxEpoch :
        \/ r = RequestOf("revoke", id, p, "REVOKED", Runtime!NoExpectation, bound)
        \/ \E outcome \in Publishes :
              LET request == RequestOf("publish", id, p, outcome, Runtime!NoExpectation, bound)
              IN  r = request \/ r = AsReplay(request)

LEMMA PlainIs ==
    ASSUME NEW r, Plain(r)
    PROVE  r \in RequestType
<1>1. PICK id \in Identity, p \in Path, bound \in 1..MaxEpoch :
        \/ r = RequestOf("revoke", id, p, "REVOKED", Runtime!NoExpectation, bound)
        \/ \E outcome \in Publishes :
              \/ r = RequestOf("publish", id, p, outcome, Runtime!NoExpectation, bound)
              \/ r = AsReplay(RequestOf("publish", id, p, outcome, Runtime!NoExpectation, bound))
  BY DEF Plain
<1>2. bound \in 0..MaxEpoch
  BY ConstantFacts
<1>3. ASSUME NEW kind \in {"publish", "revoke"}, NEW outcome \in EvaluationOutcome
      PROVE  /\ RequestOf(kind, id, p, outcome, Runtime!NoExpectation, bound) \in RequestType
             /\ AsReplay(RequestOf(kind, id, p, outcome, Runtime!NoExpectation, bound))
                    \in RequestType
  <2>1. state_for_outcome(outcome) \in AuthorityState
    BY DEF state_for_outcome, AuthorityState
  <2>2. RequestOf(kind, id, p, outcome, Runtime!NoExpectation, bound) \in RequestType
    BY <1>2, <2>1 DEF RequestOf, RequestType, Identity
  <2>3. QED  BY <2>2 DEF AsReplay, RequestType, EvaluationOutcome
<1>4. Publishes \subseteq EvaluationOutcome /\ "REVOKED" \in EvaluationOutcome
  BY CoordinatorAssumption DEF EvaluationOutcome
<1>5. QED  BY <1>1, <1>3, <1>4

LEMMA PlainIsSent ==
    ASSUME NEW c \in Connection, NEW r, Plain(r), Heard(r.epoch), Receive(c, r)
    PROVE  Client(c)
<1>1. ASSUME NEW p \in Path PROVE Runtime!NoExpectation \in Expectations(p)
  BY DEF Expectations
<1>2. ASSUME NEW kind, NEW id, NEW p, NEW outcome, NEW bound
      PROVE  LET request == RequestOf(kind, id, p, outcome, Runtime!NoExpectation, bound)
             IN  request.epoch = bound /\ AsReplay(request).epoch = bound
  BY DEF RequestOf, AsReplay
<1>3. PICK id \in Identity, p \in Path, bound \in 1..MaxEpoch :
        \/ r = RequestOf("revoke", id, p, "REVOKED", Runtime!NoExpectation, bound)
        \/ \E outcome \in Publishes :
              LET request == RequestOf("publish", id, p, outcome, Runtime!NoExpectation, bound)
              IN  r = request \/ r = AsReplay(request)
  BY DEF Plain
<1>4. r.epoch = bound
  BY <1>2, <1>3
<1>5. bound \in KnownEpochs
  BY <1>4 DEF Heard, KnownEpochs, Receive, Receives
<1>6. QED  BY <1>1, <1>3, <1>5 DEF Client

\* A frame on its way to the coordinator, or the place of one.
FrameType == {NoFrame, Dropped} \cup AskType \cup RequestType

CallStands(t) ==
    /\ calls[t].pc = "decided" => Plain(calls[t].request)
    /\ calls[t].pc = "sent" => calls[t].request \in AskType \/ Plain(calls[t].request)
    /\ calls[t].pc \in {"decided", "sent"} => calls[t].request.worker = WorkerOf[t]
    /\ calls[t].pc \in {"sent", "stuck"} => Evaluator(t).holder = t

FrameStands(c) == requests[c] \in {NoFrame, Dropped} \cup AskType \/ Plain(requests[c])

EvaluatorTypes ==
    /\ evaluators \in [Worker -> EvaluatorType]
    /\ calls \in [Caller -> CallType]
    /\ requests \in [Connection -> FrameType]
    /\ responses \in [Connection -> {NoFrame, Dropped} \cup ResponseType]

SentInv ==
    /\ Base /\ EvaluatorTypes
    /\ \A t \in Caller : CallStands(t)
    /\ \A c \in Connection : FrameStands(c)
    /\ HeardInv

-----------------------------------------------------------------------------
(* Each step of the system is one of the coordinator's, or none of its.    *)

LEMMA FrameSent ==
    ASSUME SentInv, NEW c \in Connection, requests[c].kind \in {"publish", "revoke"},
           Arrived(c)
    PROVE  Plain(requests[c]) /\ Heard(requests[c].epoch)
<1>1. requests[c] \notin AskType
  BY DEF AskType
<1>2. QED  BY <1>1 DEF SentInv, FrameStands, Arrived, HeardInv

LEMMA RegistersIdentity ==
    ASSUME NEW c \in Connection, NEW x, NEW w, Register(c, x, w)
    PROVE  x \in Publisher /\ w \in Worker /\ w \in Boots(c)
<1>1. <<x, w>> \in Speaks[c] /\ Speaks[c] \subseteq Publisher \X Worker
  BY CoordinatorAssumption DEF Register, Identity
<1>2. QED  BY <1>1 DEF Boots

LEMMA CoordinatorActs ==
    ASSUME SentInv, NEW c \in Connection,
           \/ CoordinatorStep(c) \/ (Reap(c) /\ UNCHANGED evaluator) \/ Break(c) \/ Lose(c)
    PROVE  \/ Handle(c) \/ Client(c) \/ Reap(c)
           \/ UNCHANGED vars
<1>1. CASE ServeNow(c)
  <2>1. CASE Register(c, requests[c].publisher, requests[c].worker)
    <3>1. requests[c].publisher \in Publisher /\ requests[c].worker \in Worker
      BY <2>1, RegistersIdentity
    <3>2. QED  BY <2>1, <3>1 DEF Client
  <2>2. CASE UNCHANGED vars
    BY <2>2
  <2>3. QED  BY <1>1, <2>1, <2>2 DEF ServeNow
<1>2. CASE Serve(c)
  <2>1. Plain(requests[c]) /\ Heard(requests[c].epoch) /\ Receive(c, requests[c])
    BY <1>2, FrameSent DEF Serve
  <2>2. QED  BY <2>1, PlainIsSent
<1>3. CASE HandleStep(c)
  BY <1>3 DEF HandleStep
<1>4. CASE Break(c)
  BY <1>4 DEF Break, Client
<1>5. CASE Lose(c)
  BY <1>5 DEF Lose
<1>6. QED  BY <1>1, <1>2, <1>3, <1>4, <1>5 DEF CoordinatorStep

LEMMA CallerActs ==
    ASSUME NEW t \in Caller, Call(t) \/ Continue(t)
    PROVE  \/ \E c \in Connection : Accept(c) \/ Disconnect(c)
           \/ UNCHANGED vars
<1>1. CASE \E c \in Connection : Connect(t, c)
  BY <1>1 DEF Connect
<1>2. CASE HangUp(t)
  BY <1>2 DEF HangUp
<1>3. CASE \/ ConnectInVain(t) \/ Evaluate(t) \/ RegisterWorker(t) \/ RevokePath(t) \/ Query(t)
           \/ Continue(t)
  BY <1>3 DEF ConnectInVain, Evaluate, RegisterWorker, RevokePath, Query, Send, Continue,
              Publish, GiveUp, Answered, Fail
<1>4. QED  BY <1>1, <1>2, <1>3 DEF Call

LEMMA StepRefines ==
    ASSUME SentInv, [SystemNext]_system
    PROVE  [Next]_vars
<1>1. CASE UNCHANGED system
  BY <1>1 DEF system
<1>2. CASE \E t \in Caller : Call(t) \/ Continue(t)
  BY <1>2, CallerActs DEF Next, Client
<1>3. CASE \E c \in Connection :
              \/ CoordinatorStep(c)
              \/ Reap(c) /\ UNCHANGED evaluator
              \/ Break(c) \/ Lose(c)
  BY <1>3, CoordinatorActs DEF Next
<1>4. CASE Start \/ CoordinatorCrash \/ CoordinatorStop
  BY <1>4 DEF Next, CoordinatorCrash, CoordinatorStop
<1>5. QED  BY <1>1, <1>2, <1>3, <1>4 DEF SystemNext

-----------------------------------------------------------------------------
(* What a step does to an evaluator.                                       *)

LEMMA DeploymentFacts ==
    /\ \A t \in Caller : WorkerOf[t] \in Worker /\ Own(t) \in Identity
    /\ NoCaller \notin Caller /\ MaxConnects \in Nat
    /\ Broken \notin Connection /\ Broken # NoConnection /\ NoConnection \notin Connection
BY DeploymentAssumption, CoordinatorAssumption DEF Own, Identity

\* Fields an evaluator can be given.
EvaluatorFieldsOK(fields) ==
    /\ "link" \in DOMAIN fields => fields["link"] \in Connection \cup {NoConnection, Broken}
    /\ "registered" \in DOMAIN fields => fields["registered"] \in BOOLEAN
    /\ "epoch" \in DOMAIN fields => fields["epoch"] \in 1..MaxEpoch
    /\ "holder" \in DOMAIN fields => fields["holder"] \in Caller \cup {NoCaller}
    /\ "decided" \in DOMAIN fields =>
          fields["decided"] \in [Path -> {NoDigest} \cup (AuthorityState \X (1..MaxEpoch))]
    /\ "connects" \in DOMAIN fields => fields["connects"] \in 0..MaxConnects

\* Of the evaluator thread t calls, a step leaves this, and of others all.
Leaves(t, link, registered, bound, holder) ==
    /\ evaluators' \in [Worker -> EvaluatorType]
    /\ \A v \in Worker : v # WorkerOf[t] => evaluators'[v] = evaluators[v]
    /\ Evaluator(t)'.link = link /\ Evaluator(t)'.registered = registered
    /\ Evaluator(t)'.epoch = bound /\ Evaluator(t)'.holder = holder

LEMMA SetEvaluatorIs ==
    ASSUME EvaluatorTypes, NEW t \in Caller, NEW fields, SetEvaluator(t, fields),
           EvaluatorFieldsOK(fields)
    PROVE  Leaves(t, IF "link" \in DOMAIN fields THEN fields["link"] ELSE Link(t),
                  IF "registered" \in DOMAIN fields THEN fields["registered"]
                  ELSE Evaluator(t).registered,
                  IF "epoch" \in DOMAIN fields THEN fields["epoch"] ELSE Evaluator(t).epoch,
                  IF "holder" \in DOMAIN fields THEN fields["holder"] ELSE Evaluator(t).holder)
<1> DEFINE w == WorkerOf[t]
           F(f) == IF f \in DOMAIN fields THEN fields[f] ELSE evaluators[w][f]
<1>1. w \in Worker /\ evaluators \in [Worker -> EvaluatorType]
  BY DeploymentFacts DEF EvaluatorTypes
<1>2. DOMAIN Disconnected = {"link", "registered", "epoch", "holder", "decided", "connects"}
  BY DEF Disconnected
<1>3. evaluators' = [evaluators EXCEPT ![w] = [f \in DOMAIN Disconnected |-> F(f)]]
  BY <1>1 DEF SetEvaluator
<1>4. evaluators[w] \in EvaluatorType
  BY <1>1
<1>5. F("link") \in Connection \cup {NoConnection, Broken}
  BY <1>4 DEF EvaluatorFieldsOK, EvaluatorType
<1>6. F("registered") \in BOOLEAN
  BY <1>4 DEF EvaluatorFieldsOK, EvaluatorType
<1>7. F("epoch") \in 1..MaxEpoch
  BY <1>4 DEF EvaluatorFieldsOK, EvaluatorType
<1>8. F("holder") \in Caller \cup {NoCaller}
  BY <1>4 DEF EvaluatorFieldsOK, EvaluatorType
<1>9. F("decided") \in [Path -> {NoDigest} \cup (AuthorityState \X (1..MaxEpoch))]
  BY <1>4 DEF EvaluatorFieldsOK, EvaluatorType
<1>10. F("connects") \in 0..MaxConnects
  BY <1>4 DEF EvaluatorFieldsOK, EvaluatorType
<1>11. /\ F("link") = IF "link" \in DOMAIN fields THEN fields["link"] ELSE Link(t)
       /\ F("registered") = IF "registered" \in DOMAIN fields THEN fields["registered"]
                            ELSE Evaluator(t).registered
       /\ F("epoch") = IF "epoch" \in DOMAIN fields THEN fields["epoch"] ELSE Evaluator(t).epoch
       /\ F("holder") = IF "holder" \in DOMAIN fields THEN fields["holder"]
                        ELSE Evaluator(t).holder
  BY DEF Link, Evaluator
<1> HIDE DEF F
<1>12. evaluators'[w] = [link |-> F("link"), registered |-> F("registered"),
                         epoch |-> F("epoch"), holder |-> F("holder"),
                         decided |-> F("decided"), connects |-> F("connects")]
  BY <1>1, <1>2, <1>3
<1>13. evaluators'[w] \in EvaluatorType
  BY <1>5, <1>6, <1>7, <1>8, <1>9, <1>10, <1>12 DEF EvaluatorType
<1>14. evaluators' \in [Worker -> EvaluatorType]
  BY <1>1, <1>3, <1>12, <1>13
<1>15. QED  BY <1>1, <1>3, <1>11, <1>12, <1>14 DEF Leaves, Evaluator

LEMMA EvaluatorIs ==
    ASSUME EvaluatorTypes, NEW t \in Caller
    PROVE  /\ Evaluator(t) \in EvaluatorType
           /\ Link(t) \in Connection \cup {NoConnection, Broken}
           /\ calls[t] \in CallType
BY DeploymentFacts DEF EvaluatorTypes, Evaluator, Link, EvaluatorType

\* The evaluators whose socket is closed know nothing of it but that it is broken.
LEMMA CutIs ==
    ASSUME EvaluatorTypes, NEW closed \in SUBSET Connection, Cut(closed)
    PROVE  /\ evaluators' \in [Worker -> EvaluatorType]
           /\ \A w \in Worker :
                 /\ evaluators'[w].link = IF evaluators[w].link \in closed THEN Broken
                                          ELSE evaluators[w].link
                 /\ evaluators'[w].registered = evaluators[w].registered
                 /\ evaluators'[w].epoch = evaluators[w].epoch
                 /\ evaluators'[w].holder = evaluators[w].holder
<1> DEFINE link(w) == IF evaluators[w].link \in closed THEN Broken ELSE evaluators[w].link
<1>1. ASSUME NEW w \in Worker
      PROVE  /\ evaluators[w] \in EvaluatorType
             /\ evaluators'[w] = [evaluators[w] EXCEPT !.link = link(w)]
  BY DEF EvaluatorTypes, Cut
<1>2. ASSUME NEW w \in Worker PROVE link(w) \in Connection \cup {NoConnection, Broken}
  BY <1>1 DEF EvaluatorType
<1> HIDE DEF link
<1>3. ASSUME NEW w \in Worker
      PROVE  /\ evaluators'[w] \in EvaluatorType
             /\ evaluators'[w].link = link(w)
             /\ evaluators'[w].registered = evaluators[w].registered
             /\ evaluators'[w].epoch = evaluators[w].epoch
             /\ evaluators'[w].holder = evaluators[w].holder
  BY <1>1, <1>2, ZenonT(60) DEF EvaluatorType
<1>4. evaluators' = [w \in Worker |-> evaluators'[w]]
  BY DEF Cut
<1>5. evaluators' \in [Worker -> EvaluatorType]
  BY <1>3, <1>4
<1>6. QED  BY <1>3, <1>5 DEF link

LEMMA ConnectLeaves ==
    ASSUME EvaluatorTypes, NEW t \in Caller
    PROVE  /\ \A c \in Connection :
                 Connect(t, c) =>
                    Leaves(t, c, Evaluator(t).registered, Evaluator(t).epoch, Evaluator(t).holder)
           /\ ConnectInVain(t) =>
                 Leaves(t, Broken, Evaluator(t).registered, Evaluator(t).epoch,
                        Evaluator(t).holder)
           /\ HangUp(t) =>
                 Leaves(t, NoConnection, FALSE, Evaluator(t).epoch, Evaluator(t).holder)
<1>1. CanConnect(t) => Evaluator(t).connects + 1 \in 0..MaxConnects
  <2>1. Evaluator(t).connects \in 0..MaxConnects
    BY EvaluatorIs DEF EvaluatorType
  <2>2. QED  BY <2>1, DeploymentFacts DEF CanConnect
<1>2. ASSUME NEW c \in Connection \cup {Broken}, CanConnect(t),
             SetEvaluator(t, [link |-> c, connects |-> Evaluator(t).connects + 1])
      PROVE  Leaves(t, c, Evaluator(t).registered, Evaluator(t).epoch, Evaluator(t).holder)
  <2> DEFINE fields == [link |-> c, connects |-> Evaluator(t).connects + 1]
  <2>1. EvaluatorFieldsOK(fields)
    BY <1>1, <1>2 DEF EvaluatorFieldsOK
  <2>2. /\ DOMAIN fields = {"link", "connects"} /\ fields["link"] = c
    OBVIOUS
  <2>3. SetEvaluator(t, fields)
    BY <1>2
  <2> HIDE DEF fields
  <2>4. QED  BY <2>1, <2>2, <2>3, SetEvaluatorIs
<1>3. ASSUME HangUp(t)
      PROVE  Leaves(t, NoConnection, FALSE, Evaluator(t).epoch, Evaluator(t).holder)
  <2> DEFINE fields == [link |-> NoConnection, registered |-> FALSE]
  <2>1. EvaluatorFieldsOK(fields)
    BY DEF EvaluatorFieldsOK
  <2>2. /\ DOMAIN fields = {"link", "registered"} /\ fields["link"] = NoConnection
        /\ fields["registered"] = FALSE
    OBVIOUS
  <2>3. SetEvaluator(t, fields)
    BY <1>3 DEF HangUp
  <2> HIDE DEF fields
  <2>4. QED  BY <2>1, <2>2, <2>3, SetEvaluatorIs
<1>4. QED  BY <1>2, <1>3 DEF Connect, ConnectInVain

LEMMA HolderLeaves ==
    ASSUME EvaluatorTypes, NEW t \in Caller, NEW u \in Caller \cup {NoCaller},
           SetEvaluator(t, [holder |-> u])
    PROVE  Leaves(t, Link(t), Evaluator(t).registered, Evaluator(t).epoch, u)
<1> DEFINE fields == [holder |-> u]
<1>1. EvaluatorFieldsOK(fields)
  BY DEF EvaluatorFieldsOK
<1>2. DOMAIN fields = {"holder"} /\ fields["holder"] = u
  OBVIOUS
<1>3. SetEvaluator(t, fields)
  OBVIOUS
<1> HIDE DEF fields
<1>4. QED  BY <1>1, <1>2, <1>3, SetEvaluatorIs

\* What evaluate() decides, or replays, is what publish() sends.
LEMMA EvaluateLeaves ==
    ASSUME EvaluatorTypes, NEW t \in Caller, Evaluate(t)
    PROVE  /\ Leaves(t, Link(t), Evaluator(t).registered, Evaluator(t).epoch,
                     Evaluator(t).holder)
           /\ \E r : /\ Plain(r) /\ r.worker = WorkerOf[t] /\ r.epoch = Evaluator(t).epoch
                     /\ calls' = [calls EXCEPT ![t] = [pc |-> "decided", request |-> r]]
<1> DEFINE decision(outcome) == <<state_for_outcome(outcome), Evaluator(t).epoch>>
           request(p, outcome) == RequestOf("publish", Own(t), p, outcome,
                                            Runtime!NoExpectation, Evaluator(t).epoch)
<1>1. PICK p \in Path, outcome \in Publishes :
        /\ calls' = [calls EXCEPT ![t] =
              [pc |-> "decided",
               request |-> IF Evaluator(t).decided[p] = decision(outcome)
                           THEN AsReplay(request(p, outcome)) ELSE request(p, outcome)]]
        /\ SetEvaluator(t, [decided |-> [Evaluator(t).decided EXCEPT ![p] = decision(outcome)]])
  BY DEF Evaluate
<1>2. Evaluator(t) \in EvaluatorType /\ Own(t) \in Identity
  BY EvaluatorIs, DeploymentFacts
<1>3. Leaves(t, Link(t), Evaluator(t).registered, Evaluator(t).epoch, Evaluator(t).holder)
  <2> DEFINE fields == [decided |-> [Evaluator(t).decided EXCEPT ![p] = decision(outcome)]]
  <2>1. decision(outcome) \in AuthorityState \X (1..MaxEpoch)
    BY <1>2 DEF EvaluatorType, state_for_outcome, AuthorityState
  <2> HIDE DEF decision
  <2>2. fields["decided"] \in [Path -> {NoDigest} \cup (AuthorityState \X (1..MaxEpoch))]
    BY <1>2, <2>1 DEF EvaluatorType
  <2>3. DOMAIN fields = {"decided"}
    OBVIOUS
  <2>4. SetEvaluator(t, fields)
    BY <1>1
  <2> HIDE DEF fields
  <2>5. EvaluatorFieldsOK(fields)
    BY <2>2, <2>3 DEF EvaluatorFieldsOK
  <2>6. QED  BY <2>3, <2>4, <2>5, SetEvaluatorIs
<1>4. Evaluator(t).epoch \in 1..MaxEpoch
  BY <1>2 DEF EvaluatorType
<1>5. Plain(request(p, outcome)) /\ Plain(AsReplay(request(p, outcome)))
  BY <1>2, <1>4 DEF Plain
<1>6. /\ request(p, outcome).worker = WorkerOf[t]
      /\ AsReplay(request(p, outcome)).worker = WorkerOf[t]
      /\ request(p, outcome).epoch = Evaluator(t).epoch
      /\ AsReplay(request(p, outcome)).epoch = Evaluator(t).epoch
  BY DEF RequestOf, AsReplay, Own
<1> HIDE DEF request, decision
<1>7. QED  BY <1>1, <1>3, <1>5, <1>6

LEMMA SendLeaves ==
    ASSUME EvaluatorTypes, NEW t \in Caller, NEW r, Send(t, r)
    PROVE  /\ Leaves(t, Link(t), Evaluator(t).registered, Evaluator(t).epoch, t)
           /\ Unlocked(t) /\ Link(t) # NoConnection
           /\ calls' = [calls EXCEPT ![t] = [pc |-> "sent", request |-> r]]
           /\ requests' = IF Link(t) = Broken THEN requests
                          ELSE [requests EXCEPT ![Link(t)] = r]
           /\ UNCHANGED <<vars, responses>>
BY HolderLeaves DEF Send, Unable

\* What a thread sends, and that it is a call of its own worker.
LEMMA SendsOwn ==
    ASSUME EvaluatorTypes, NEW t \in Caller, CallStands(t),
           Publish(t) \/ RegisterWorker(t) \/ Query(t) \/ RevokePath(t)
    PROVE  \E r : /\ Send(t, r) /\ (r \in AskType \/ Plain(r)) /\ r.worker = WorkerOf[t]
                  /\ \/ r \in AskType \/ r.epoch = Evaluator(t).epoch
                     \/ r = calls[t].request /\ calls[t].pc = "decided"
<1>1. /\ Own(t) \in Identity /\ Own(t)[2] = WorkerOf[t]
      /\ Own(t)[1] \in Publisher /\ Own(t)[2] \in Worker
      /\ Evaluator(t).epoch \in 1..MaxEpoch
  BY DeploymentFacts, EvaluatorIs DEF EvaluatorType, Own, Identity
<1>2. CASE Publish(t)
  BY <1>2 DEF Publish, CallStands
<1>3. CASE RegisterWorker(t) \/ Query(t)
  BY <1>1, <1>3 DEF RegisterWorker, Query, Asking, AskType
<1>4. CASE RevokePath(t)
  <2>1. PICK p \in Path :
            Send(t, RequestOf("revoke", Own(t), p, "REVOKED", Runtime!NoExpectation,
                              Evaluator(t).epoch))
    BY <1>4 DEF RevokePath
  <2>2. Plain(RequestOf("revoke", Own(t), p, "REVOKED", Runtime!NoExpectation,
                        Evaluator(t).epoch))
    BY <1>1 DEF Plain
  <2>3. QED  BY <1>1, <2>1, <2>2 DEF RequestOf
<1>5. QED  BY <1>2, <1>3, <1>4

\* exchange() with its answer; without one, when the lock is released after all.
LEMMA AnsweredLeaves ==
    ASSUME EvaluatorTypes, NEW t \in Caller, Answered(t)
    PROVE  /\ Link(t) \in Connection /\ calls[t].pc = "sent"
           /\ responses[Link(t)] \in ResponseType
           /\ IF calls[t].request.kind = "register"
              THEN Leaves(t, Link(t), responses[Link(t)].accepted,
                          IF responses[Link(t)].accepted THEN responses[Link(t)].epoch
                          ELSE Evaluator(t).epoch,
                          NoCaller)
              ELSE Leaves(t, Link(t), Evaluator(t).registered, Evaluator(t).epoch, NoCaller)
           /\ responses' = [responses EXCEPT ![Link(t)] = NoFrame]
           /\ calls' = [calls EXCEPT ![t] = NoCall]
           /\ UNCHANGED <<vars, requests>>
<1> DEFINE response == responses[Link(t)]
           bound == IF response.accepted THEN response.epoch ELSE Evaluator(t).epoch
           fields == [holder |-> NoCaller, registered |-> response.accepted, epoch |-> bound]
<1>1. Link(t) \in Connection /\ response \in ResponseType
  BY DEF Answered, EvaluatorTypes
<1>2. CASE calls[t].request.kind = "register"
  <2>1. SetEvaluator(t, fields)
    BY <1>2 DEF Answered
  <2>2. bound \in 1..MaxEpoch /\ response.accepted \in BOOLEAN
    BY <1>1, EvaluatorIs DEF EvaluatorType, ResponseType
  <2>3. /\ DOMAIN fields = {"holder", "registered", "epoch"} /\ fields["holder"] = NoCaller
        /\ fields["registered"] = response.accepted /\ fields["epoch"] = bound
    OBVIOUS
  <2> HIDE DEF fields
  <2>4. EvaluatorFieldsOK(fields)
    BY <2>2, <2>3 DEF EvaluatorFieldsOK
  <2>5. Leaves(t, Link(t), response.accepted, bound, NoCaller)
    <3> HIDE DEF response, bound
    <3>1. QED  BY <2>1, <2>3, <2>4, SetEvaluatorIs
  <2>6. QED  BY <1>1, <1>2, <2>5 DEF Answered, Return
<1>3. CASE calls[t].request.kind # "register"
  <2>1. SetEvaluator(t, [holder |-> NoCaller])
    BY <1>3 DEF Answered
  <2>2. QED  BY <1>1, <1>3, <2>1, HolderLeaves DEF Answered, Return
<1>4. QED  BY <1>2, <1>3

LEMMA FailLeaves ==
    ASSUME EvaluatorTypes, NEW t \in Caller, Fail(t)
    PROVE  /\ calls[t].pc = "sent" /\ Link(t) = Broken
           /\ \/ calls' = [calls EXCEPT ![t].pc = "stuck"] /\ UNCHANGED evaluators
              \/ /\ calls' = [calls EXCEPT ![t] = NoCall]
                 /\ Leaves(t, Link(t), Evaluator(t).registered, Evaluator(t).epoch, NoCaller)
           /\ UNCHANGED <<vars, requests, responses>>
BY HolderLeaves DEF Fail, Return

-----------------------------------------------------------------------------
(* The types of the whole.                                                 *)

LEMMA LeavesTypes ==
    ASSUME NEW t \in Caller, NEW link, NEW registered, NEW bound, NEW holder,
           Leaves(t, link, registered, bound, holder)
    PROVE  evaluators' \in [Worker -> EvaluatorType]
BY DEF Leaves

LEMMA SentTypes ==
    ASSUME NEW r, r \in AskType \/ Plain(r)
    PROVE  r \in AskType \cup RequestType
BY PlainIs

LEMMA CallerTypes ==
    ASSUME SentInv, NEW t \in Caller, Call(t) \/ Continue(t)
    PROVE  EvaluatorTypes'
<1>1. /\ EvaluatorTypes /\ CallStands(t)
      /\ calls \in [Caller -> CallType] /\ requests \in [Connection -> FrameType]
      /\ responses \in [Connection -> {NoFrame, Dropped} \cup ResponseType]
  BY DEF SentInv, EvaluatorTypes
<1>2. NoCall \in CallType
  BY DEF NoCall, CallType
<1>3. CASE (\E c \in Connection : Connect(t, c)) \/ ConnectInVain(t) \/ HangUp(t)
  <2>1. UNCHANGED <<calls, requests, responses>>
    BY <1>3 DEF Connect, ConnectInVain, HangUp
  <2>2. evaluators' \in [Worker -> EvaluatorType]
    BY <1>1, <1>3, ConnectLeaves DEF Leaves
  <2>3. QED  BY <1>1, <2>1, <2>2 DEF EvaluatorTypes
<1>4. CASE Evaluate(t)
  <2>1. PICK r : Plain(r) /\ calls' = [calls EXCEPT ![t] = [pc |-> "decided", request |-> r]]
    BY <1>1, <1>4, EvaluateLeaves
  <2>2. [pc |-> "decided", request |-> r] \in CallType
    BY <2>1, PlainIs DEF CallType
  <2>3. evaluators' \in [Worker -> EvaluatorType]
    BY <1>1, <1>4, EvaluateLeaves DEF Leaves
  <2>4. calls' \in [Caller -> CallType]
    BY <1>1, <2>1, <2>2
  <2>5. QED  BY <1>1, <1>4, <2>3, <2>4 DEF EvaluatorTypes, Evaluate
<1>5. CASE Publish(t) \/ RegisterWorker(t) \/ Query(t) \/ RevokePath(t)
  <2>1. PICK r : Send(t, r) /\ (r \in AskType \/ Plain(r))
    BY <1>1, <1>5, SendsOwn
  <2>2. r \in AskType \cup RequestType
    BY <2>1, PlainIs
  <2>3. [pc |-> "sent", request |-> r] \in CallType /\ r \in FrameType
    BY <2>2 DEF CallType, FrameType
  <2>4. evaluators' \in [Worker -> EvaluatorType]
    BY <1>1, <2>1, SendLeaves DEF Leaves
  <2>5. /\ calls' \in [Caller -> CallType] /\ requests' \in [Connection -> FrameType]
        /\ responses' = responses
    BY <1>1, <2>1, <2>3, SendLeaves
  <2>6. QED  BY <1>1, <2>4, <2>5 DEF EvaluatorTypes
<1>6. CASE GiveUp(t)
  BY <1>1, <1>2, <1>6 DEF GiveUp, Return, EvaluatorTypes
<1>7. CASE Answered(t)
  <2>1. evaluators' \in [Worker -> EvaluatorType]
    BY <1>1, <1>7, AnsweredLeaves DEF Leaves
  <2>2. /\ calls' \in [Caller -> CallType] /\ requests' = requests
        /\ responses' \in [Connection -> {NoFrame, Dropped} \cup ResponseType]
    BY <1>1, <1>2, <1>7, AnsweredLeaves
  <2>3. QED  BY <1>1, <2>1, <2>2 DEF EvaluatorTypes
<1>8. CASE Fail(t)
  <2>1. evaluators' \in [Worker -> EvaluatorType]
    BY <1>1, <1>8, FailLeaves DEF Leaves, EvaluatorTypes
  <2>2. [calls[t] EXCEPT !.pc = "stuck"] \in CallType
    BY <1>1 DEF CallType
  <2>3. calls' \in [Caller -> CallType] /\ UNCHANGED <<requests, responses>>
    BY <1>1, <1>2, <1>8, <2>2, FailLeaves
  <2>4. QED  BY <1>1, <2>1, <2>3 DEF EvaluatorTypes
<1>9. QED  BY <1>3, <1>4, <1>5, <1>6, <1>7, <1>8 DEF Call, Continue

LEMMA RespondTypes ==
    ASSUME SentInv, status # "down", NEW c \in Connection, NEW accepted \in BOOLEAN,
           Respond(c, accepted)
    PROVE  /\ responses' \in [Connection -> {NoFrame, Dropped} \cup ResponseType]
           /\ responses' = [responses EXCEPT ![c] = [accepted |-> accepted, epoch |-> epoch]]
<1>1. [accepted |-> accepted, epoch |-> epoch] \in ResponseType
  BY DEF SentInv, Base, DownIsEmpty, ResponseType
<1>2. QED  BY <1>1 DEF SentInv, EvaluatorTypes, Respond

LEMMA HandlesUp ==
    ASSUME NEW c \in Connection, Handle(c)
    PROVE  status # "down"
BY DEF Handle, Refuse, AcceptPublication, AcceptRevocation, Commit, ReplayCommit, RejectCommit,
       Revoke, RejectRevoke, Fence, Leave, Withdraw, Export, Gather, Write, At

\* What the coordinator's steps do to the frames of a connection.
LEMMA HandleStepIs ==
    ASSUME SentInv, NEW c \in Connection, HandleStep(c)
    PROVE  /\ Handle(c) /\ calls' = calls
           /\ \/ /\ \E accepted \in BOOLEAN :
                       responses' = [responses EXCEPT ![c] =
                                        [accepted |-> accepted, epoch |-> epoch]]
                 /\ connections'[c].pc = "receive"
                 /\ \/ connections[c].pc \in {"registered", "commit"}
                    \/ connections[c].answer # NoAnswer
              \/ /\ connections'[c].socket = "finished"
                 /\ responses' = [responses EXCEPT ![c] = NoFrame]
              \/ UNCHANGED responses /\ connections'[c].socket # "finished"
           /\ IF connections'[c].socket = "finished"
              THEN Cut({c}) /\ requests' = [requests EXCEPT ![c] = NoFrame]
              ELSE UNCHANGED <<evaluators, requests>>
           /\ responses' \in [Connection -> {NoFrame, Dropped} \cup ResponseType]
<1>1. Handle(c) /\ calls' = calls /\ status # "down"
  BY HandlesUp DEF HandleStep
<1>2. responses \in [Connection -> {NoFrame, Dropped} \cup ResponseType]
  BY DEF SentInv, EvaluatorTypes
<1>3. CASE connections'[c].pc = "receive" /\ connections[c].pc \in {"registered", "commit"}
  <2>1. Respond(c, FALSE)
    BY <1>3 DEF HandleStep
  <2>2. QED  BY <1>1, <1>3, <2>1, RespondTypes DEF HandleStep, Take
<1>4. CASE /\ ~(connections'[c].pc = "receive"
                /\ connections[c].pc \in {"registered", "commit"})
           /\ connections'[c].pc = "receive" /\ connections[c].answer # NoAnswer
  <2>1. Respond(c, TRUE)
    BY <1>4 DEF HandleStep
  <2>2. QED  BY <1>1, <1>4, <2>1, RespondTypes DEF HandleStep, Take
<1>5. CASE /\ ~(connections'[c].pc = "receive"
                /\ connections[c].pc \in {"registered", "commit"})
           /\ ~(connections'[c].pc = "receive" /\ connections[c].answer # NoAnswer)
  BY <1>1, <1>2, <1>5 DEF HandleStep, Take
<1>6. QED  BY <1>3, <1>4, <1>5

LEMMA ServeNowIs ==
    ASSUME SentInv, NEW c \in Connection, ServeNow(c)
    PROVE  /\ Receives(c) /\ Arrived(c)
           /\ \E accepted \in BOOLEAN :
                 /\ responses' = [responses EXCEPT ![c] =
                                     [accepted |-> accepted, epoch |-> epoch]]
                 /\ requests[c].kind = "register" /\ accepted =>
                       Register(c, requests[c].publisher, requests[c].worker)
           /\ Register(c, requests[c].publisher, requests[c].worker) \/ UNCHANGED vars
           /\ requests' = [requests EXCEPT ![c] = NoFrame]
           /\ UNCHANGED <<evaluators, calls>>
           /\ responses' \in [Connection -> {NoFrame, Dropped} \cup ResponseType]
<1>1. Receives(c) /\ Arrived(c) /\ status # "down"
  BY DEF ServeNow, Receives
<1>2. CASE requests[c].kind = "register" /\ Register(c, requests[c].publisher, requests[c].worker) /\ Respond(c, TRUE)
  BY <1>1, <1>2, RespondTypes DEF ServeNow, Take
<1>3. CASE requests[c].kind = "query" /\ Respond(c, TRUE) /\ UNCHANGED vars
  BY <1>1, <1>3, RespondTypes DEF ServeNow, Take
<1>4. CASE Respond(c, FALSE) /\ UNCHANGED vars
  <2>1. /\ responses' = [responses EXCEPT ![c] = [accepted |-> FALSE, epoch |-> epoch]]
        /\ responses' \in [Connection -> {NoFrame, Dropped} \cup ResponseType]
    BY <1>1, <1>4, RespondTypes
  <2>2. QED  BY <1>1, <1>4, <2>1 DEF ServeNow, Take
<1>5. QED  BY <1>2, <1>3, <1>4 DEF ServeNow

LEMMA ServeIs ==
    ASSUME SentInv, NEW c \in Connection, Serve(c)
    PROVE  /\ Plain(requests[c]) /\ Receive(c, requests[c]) /\ Arrived(c)
           /\ requests' = [requests EXCEPT ![c] = NoFrame]
           /\ UNCHANGED <<evaluators, calls, responses>>
BY FrameSent DEF Serve, Take

LEMMA CoordinatorTypes ==
    ASSUME SentInv, NEW c \in Connection, CoordinatorStep(c) \/ Break(c) \/ Lose(c)
    PROVE  /\ EvaluatorTypes' /\ calls' = calls
           /\ \A d \in Connection : requests'[d] \in {requests[d], NoFrame, Dropped}
           /\ \A w \in Worker : evaluators'[w].holder = evaluators[w].holder
<1>1. /\ EvaluatorTypes /\ evaluators \in [Worker -> EvaluatorType]
      /\ calls \in [Caller -> CallType] /\ requests \in [Connection -> FrameType]
      /\ responses \in [Connection -> {NoFrame, Dropped} \cup ResponseType]
  BY DEF SentInv, EvaluatorTypes
<1>2. {NoFrame, Dropped} \subseteq FrameType
  BY DEF FrameType
<1>3. CASE ServeNow(c)
  BY <1>1, <1>2, <1>3, ServeNowIs DEF EvaluatorTypes
<1>4. CASE Serve(c)
  BY <1>1, <1>2, <1>4, ServeIs DEF EvaluatorTypes
<1>5. CASE HandleStep(c)
  <2>1. /\ calls' = calls /\ responses' \in [Connection -> {NoFrame, Dropped} \cup ResponseType]
        /\ \/ Cut({c}) /\ requests' = [requests EXCEPT ![c] = NoFrame]
           \/ UNCHANGED <<evaluators, requests>>
    BY <1>5, HandleStepIs
  <2>2. /\ evaluators' \in [Worker -> EvaluatorType]
        /\ \A w \in Worker : evaluators'[w].holder = evaluators[w].holder
    BY <1>1, <2>1, CutIs
  <2>3. QED  BY <1>1, <1>2, <2>1, <2>2 DEF EvaluatorTypes
<1>6. CASE Break(c)
  <2>1. /\ evaluators' \in [Worker -> EvaluatorType]
        /\ \A w \in Worker : evaluators'[w].holder = evaluators[w].holder
    BY <1>1, <1>6, CutIs DEF Break
  <2>2. QED  BY <1>1, <1>2, <1>6, <2>1 DEF Break, EvaluatorTypes
<1>7. CASE Lose(c)
  BY <1>1, <1>2, <1>7 DEF Lose, EvaluatorTypes
<1>8. QED  BY <1>3, <1>4, <1>5, <1>6, <1>7 DEF CoordinatorStep

LEMMA EveryBreakTypes ==
    ASSUME SentInv, EveryBreak
    PROVE  /\ EvaluatorTypes' /\ calls' = calls
           /\ \A d \in Connection : requests'[d] = NoFrame
           /\ \A w \in Worker : evaluators'[w].holder = evaluators[w].holder
<1>1. EvaluatorTypes
  BY DEF SentInv
<1>2. /\ evaluators' \in [Worker -> EvaluatorType]
      /\ \A w \in Worker : evaluators'[w].holder = evaluators[w].holder
  BY <1>1, CutIs DEF EveryBreak
<1>3. QED  BY <1>1, <1>2 DEF EveryBreak, EvaluatorTypes, FrameType

\* A thread's call, once begun, is its own until it returns.
LEMMA CallKept ==
    ASSUME NEW t \in Caller, CallStands(t), calls'[t] = calls[t],
           Evaluator(t)'.holder = Evaluator(t).holder
    PROVE  CallStands(t)'
BY DEF CallStands, Plain

LEMMA CallerCallsStand ==
    ASSUME SentInv, NEW t \in Caller, Call(t) \/ Continue(t), NEW u \in Caller
    PROVE  CallStands(u)'
<1>1. /\ EvaluatorTypes /\ CallStands(t) /\ CallStands(u)
      /\ calls \in [Caller -> CallType]
  BY DEF SentInv, EvaluatorTypes
<1>2. WorkerOf[t] \in Worker /\ WorkerOf[u] \in Worker /\ u # NoCaller
  BY DeploymentFacts
\* The mutex passes to another thread only when it is free, and from it when it is its own.
<1>3. ASSUME NEW link, NEW registered, NEW bound, NEW holder,
             Leaves(t, link, registered, bound, holder), u # t, calls'[u] = calls[u],
             holder = Evaluator(t).holder \/ Evaluator(t).holder \in {t, NoCaller}
      PROVE  CallStands(u)'
  <2>1. CASE WorkerOf[u] # WorkerOf[t]
    BY <1>1, <1>2, <1>3, <2>1, CallKept DEF Leaves, Evaluator
  <2>2. CASE WorkerOf[u] = WorkerOf[t]
    <3>1. Evaluator(u)' = Evaluator(t)' /\ Evaluator(u) = Evaluator(t)
      BY <2>2 DEF Evaluator
    <3>2. CASE holder = Evaluator(t).holder
      BY <1>1, <1>3, <3>1, <3>2, CallKept DEF Leaves
    <3>3. CASE Evaluator(t).holder \in {t, NoCaller}
      <4>1. calls[u].pc \notin {"sent", "stuck"}
        BY <1>1, <1>2, <1>3, <3>1, <3>3 DEF CallStands
      <4>2. QED  BY <1>1, <1>3, <4>1 DEF CallStands, Plain
    <3>4. QED  BY <1>3, <3>2, <3>3
  <2>3. QED  BY <2>1, <2>2
<1>4. CASE (\E c \in Connection : Connect(t, c)) \/ ConnectInVain(t) \/ HangUp(t)
  <2>1. /\ calls' = calls
        /\ \E link, registered : Leaves(t, link, registered, Evaluator(t).epoch,
                                        Evaluator(t).holder)
    BY <1>1, <1>4, ConnectLeaves DEF Connect, ConnectInVain, HangUp
  <2>2. CASE u = t
    BY <1>1, <2>1, <2>2, CallKept DEF Leaves
  <2>3. CASE u # t
    BY <1>3, <2>1, <2>3
  <2>4. QED  BY <2>2, <2>3
<1>5. CASE Evaluate(t)
  <2>1. PICK r : /\ Plain(r) /\ r.worker = WorkerOf[t]
                 /\ calls' = [calls EXCEPT ![t] = [pc |-> "decided", request |-> r]]
    BY <1>1, <1>5, EvaluateLeaves
  <2>2. CASE u = t
    <3>1. calls'[t].pc = "decided" /\ calls'[t].request = r
      BY <1>1, <2>1
    <3>2. QED  BY <2>1, <2>2, <3>1 DEF CallStands, Plain
  <2>3. CASE u # t
    BY <1>1, <1>3, <1>5, <2>1, <2>3, EvaluateLeaves
  <2>4. QED  BY <2>2, <2>3
<1>6. CASE Publish(t) \/ RegisterWorker(t) \/ Query(t) \/ RevokePath(t)
  <2>1. PICK r : Send(t, r) /\ (r \in AskType \/ Plain(r)) /\ r.worker = WorkerOf[t]
    BY <1>1, <1>6, SendsOwn
  <2>2. /\ Leaves(t, Link(t), Evaluator(t).registered, Evaluator(t).epoch, t) /\ Unlocked(t)
        /\ calls' = [calls EXCEPT ![t] = [pc |-> "sent", request |-> r]]
    BY <1>1, <2>1, SendLeaves
  <2>3. CASE u = t
    <3>1. calls'[t].pc = "sent" /\ calls'[t].request = r /\ Evaluator(t)'.holder = t
      BY <1>1, <2>2 DEF Leaves
    <3>2. r \in AskType \/ Plain(r)'
      BY <2>1 DEF Plain
    <3>3. QED  BY <2>1, <2>3, <3>1, <3>2 DEF CallStands
  <2>4. CASE u # t
    BY <1>1, <1>3, <2>2, <2>4 DEF Unlocked
  <2>5. QED  BY <2>3, <2>4
<1>7. CASE GiveUp(t)
  <2>1. evaluators' = evaluators /\ calls' = [calls EXCEPT ![t] = NoCall]
    BY <1>7 DEF GiveUp, Return
  <2>2. CASE u = t
    BY <1>1, <2>1, <2>2 DEF CallStands, NoCall
  <2>3. CASE u # t
    BY <1>1, <2>1, <2>3, CallKept DEF Evaluator
  <2>4. QED  BY <2>2, <2>3
<1>8. CASE Answered(t)
  <2>1. /\ calls[t].pc = "sent" /\ calls' = [calls EXCEPT ![t] = NoCall]
        /\ \E registered, bound : Leaves(t, Link(t), registered, bound, NoCaller)
    BY <1>1, <1>8, AnsweredLeaves
  <2>2. Evaluator(t).holder = t
    BY <1>1, <2>1 DEF CallStands
  <2>3. CASE u = t
    BY <1>1, <2>1, <2>3 DEF CallStands, NoCall
  <2>4. CASE u # t
    BY <1>1, <1>3, <2>1, <2>2, <2>4
  <2>5. QED  BY <2>3, <2>4
<1>9. CASE Fail(t)
  <2>1. calls[t].pc = "sent" /\ Evaluator(t).holder = t
    BY <1>1, <1>9, FailLeaves DEF CallStands
  <2>2. CASE calls' = [calls EXCEPT ![t].pc = "stuck"] /\ UNCHANGED evaluators
    <3>1. CASE u = t
      <4>1. calls'[t].pc = "stuck" /\ Evaluator(t)'.holder = t
        BY <1>1, <2>1, <2>2 DEF CallType, Evaluator
      <4>2. QED  BY <3>1, <4>1 DEF CallStands
    <3>2. CASE u # t
      BY <1>1, <2>2, <3>2, CallKept DEF Evaluator
    <3>3. QED  BY <3>1, <3>2
  <2>3. CASE /\ calls' = [calls EXCEPT ![t] = NoCall]
             /\ Leaves(t, Link(t), Evaluator(t).registered, Evaluator(t).epoch, NoCaller)
    <3>1. CASE u = t
      BY <1>1, <2>3, <3>1 DEF CallStands, NoCall
    <3>2. CASE u # t
      BY <1>1, <1>3, <2>1, <2>3, <3>2
    <3>3. QED  BY <3>1, <3>2
  <2>4. QED  BY <1>1, <1>9, <2>2, <2>3, FailLeaves
<1>10. QED  BY <1>4, <1>5, <1>6, <1>7, <1>8, <1>9 DEF Call, Continue

LEMMA FrameKept ==
    ASSUME NEW c \in Connection, FrameStands(c), requests'[c] \in {requests[c], NoFrame, Dropped}
    PROVE  FrameStands(c)'
BY DEF FrameStands, Plain, AskType

LEMMA CallerFramesStand ==
    ASSUME SentInv, NEW t \in Caller, Call(t) \/ Continue(t), NEW c \in Connection
    PROVE  FrameStands(c)'
<1>1. EvaluatorTypes /\ CallStands(t) /\ FrameStands(c) /\ requests \in [Connection -> FrameType]
  BY DEF SentInv, EvaluatorTypes
<1>2. CASE Publish(t) \/ RegisterWorker(t) \/ Query(t) \/ RevokePath(t)
  <2>1. PICK r : Send(t, r) /\ (r \in AskType \/ Plain(r))
    BY <1>1, <1>2, SendsOwn
  <2>2. requests' = IF Link(t) = Broken THEN requests ELSE [requests EXCEPT ![Link(t)] = r]
    BY <1>1, <2>1, SendLeaves
  <2>3. requests'[c] \in {requests[c], r}
    BY <1>1, <2>2
  <2>4. r \in AskType \/ Plain(r)'
    BY <2>1 DEF Plain
  <2>5. CASE requests'[c] = r
    BY <2>4, <2>5 DEF FrameStands, AskType
  <2>6. QED  BY <1>1, <2>3, <2>5, FrameKept
<1>3. CASE ~(Publish(t) \/ RegisterWorker(t) \/ Query(t) \/ RevokePath(t))
  <2>1. requests' = requests
    BY <1>3 DEF Call, Continue, Connect, ConnectInVain, HangUp, Evaluate, GiveUp, Answered, Fail
  <2>2. QED  BY <1>1, <2>1, FrameKept
<1>4. QED  BY <1>2, <1>3

-----------------------------------------------------------------------------
(* The epochs that are heard of.                                           *)

\* What evaluators, calls and frames carry after a step was heard of before it.
HearsOnly ==
    /\ \A w \in Worker : Heard(evaluators'[w].epoch)
    /\ \A t \in Caller :
          calls'[t].pc \in {"decided", "sent"} =>
              calls'[t].request \in AskType \/ Heard(calls'[t].request.epoch)
    /\ \A c \in Connection :
          /\ requests'[c] \in {NoFrame, Dropped} \cup AskType \/ Heard(requests'[c].epoch)
          /\ responses'[c] \in {NoFrame, Dropped} \/ Heard(responses'[c].epoch)

\* What a step leaves of the image on disk, while a process runs.
LEMMA StoreIs ==
    ASSUME Base, Running
    PROVE  store' = store \/ (store' # NoImage /\ store'.epoch = epoch)
<1>1. ASSUME NEW c \in Connection, Write(c), store' = connections[c].image
      PROVE  store' # NoImage /\ store'.epoch = epoch
  <2>1. connections[c].image # NoImage /\ status # "down"
    BY <1>1 DEF Write, At, Base, RequestsStand, RequestStands
  <2>2. QED  BY <1>1, <2>1 DEF Base, ImagesSealed
<1>2. QED  BY <1>1, DiskStays DEF Write, disk

LEMMA NextStartIs ==
    ASSUME Base
    PROVE  /\ NextStart \in Nat /\ NextStart >= 1 /\ epoch \in Nat
           /\ status # "down" => epoch >= 1 /\ NextStart <= epoch + 1
<1>1. /\ store # NoImage => store.epoch \in 1..MaxEpoch
      /\ epoch \in 0..MaxEpoch
  BY DEF Base, TypeOK, Image
<1>2. status # "down" => epoch >= 1 /\ (store # NoImage => store.epoch <= epoch)
  BY <1>1, ConstantFacts DEF Base, DownIsEmpty, ImagesSealed
<1>3. QED  BY <1>1, <1>2, ConstantFacts DEF NextStart

\* A process that starts owns the epoch after the image's, or what the operator asked for.
LEMMA StartIsNext ==
    ASSUME Base, Start
    PROVE  /\ epoch' \in Nat /\ epoch' >= NextStart /\ NextStart' = NextStart
           /\ epoch' = NextStart \/ Overridden(epoch')
<1> DEFINE recovered == IF store = NoImage THEN 0 ELSE store.epoch
<1>1. store # NoImage => store.epoch \in 1..MaxEpoch
  BY DEF Base, TypeOK, Image
<1>2. recovered \in Nat /\ NextStart = recovered + 1
  BY <1>1, ConstantFacts DEF NextStart
<1>3. PICK override \in Override :
          (override = 0 \/ override > recovered) /\ epoch' = NextEpoch(recovered, override)
  BY DEF Start
<1>4. override \in Nat
  BY <1>3, CoordinatorAssumption, ConstantFacts
<1>5. NextStart' = NextStart
  BY DEF Start, disk, NextStart
<1> HIDE DEF recovered
<1>6. CASE override = 0
  BY <1>2, <1>3, <1>5, <1>6 DEF NextEpoch
<1>7. CASE override # 0
  <2>1. epoch' = override /\ override > recovered /\ 0 < override
    BY <1>3, <1>4, <1>7 DEF NextEpoch
  <2>2. Overridden(epoch')
    BY <1>3, <1>4, <2>1 DEF Overridden
  <2>3. QED  BY <1>2, <1>4, <1>5, <2>1, <2>2
<1>8. QED  BY <1>6, <1>7

LEMMA HeardLasts ==
    ASSUME Base, [Next]_vars, NEW e \in Nat, Heard(e)
    PROVE  Heard(e)'
<1>1. CASE Overridden(e)
  BY <1>1 DEF Heard, Overridden
<1>2. CASE e <= NextStart /\ (status # "down" => e <= epoch)
  <2>1. CASE UNCHANGED vars
    BY <1>2, <2>1 DEF vars, process, disk, Heard, NextStart
  <2>2. CASE Running
    <3>1. status # "down" /\ epoch' = epoch
      BY <2>2, ProcessStays
    <3>2. NextStart' = NextStart \/ NextStart' = epoch + 1
      BY <2>2, StoreIs DEF NextStart
    <3>3. e <= epoch /\ e <= NextStart'
      BY <1>2, <3>1, <3>2, NextStartIs
    <3>4. QED  BY <3>1, <3>3 DEF Heard
  <2>3. CASE Crash
    BY <1>2, <2>3 DEF Crash, disk, Heard, NextStart
  <2>4. CASE Start
    <3>1. e <= epoch' /\ e <= NextStart'
      BY <1>2, <2>4, StartIsNext, NextStartIs
    <3>2. QED  BY <3>1 DEF Heard
  <2>5. QED  BY <2>1, <2>2, <2>3, <2>4 DEF Running, Next
<1>3. QED  BY <1>1, <1>2 DEF Heard

\* The epoch of a process was to come, or asked for.
LEMMA EpochIsHeard ==
    ASSUME SentInv, [Next]_vars, status' # "down"
    PROVE  Heard(epoch)'
<1>1. Base /\ (status # "down" => Heard(epoch))
  BY DEF SentInv, HeardInv
<1>2. CASE status # "down"
  <2>1. epoch' = epoch /\ epoch \in Nat
    BY <1>1, <1>2, ProcessStays, NextStartIs DEF Running, Next, Crash, Start, vars, process
  <2>2. Heard(epoch)
    BY <1>1, <1>2
  <2>3. QED  BY <1>1, <2>1, <2>2, HeardLasts DEF Heard, Overridden
<1>3. CASE status = "down"
  <2>1. Start
    BY <1>3, ProcessStays DEF Running, Next, Crash, vars, process
  <2>2. QED  BY <1>1, <2>1, StartIsNext DEF Heard, Overridden
<1>4. QED  BY <1>2, <1>3

LEMMA CallerHears ==
    ASSUME SentInv, NEW t \in Caller, Call(t) \/ Continue(t)
    PROVE  HearsOnly
<1>1. /\ EvaluatorTypes /\ CallStands(t) /\ HeardInv
      /\ calls \in [Caller -> CallType] /\ requests \in [Connection -> FrameType]
      /\ responses \in [Connection -> {NoFrame, Dropped} \cup ResponseType]
      /\ WorkerOf[t] \in Worker /\ Heard(Evaluator(t).epoch)
  BY DeploymentFacts DEF SentInv, EvaluatorTypes, HeardInv, Evaluator
<1>2. ASSUME NEW link, NEW registered, NEW bound, NEW holder,
             Leaves(t, link, registered, bound, holder), Heard(bound)
      PROVE  \A w \in Worker : Heard(evaluators'[w].epoch)
  BY <1>1, <1>2 DEF Leaves, Evaluator, HeardInv
<1>3. ASSUME NEW r, NEW pc, r \in AskType \/ Heard(r.epoch),
             calls' = [calls EXCEPT ![t] = [pc |-> pc, request |-> r]], NEW u \in Caller,
             calls'[u].pc \in {"decided", "sent"}
      PROVE  calls'[u].request \in AskType \/ Heard(calls'[u].request.epoch)
  <2>1. CASE u = t
    <3>1. calls'[u].request = r
      BY <1>1, <1>3, <2>1
    <3>2. QED  BY <1>3, <3>1
  <2>2. CASE u # t
    <3>1. calls'[u] = calls[u]
      BY <1>1, <1>3, <2>2
    <3>2. QED  BY <1>1, <1>3, <3>1 DEF HeardInv
  <2>3. QED  BY <2>1, <2>2
<1>4. ASSUME \A u \in Caller : calls'[u].pc \in {"decided", "sent"} => calls'[u] = calls[u]
      PROVE  \A u \in Caller :
                calls'[u].pc \in {"decided", "sent"} =>
                    calls'[u].request \in AskType \/ Heard(calls'[u].request.epoch)
  BY <1>1, <1>4 DEF HeardInv
<1>5. CASE (\E c \in Connection : Connect(t, c)) \/ ConnectInVain(t) \/ HangUp(t)
  <2>1. UNCHANGED <<calls, requests, responses>>
    BY <1>5 DEF Connect, ConnectInVain, HangUp
  <2>2. \A w \in Worker : Heard(evaluators'[w].epoch)
    BY <1>1, <1>2, <1>5, ConnectLeaves
  <2>3. QED  BY <1>1, <1>4, <2>1, <2>2 DEF HearsOnly, HeardInv
<1>6. CASE Evaluate(t)
  <2>1. PICK r : /\ r.epoch = Evaluator(t).epoch
                 /\ calls' = [calls EXCEPT ![t] = [pc |-> "decided", request |-> r]]
    BY <1>1, <1>6, EvaluateLeaves
  <2>2. Heard(r.epoch)
    BY <1>1, <2>1
  <2>3. \A w \in Worker : Heard(evaluators'[w].epoch)
    BY <1>1, <1>2, <1>6, EvaluateLeaves
  <2>4. UNCHANGED <<requests, responses>>
    BY <1>6 DEF Evaluate
  <2>5. QED  BY <1>1, <1>3, <2>1, <2>2, <2>3, <2>4 DEF HearsOnly, HeardInv
<1>7. CASE Publish(t) \/ RegisterWorker(t) \/ Query(t) \/ RevokePath(t)
  <2>1. PICK r : /\ Send(t, r)
                 /\ \/ r \in AskType \/ r.epoch = Evaluator(t).epoch
                    \/ r = calls[t].request /\ calls[t].pc = "decided"
    BY <1>1, <1>7, SendsOwn
  <2>2. r \in AskType \/ Heard(r.epoch)
    BY <1>1, <2>1 DEF HeardInv
  <2>3. /\ Leaves(t, Link(t), Evaluator(t).registered, Evaluator(t).epoch, t)
        /\ calls' = [calls EXCEPT ![t] = [pc |-> "sent", request |-> r]]
        /\ requests' = IF Link(t) = Broken THEN requests ELSE [requests EXCEPT ![Link(t)] = r]
        /\ responses' = responses
    BY <1>1, <2>1, SendLeaves
  <2>4. \A w \in Worker : Heard(evaluators'[w].epoch)
    BY <1>1, <1>2, <2>3
  <2>5. ASSUME NEW c \in Connection
        PROVE  requests'[c] \in {NoFrame, Dropped} \cup AskType \/ Heard(requests'[c].epoch)
    <3>1. requests'[c] = requests[c] \/ requests'[c] = r
      BY <1>1, <2>3
    <3>2. CASE requests'[c] = requests[c]
      BY <1>1, <3>2 DEF HeardInv
    <3>3. CASE requests'[c] = r
      BY <2>2, <3>3
    <3>4. QED  BY <3>1, <3>2, <3>3
  <2>6. QED  BY <1>1, <1>3, <2>2, <2>3, <2>4, <2>5 DEF HearsOnly, HeardInv
<1>8. CASE GiveUp(t)
  BY <1>1, <1>4, <1>8 DEF GiveUp, Return, NoCall, HearsOnly, HeardInv
<1>9. CASE Answered(t)
  <2>1. /\ Link(t) \in Connection /\ responses[Link(t)] \in ResponseType
        /\ responses' = [responses EXCEPT ![Link(t)] = NoFrame]
        /\ calls' = [calls EXCEPT ![t] = NoCall] /\ requests' = requests
        /\ \E registered, bound :
              /\ Leaves(t, Link(t), registered, bound, NoCaller)
              /\ bound \in {responses[Link(t)].epoch, Evaluator(t).epoch}
    BY <1>1, <1>9, AnsweredLeaves
  <2>2. Heard(responses[Link(t)].epoch)
    BY <1>1, <1>9 DEF HeardInv, Answered
  <2>3. \A w \in Worker : Heard(evaluators'[w].epoch)
    BY <1>1, <1>2, <2>1, <2>2
  <2>4. \A u \in Caller : calls'[u].pc \in {"decided", "sent"} => calls'[u] = calls[u]
    BY <1>1, <2>1 DEF NoCall
  <2>5. \A c \in Connection : responses'[c] \in {responses[c], NoFrame}
    BY <1>1, <2>1
  <2>6. QED  BY <1>1, <1>4, <2>1, <2>3, <2>4, <2>5 DEF HearsOnly, HeardInv
<1>10. CASE Fail(t)
  <2>1. UNCHANGED <<requests, responses>>
    BY <1>10 DEF Fail
  <2>2. \A w \in Worker : Heard(evaluators'[w].epoch)
    BY <1>1, <1>2, <1>10, FailLeaves DEF HeardInv
  <2>3. \A u \in Caller : calls'[u].pc \in {"decided", "sent"} => calls'[u] = calls[u]
    <3>1. CASE calls' = [calls EXCEPT ![t].pc = "stuck"]
      BY <1>1, <3>1 DEF CallType
    <3>2. CASE calls' = [calls EXCEPT ![t] = NoCall]
      BY <1>1, <3>2 DEF NoCall
    <3>3. QED  BY <1>1, <1>10, <3>1, <3>2, FailLeaves
  <2>4. QED  BY <1>1, <1>4, <2>1, <2>2, <2>3 DEF HearsOnly, HeardInv
<1>11. QED  BY <1>5, <1>6, <1>7, <1>8, <1>9, <1>10 DEF Call, Continue

\* The coordinator answers with its epoch; nothing else is new.
LEMMA FramesHear ==
    ASSUME HeardInv, calls' = calls,
           \A w \in Worker : evaluators'[w].epoch = evaluators[w].epoch,
           \A c \in Connection : requests'[c] \in {requests[c], NoFrame, Dropped},
           \A c \in Connection :
              \/ responses'[c] \in {responses[c], NoFrame, Dropped}
              \/ status # "down" /\ responses'[c].epoch = epoch
    PROVE  HearsOnly
<1>1. ASSUME NEW c \in Connection
      PROVE  responses'[c] \in {NoFrame, Dropped} \/ Heard(responses'[c].epoch)
  <2>1. CASE responses'[c] \in {responses[c], NoFrame, Dropped}
    BY <2>1 DEF HeardInv
  <2>2. CASE status # "down" /\ responses'[c].epoch = epoch
    BY <2>2 DEF HeardInv
  <2>3. QED  BY <2>1, <2>2
<1>2. ASSUME NEW c \in Connection
      PROVE  requests'[c] \in {NoFrame, Dropped} \cup AskType \/ Heard(requests'[c].epoch)
  BY DEF HeardInv
<1>3. QED  BY <1>1, <1>2 DEF HearsOnly, HeardInv

LEMMA CoordinatorHears ==
    ASSUME SentInv, NEW c \in Connection, CoordinatorStep(c) \/ Break(c) \/ Lose(c)
    PROVE  HearsOnly
<1>1. /\ HeardInv /\ EvaluatorTypes
      /\ responses \in [Connection -> {NoFrame, Dropped} \cup ResponseType]
      /\ calls' = calls /\ \A d \in Connection : requests'[d] \in {requests[d], NoFrame, Dropped}
  BY CoordinatorTypes DEF SentInv, EvaluatorTypes
<1>2. ASSUME NEW accepted,
             responses' = [responses EXCEPT ![c] = [accepted |-> accepted, epoch |-> epoch]]
      PROVE  \A d \in Connection :
                responses'[d] \in {responses[d]} \/ responses'[d].epoch = epoch
  BY <1>1, <1>2
<1>3. ASSUME responses' = [responses EXCEPT ![c] = NoFrame]
      PROVE  \A d \in Connection : responses'[d] \in {responses[d], NoFrame}
  BY <1>1, <1>3
<1>4. CASE ServeNow(c)
  BY <1>1, <1>2, <1>4, ServeNowIs, FramesHear DEF Receives, At
<1>5. CASE Serve(c)
  BY <1>1, <1>5, ServeIs, FramesHear
<1>6. CASE HandleStep(c)
  <2>1. /\ Cut({c}) \/ UNCHANGED evaluators
        /\ \/ \E accepted \in BOOLEAN :
                 responses' = [responses EXCEPT ![c] = [accepted |-> accepted, epoch |-> epoch]]
           \/ responses' = [responses EXCEPT ![c] = NoFrame]
           \/ responses' = responses
    BY <1>6, HandleStepIs, HandlesUp
  <2>2. \A w \in Worker : evaluators'[w].epoch = evaluators[w].epoch
    BY <1>1, <2>1, CutIs
  <2>3. status # "down"
    BY <1>6, HandleStepIs, HandlesUp
  <2>4. QED  BY <1>1, <1>2, <1>3, <2>1, <2>2, <2>3, FramesHear
<1>7. CASE Break(c)
  <2>1. \A w \in Worker : evaluators'[w].epoch = evaluators[w].epoch
    BY <1>1, <1>7, CutIs DEF Break
  <2>2. QED  BY <1>1, <1>3, <1>7, <2>1, FramesHear DEF Break
<1>8. CASE Lose(c)
  <2>1. UNCHANGED evaluators /\ \A d \in Connection : responses'[d] \in {responses[d], Dropped}
    BY <1>1, <1>8 DEF Lose
  <2>2. QED  BY <1>1, <2>1, FramesHear
<1>9. QED  BY <1>4, <1>5, <1>6, <1>7, <1>8 DEF CoordinatorStep

LEMMA EveryBreakHears ==
    ASSUME SentInv, EveryBreak
    PROVE  HearsOnly
<1>1. HeardInv /\ EvaluatorTypes
  BY DEF SentInv
<1>2. \A w \in Worker : evaluators'[w].epoch = evaluators[w].epoch
  BY <1>1, CutIs DEF EveryBreak
<1>3. QED  BY <1>1, <1>2, FramesHear DEF EveryBreak

LEMMA HeardStep ==
    ASSUME SentInv, [SystemNext]_system, EvaluatorTypes', \A t \in Caller : CallStands(t)',
           \A c \in Connection : FrameStands(c)'
    PROVE  HeardInv'
<1>1. Base /\ [Next]_vars
  BY StepRefines DEF SentInv
<1>2. HearsOnly
  <2>1. CASE UNCHANGED evaluator
    BY <2>1, FramesHear DEF evaluator, SentInv
  <2>2. CASE \E t \in Caller : Call(t) \/ Continue(t)
    BY <2>2, CallerHears
  <2>3. CASE \E c \in Connection : CoordinatorStep(c) \/ Break(c) \/ Lose(c)
    BY <2>3, CoordinatorHears
  <2>4. CASE EveryBreak
    BY <2>4, EveryBreakHears
  <2>5. QED  BY <2>1, <2>2, <2>3, <2>4 DEF SystemNext, system, CoordinatorCrash, CoordinatorStop
<1>3. \A e \in Nat : Heard(e) => Heard(e)'
  BY <1>1, HeardLasts
<1>4. 0..MaxEpoch \subseteq Nat /\ 1..MaxEpoch \subseteq Nat
  BY ConstantFacts
<1>5. ASSUME NEW w \in Worker PROVE Heard(evaluators[w].epoch)'
  <2>1. evaluators'[w].epoch \in Nat /\ Heard(evaluators'[w].epoch)
    BY <1>2, <1>4 DEF HearsOnly, EvaluatorTypes, EvaluatorType
  <2>2. QED  BY <1>3, <2>1 DEF Heard, Overridden
<1>6. ASSUME NEW t \in Caller, calls'[t].pc \in {"decided", "sent"},
             calls'[t].request \notin AskType
      PROVE  Heard(calls[t].request.epoch)'
  <2>1. calls'[t].request \in RequestType /\ Heard(calls'[t].request.epoch)
    BY <1>2, <1>6, PlainIs DEF HearsOnly, CallStands
  <2>2. calls'[t].request.epoch \in Nat
    BY <1>4, <2>1 DEF RequestType
  <2>3. QED  BY <1>3, <2>1, <2>2 DEF Heard, Overridden
<1>7. ASSUME NEW c \in Connection, requests'[c] \notin {NoFrame, Dropped} \cup AskType
      PROVE  Heard(requests[c].epoch)'
  <2>1. requests'[c] \in RequestType /\ Heard(requests'[c].epoch)
    BY <1>2, <1>7 DEF HearsOnly, EvaluatorTypes, FrameType
  <2>2. requests'[c].epoch \in Nat
    BY <1>4, <2>1 DEF RequestType
  <2>3. QED  BY <1>3, <2>1, <2>2 DEF Heard, Overridden
<1>8. ASSUME NEW c \in Connection, responses'[c] \notin {NoFrame, Dropped}
      PROVE  Heard(responses[c].epoch)'
  <2>1. responses'[c] \in ResponseType /\ Heard(responses'[c].epoch)
    BY <1>2, <1>8 DEF HearsOnly, EvaluatorTypes
  <2>2. responses'[c].epoch \in Nat
    BY <1>4, <2>1 DEF ResponseType
  <2>3. QED  BY <1>3, <2>1, <2>2 DEF Heard, Overridden
<1>9. status' # "down" => Heard(epoch)'
  BY <1>1, EpochIsHeard
<1>10. QED  BY <1>5, <1>6, <1>7, <1>8, <1>9 DEF HeardInv, AskType

LEMMA SentStep == SentInv /\ [SystemNext]_system => SentInv'
<1> SUFFICES ASSUME SentInv, [SystemNext]_system PROVE SentInv'
  OBVIOUS
<1>1. Base'
  BY StepRefines, NextBase DEF SentInv
<1>2. CASE \E t \in Caller : Call(t) \/ Continue(t)
  BY <1>1, <1>2, CallerTypes, CallerCallsStand, CallerFramesStand, HeardStep DEF SentInv
<1>3. ASSUME /\ EvaluatorTypes' /\ calls' = calls
             /\ \A d \in Connection : requests'[d] \in {requests[d], NoFrame, Dropped}
             /\ \A w \in Worker : evaluators'[w].holder = evaluators[w].holder
      PROVE  SentInv'
  <2>1. ASSUME NEW t \in Caller PROVE CallStands(t)'
    <3>1. CallStands(t) /\ Evaluator(t)'.holder = Evaluator(t).holder
      BY <1>3, DeploymentFacts DEF SentInv, Evaluator
    <3>2. QED  BY <1>3, <3>1, CallKept
  <2>2. ASSUME NEW c \in Connection PROVE FrameStands(c)'
    BY <1>3, FrameKept DEF SentInv
  <2>3. QED  BY <1>1, <1>3, <2>1, <2>2, HeardStep DEF SentInv
<1>4. CASE \E c \in Connection : CoordinatorStep(c) \/ Break(c) \/ Lose(c)
  BY <1>3, <1>4, CoordinatorTypes
<1>5. CASE EveryBreak
  BY <1>3, <1>5, EveryBreakTypes
<1>6. CASE UNCHANGED evaluator
  <2>1. EvaluatorTypes'
    BY <1>6 DEF SentInv, EvaluatorTypes, evaluator
  <2>2. QED  BY <1>3, <1>6, <2>1 DEF evaluator
<1>7. QED
  BY <1>2, <1>4, <1>5, <1>6 DEF SystemNext, system, CoordinatorCrash, CoordinatorStop

LEMMA SystemInitSent == SystemInit => SentInv
<1> SUFFICES ASSUME SystemInit PROVE SentInv
  OBVIOUS
<1>1. Base
  BY InitBase DEF SystemInit
<1>2. Disconnected \in EvaluatorType
  BY ConstantFacts, DeploymentFacts DEF Disconnected, EvaluatorType
<1>3. NoCall \in CallType
  BY DEF NoCall, CallType
<1>4. EvaluatorTypes
  BY <1>2, <1>3 DEF SystemInit, EvaluatorTypes, FrameType
<1>5. (\A t \in Caller : CallStands(t)) /\ \A c \in Connection : FrameStands(c)
  BY DEF SystemInit, CallStands, FrameStands, NoCall
<1>6. Heard(1)
  BY DEF SystemInit, Init, Heard, NextStart, NoImage
<1>7. HeardInv
  BY <1>6 DEF SystemInit, Init, HeardInv, Disconnected, NoCall
<1>8. QED  BY <1>1, <1>4, <1>5, <1>7 DEF SentInv

LEMMA SystemSent == SystemSpec => []SentInv
BY SystemInitSent, SentStep, PTL DEF SystemSpec

\* Evaluators with their coordinator are a Coordinator: whatever they send, lose and
\* break is what its Client may do, so that what Coordinator promises holds of the whole.
THEOREM SystemIsACoordinator == SystemSpec => SystemIsCoordinator
<1>1. SystemInit => Init
  BY DEF SystemInit
<1>2. SentInv /\ [SystemNext]_system => [Next]_vars
  BY StepRefines
<1>3. QED  BY <1>1, <1>2, SystemSent, PTL DEF SystemSpec, Spec, SystemIsCoordinator

-----------------------------------------------------------------------------
(* What a thread of the coordinator does to its connection.                *)

\* An answer is for a request that is done, and a thread that has none rests.
RestStands(c) ==
    /\ connections[c].answer # NoAnswer => connections[c].pc \in {"export", "gather", "write"}
    /\ connections[c].socket \in {"free", "finished"} => connections[c].pc = "receive"

\* A thread that goes on leaves its socket alone, or ends with it.
Proceeds(c) ==
    /\ \A d \in Connection : d # c => connections'[d] = connections[d]
    /\ RestStands(c)'
    /\ connections[c].pc = "receive" => connections[c].socket = "closed"
    /\ \/ connections'[c].socket = connections[c].socket
       \/ /\ connections[c].socket = "closed" /\ connections'[c].socket = "finished"
          /\ connections'[c].pc = "receive" /\ connections[c].pc = "receive"

LEMMA SetOthers ==
    ASSUME TypeOK, NEW c \in Connection, NEW fields, Set(c, fields)
    PROVE  \A d \in Connection : d # c => connections'[d] = connections[d]
BY SetConnection

LEMMA SetFields ==
    ASSUME TypeOK, NEW c \in Connection, NEW fields, Set(c, fields)
    PROVE  /\ connections'[c].socket = IF "socket" \in DOMAIN fields THEN fields["socket"]
                                       ELSE connections[c].socket
           /\ connections'[c].pc = IF "pc" \in DOMAIN fields THEN fields["pc"]
                                   ELSE connections[c].pc
           /\ connections'[c].answer = IF "answer" \in DOMAIN fields THEN fields["answer"]
                                       ELSE connections[c].answer
<1>1. {"socket", "pc", "answer"} \subseteq DOMAIN Free
  BY DEF Free
<1>2. ASSUME NEW f \in DOMAIN Free
      PROVE  connections'[c][f] = IF f \in DOMAIN fields THEN fields[f] ELSE connections[c][f]
  BY SetField
<1>3. QED  BY <1>1, <1>2

LEMMA AnswerProceeds ==
    ASSUME TypeOK, NEW c \in Connection, RestStands(c), connections[c].pc # "receive", Answer(c)
    PROVE  Proceeds(c)
<1>1. /\ \A d \in Connection : d # c => connections'[d] = connections[d]
      /\ connections'[c].socket = connections[c].socket
      /\ connections'[c].pc = "receive" /\ connections'[c].answer = NoAnswer
  <2>1. connections'[c] = Rested(c)
    BY AnswerConnection
  <2>2. QED  BY <2>1, AnswerConnection DEF Rested
<1>2. QED  BY <1>1 DEF Proceeds, RestStands

LEMMA PersistProceeds ==
    ASSUME TypeOK, NEW c \in Connection, RestStands(c), connections[c].pc # "receive", Persist(c)
    PROVE  Proceeds(c)
<1>1. /\ \A d \in Connection : d # c => connections'[d] = connections[d]
      /\ connections'[c].socket = connections[c].socket
      /\ connections'[c].pc = "export"
  <2>1. connections'[c] = [socket |-> connections[c].socket, pc |-> "export",
                           request |-> NoRequest, workers |-> connections[c].workers,
                           lost |-> connections[c].lost, image |-> connections[c].image,
                           answer |-> AnswerOf(c)]
    BY PersistConnection
  <2>2. QED  BY <2>1, PersistConnection
<1>2. QED  BY <1>1 DEF Proceeds, RestStands

LEMMA SetProceeds ==
    ASSUME TypeOK, NEW c \in Connection, RestStands(c), NEW fields, Set(c, fields),
           "socket" \notin DOMAIN fields, "answer" \notin DOMAIN fields, "pc" \in DOMAIN fields,
           \/ /\ connections[c].pc \in {"receive", "registered", "withdraw"}
              /\ fields["pc"] \in {"commit", "withdraw", "export"}
           \/ fields["pc"] \in {"gather", "write"},
           connections[c].socket \notin {"free", "finished"},
           connections[c].pc = "receive" => connections[c].socket = "closed"
    PROVE  Proceeds(c)
<1>1. /\ \A d \in Connection : d # c => connections'[d] = connections[d]
      /\ connections'[c].socket = connections[c].socket
      /\ connections'[c].pc = fields["pc"] /\ connections'[c].answer = connections[c].answer
  BY SetOthers, SetFields
<1>2. QED  BY <1>1 DEF Proceeds, RestStands

LEMMA HandleProceeds ==
    ASSUME TypeOK, NEW c \in Connection, RestStands(c), Handle(c)
    PROVE  Proceeds(c)
<1>1. CASE connections[c].pc # "receive"
  <2>1. connections[c].socket \notin {"free", "finished"}
    BY <1>1 DEF RestStands
  <2>2. CASE Refuse(c) \/ RejectCommit(c) \/ RejectRevoke(c) \/ Write(c)
    BY <1>1, <2>2, AnswerProceeds DEF Refuse, RejectCommit, RejectRevoke, Write
  <2>3. CASE Commit(c) \/ ReplayCommit(c) \/ Revoke(c)
    BY <1>1, <2>3, PersistProceeds DEF Commit, ReplayCommit, Revoke
  <2>4. CASE AcceptPublication(c) \/ AcceptRevocation(c)
    <3> DEFINE fields == [pc |-> "commit"]
    <3>1. Set(c, fields) /\ connections[c].pc = "registered"
      BY <2>4 DEF AcceptPublication, AcceptRevocation, At
    <3>2. DOMAIN fields = {"pc"} /\ fields["pc"] = "commit"
      OBVIOUS
    <3> HIDE DEF fields
    <3>3. QED  BY <1>1, <2>1, <3>1, <3>2, SetProceeds
  <2>5. ASSUME NEW id \in Identity, Withdraw(c, id) PROVE Proceeds(c)
    <3> DEFINE fields == [lost |-> connections[c].lost \ {id},
                          pc |-> IF connections[c].lost = {id} THEN "export" ELSE "withdraw"]
    <3>1. Set(c, fields) /\ connections[c].pc = "withdraw"
      BY <2>5 DEF Withdraw, At
    <3>2. DOMAIN fields = {"lost", "pc"} /\ fields["pc"] \in {"export", "withdraw"}
      OBVIOUS
    <3> HIDE DEF fields
    <3>3. QED  BY <1>1, <2>1, <3>1, <3>2, SetProceeds
  <2>6. CASE Export(c)
    <3> DEFINE fields == [pc |-> "gather",
                          image |-> [epoch |-> epoch, authority |-> authority,
                                     digest |-> digest, fenced |-> {}]]
    <3>1. Set(c, fields)
      BY <2>6 DEF Export
    <3>2. DOMAIN fields = {"pc", "image"} /\ fields["pc"] = "gather"
      OBVIOUS
    <3> HIDE DEF fields
    <3>3. QED  BY <1>1, <2>1, <3>1, <3>2, SetProceeds
  <2>7. CASE Gather(c)
    <3> DEFINE fields == [pc |-> "write",
                          image |-> [connections[c].image EXCEPT
                                        !.fenced = fenced \cup {w \in Worker : Registered(w)}]]
    <3>1. Set(c, fields)
      BY <2>7 DEF Gather
    <3>2. DOMAIN fields = {"pc", "image"} /\ fields["pc"] = "write"
      OBVIOUS
    <3> HIDE DEF fields
    <3>3. QED  BY <1>1, <2>1, <3>1, <3>2, SetProceeds
  <2>8. ~Fence(c) /\ ~Leave(c)
    BY <1>1 DEF Fence, Leave, At
  <2>9. QED  BY <2>2, <2>3, <2>4, <2>5, <2>6, <2>7, <2>8 DEF Handle
<1>2. CASE connections[c].pc = "receive"
  <2>1. Fence(c) \/ Leave(c)
    BY <1>2 DEF Handle, Refuse, AcceptPublication, AcceptRevocation, Commit, ReplayCommit,
                RejectCommit, Revoke, RejectRevoke, Withdraw, Export, Gather, Write, At
  <2>2. CASE Fence(c)
    <3> DEFINE fields == [pc |-> "withdraw", lost |-> Identities(LostWith(c)), workers |-> {}]
    <3>1. Set(c, fields) /\ connections[c].socket = "closed"
      BY <2>2 DEF Fence
    <3>2. DOMAIN fields = {"pc", "lost", "workers"} /\ fields["pc"] = "withdraw"
      OBVIOUS
    <3> HIDE DEF fields
    <3>3. QED  BY <1>2, <3>1, <3>2, SetProceeds
  <2>3. CASE Leave(c)
    <3>1. Set(c, [socket |-> "finished", workers |-> {}]) /\ connections[c].socket = "closed"
      BY <2>3 DEF Leave
    <3>2. /\ \A d \in Connection : d # c => connections'[d] = connections[d]
          /\ connections'[c].socket = "finished" /\ connections'[c].pc = "receive"
          /\ connections'[c].answer = connections[c].answer
      <4> DEFINE fields == [socket |-> "finished", workers |-> {}]
      <4>1. /\ DOMAIN fields = {"socket", "workers"} /\ fields["socket"] = "finished"
            /\ Set(c, fields)
        BY <3>1
      <4> HIDE DEF fields
      <4>2. QED  BY <1>2, <4>1, SetOthers, SetFields
    <3>3. QED  BY <1>2, <3>1, <3>2 DEF Proceeds, RestStands
  <2>4. QED  BY <2>1, <2>2, <2>3
<1>3. QED  BY <1>1, <1>2

-----------------------------------------------------------------------------
(* A frame has an owner.                                                   *)

\* A link is an open connection, and one evaluator's.
LinkStands(w) ==
    /\ evaluators[w].link \in Connection =>
          /\ connections[evaluators[w].link].socket = "open"
          /\ \A v \in Worker : evaluators[v].link = evaluators[w].link => v = w
    /\ evaluators[w].registered => evaluators[w].link # NoConnection

Owns(t, c) == Link(t) = c /\ Evaluator(t).holder = t /\ calls[t].pc = "sent"

Occupied(c) ==
    requests[c] # NoFrame \/ responses[c] # NoFrame \/ connections[c].pc # "receive"

\* At the most one of a request, a thread that serves it and an answer, for its owner;
\* a connection that is new has none.
Exclusive(c) ==
    /\ connections[c].socket # "open" => requests[c] = NoFrame
    /\ connections[c].socket \in {"free", "finished"} => responses[c] = NoFrame
    /\ connections[c].socket = "open" =>
          /\ Occupied(c) => \E t \in Caller : Owns(t, c)
          /\ requests[c] # NoFrame => responses[c] = NoFrame /\ connections[c].pc = "receive"
          /\ responses[c] # NoFrame => connections[c].pc = "receive"

\* stop() has closed every connection.
ClosedByStop == status = "stopping" => \A c \in Connection : connections[c].socket # "open"

FrameInv ==
    /\ SentInv
    /\ ClosedByStop
    /\ \A c \in Connection : RestStands(c)
    /\ \A w \in Worker : LinkStands(w)
    /\ \A c \in Connection : Exclusive(c)

\* What is unlocked has nothing on its link.
LEMMA UnlockedIsIdle ==
    ASSUME FrameInv, NEW t \in Caller, Unlocked(t), Link(t) \in Connection
    PROVE  connections[Link(t)].socket = "open" /\ ~Occupied(Link(t))
<1>1. WorkerOf[t] \in Worker /\ LinkStands(WorkerOf[t]) /\ Exclusive(Link(t))
  BY DeploymentFacts DEF FrameInv
<1>2. connections[Link(t)].socket = "open"
  BY <1>1 DEF LinkStands, Link, Evaluator
<1>3. ASSUME NEW u \in Caller, Owns(u, Link(t)) PROVE FALSE
  <2>1. WorkerOf[u] = WorkerOf[t]
    BY <1>1, <1>3, DeploymentFacts DEF LinkStands, Owns, Link, Evaluator
  <2>2. QED  BY <1>3, <2>1, DeploymentFacts DEF Owns, Unlocked, Evaluator
<1>4. QED  BY <1>1, <1>2, <1>3 DEF Exclusive

LEMMA ExclusiveKept ==
    ASSUME NEW c \in Connection, Exclusive(c),
           connections'[c].socket = connections[c].socket, connections'[c].pc = connections[c].pc,
           requests'[c] = requests[c], responses'[c] = responses[c],
           \A t \in Caller : Owns(t, c) => Owns(t, c)'
    PROVE  Exclusive(c)'
BY DEF Exclusive, Occupied

\* What a thread does with its evaluator is nothing to the owners of other connections.
LEMMA OthersOwn ==
    ASSUME EvaluatorTypes, NEW t \in Caller, NEW link, NEW registered, NEW bound, NEW holder,
           Leaves(t, link, registered, bound, holder),
           \A u \in Caller : u # t => calls'[u] = calls[u],
           NEW c \in Connection, Link(t) # c, NEW u \in Caller, Owns(u, c)
    PROVE  Owns(u, c)'
<1>1. WorkerOf[u] \in Worker /\ WorkerOf[u] # WorkerOf[t] /\ u # t
  BY DeploymentFacts DEF Owns, Link, Evaluator
<1>2. evaluators'[WorkerOf[u]] = evaluators[WorkerOf[u]] /\ calls'[u] = calls[u]
  BY <1>1 DEF Leaves
<1>3. QED  BY <1>2 DEF Owns, Link, Evaluator

\* The links after a step of thread t, when its own is as it should be.
LEMMA LinksLeft ==
    ASSUME EvaluatorTypes, NEW t \in Caller, NEW link, NEW registered, NEW bound, NEW holder,
           Leaves(t, link, registered, bound, holder), \A v \in Worker : LinkStands(v),
           link \in Connection =>
              /\ connections'[link].socket = "open"
              /\ \A v \in Worker : v # WorkerOf[t] => evaluators[v].link # link,
           registered => link # NoConnection,
           \A v \in Worker :
              v # WorkerOf[t] /\ evaluators[v].link \in Connection =>
                 connections'[evaluators[v].link].socket = "open",
           NEW w \in Worker
    PROVE  LinkStands(w)'
<1>1. WorkerOf[t] \in Worker
  BY DeploymentFacts
<1>2. /\ evaluators'[WorkerOf[t]].link = link /\ evaluators'[WorkerOf[t]].registered = registered
      /\ \A v \in Worker : v # WorkerOf[t] => evaluators'[v] = evaluators[v]
  BY DEF Leaves, Evaluator
<1>3. CASE w = WorkerOf[t]
  BY <1>2, <1>3 DEF LinkStands
<1>4. CASE w # WorkerOf[t]
  <2>1. evaluators'[w] = evaluators[w] /\ LinkStands(w)
    BY <1>2, <1>4
  <2>2. ASSUME NEW v \in Worker, evaluators[w].link \in Connection,
               evaluators'[v].link = evaluators'[w].link
        PROVE  v = w
    <3>1. CASE v = WorkerOf[t]
      BY <1>2, <1>4, <2>1, <2>2, <3>1
    <3>2. CASE v # WorkerOf[t]
      BY <1>2, <2>1, <2>2, <3>2 DEF LinkStands
    <3>3. QED  BY <3>1, <3>2
  <2>3. evaluators[w].link \in Connection => connections'[evaluators[w].link].socket = "open"
    BY <1>4
  <2>4. QED  BY <2>1, <2>2, <2>3 DEF LinkStands
<1>5. QED  BY <1>3, <1>4

LEMMA AcceptIs ==
    ASSUME TypeOK, NEW c \in Connection, Accept(c)
    PROVE  /\ \A d \in Connection : d # c => connections'[d] = connections[d]
           /\ connections[c].socket = "free" /\ connections'[c].socket = "open"
           /\ connections'[c].pc = "receive" /\ connections'[c].answer = NoAnswer
           /\ status' = "running"
<1> DEFINE fields == [socket |-> "open"]
<1>1. /\ Set(c, fields) /\ connections[c] = Free /\ status' = "running"
  BY DEF Accept, process
<1>2. DOMAIN fields = {"socket"} /\ fields["socket"] = "open"
  OBVIOUS
<1> HIDE DEF fields
<1>3. /\ connections'[c].socket = "open" /\ connections'[c].pc = connections[c].pc
      /\ connections'[c].answer = connections[c].answer
  BY <1>1, <1>2, SetFields
<1>4. QED  BY <1>1, <1>3, SetOthers DEF Free

LEMMA DisconnectIs ==
    ASSUME TypeOK, NEW c \in Connection, Disconnect(c)
    PROVE  /\ \A d \in Connection : d # c => connections'[d] = connections[d]
           /\ connections[c].socket = "open" /\ connections'[c].socket = "closed"
           /\ connections'[c].pc = connections[c].pc
           /\ connections'[c].answer = connections[c].answer
           /\ status' = status
<1> DEFINE fields == [socket |-> "closed"]
<1>1. Set(c, fields) /\ connections[c].socket = "open" /\ status' = status
  BY DEF Disconnect, process
<1>2. DOMAIN fields = {"socket"} /\ fields["socket"] = "closed"
  OBVIOUS
<1> HIDE DEF fields
<1>3. QED  BY <1>1, <1>2, SetFields, SetOthers

\* What FrameInv says beyond SentInv.
FramesStand ==
    /\ ClosedByStop
    /\ \A c \in Connection : RestStands(c)
    /\ \A w \in Worker : LinkStands(w)
    /\ \A c \in Connection : Exclusive(c)

LEMMA ConnectFrames ==
    ASSUME FrameInv, NEW t \in Caller, NEW c \in Connection, Connect(t, c)
    PROVE  FramesStand'
<1>1. /\ EvaluatorTypes /\ TypeOK /\ WorkerOf[t] \in Worker
      /\ \A w \in Worker : LinkStands(w)
      /\ \A d \in Connection : RestStands(d) /\ Exclusive(d)
  BY DeploymentFacts DEF FrameInv, SentInv, Base
<1>2. /\ Accept(c) /\ Link(t) = NoConnection /\ UNCHANGED <<calls, requests, responses>>
  BY DEF Connect, CanConnect
<1>3. Leaves(t, c, Evaluator(t).registered, Evaluator(t).epoch, Evaluator(t).holder)
  BY <1>1, ConnectLeaves
<1>4. /\ \A d \in Connection : d # c => connections'[d] = connections[d]
      /\ connections[c].socket = "free" /\ connections'[c].socket = "open"
      /\ connections'[c].pc = "receive" /\ connections'[c].answer = NoAnswer
      /\ status' = "running"
  BY <1>1, <1>2, AcceptIs
<1>5. \A w \in Worker : evaluators[w].link # c
  BY <1>1, <1>4 DEF LinkStands
<1>6. ASSUME NEW w \in Worker PROVE LinkStands(w)'
  <2>1. \A v \in Worker : evaluators[v].link \in Connection =>
            connections'[evaluators[v].link].socket = "open"
    BY <1>1, <1>4 DEF LinkStands
  <2>2. c # NoConnection
    BY DeploymentFacts
  <2>3. QED  BY <1>1, <1>3, <1>4, <1>5, <2>1, <2>2, LinksLeft
<1>7. ASSUME NEW d \in Connection PROVE RestStands(d)' /\ Exclusive(d)'
  <2>1. CASE d = c
    <3>1. requests'[c] = NoFrame /\ responses'[c] = NoFrame
      BY <1>1, <1>2, <1>4 DEF Exclusive
    <3>2. QED  BY <1>4, <2>1, <3>1 DEF RestStands, Exclusive, Occupied
  <2>2. CASE d # c
    <3>1. Link(t) # d
      BY <1>2, DeploymentFacts
    <3>2. \A u \in Caller : Owns(u, d) => Owns(u, d)'
      BY <1>1, <1>2, <1>3, <3>1, OthersOwn
    <3>3. connections'[d] = connections[d] /\ RestStands(d) /\ Exclusive(d)
      BY <1>1, <1>4, <2>2
    <3>4. QED  BY <1>2, <3>2, <3>3, ExclusiveKept DEF RestStands
  <2>3. QED  BY <2>1, <2>2
<1>8. QED  BY <1>4, <1>6, <1>7 DEF FramesStand, ClosedByStop

LEMMA HangUpFrames ==
    ASSUME FrameInv, NEW t \in Caller, HangUp(t)
    PROVE  FramesStand'
<1>1. /\ EvaluatorTypes /\ TypeOK /\ WorkerOf[t] \in Worker
      /\ \A w \in Worker : LinkStands(w)
      /\ \A d \in Connection : RestStands(d) /\ Exclusive(d)
  BY DeploymentFacts DEF FrameInv, SentInv, Base
<1>2. /\ Unlocked(t) /\ UNCHANGED <<calls, requests, responses>>
      /\ IF Link(t) \in Connection THEN Disconnect(Link(t)) ELSE UNCHANGED vars
  BY DEF HangUp
<1>3. Leaves(t, NoConnection, FALSE, Evaluator(t).epoch, Evaluator(t).holder)
  BY <1>1, ConnectLeaves
<1>4. /\ \A d \in Connection : d # Link(t) => connections'[d] = connections[d]
      /\ Link(t) \in Connection =>
            /\ connections'[Link(t)].socket = "closed"
            /\ connections'[Link(t)].pc = connections[Link(t)].pc
            /\ connections'[Link(t)].answer = connections[Link(t)].answer
      /\ status' = status
  <2>1. CASE Link(t) \in Connection
    BY <1>1, <1>2, <2>1, DisconnectIs
  <2>2. CASE Link(t) \notin Connection
    BY <1>2, <2>2 DEF vars, process
  <2>3. QED  BY <2>1, <2>2
<1>5. ASSUME NEW w \in Worker PROVE LinkStands(w)'
  <2>1. ASSUME NEW v \in Worker, v # WorkerOf[t], evaluators[v].link \in Connection
        PROVE  connections'[evaluators[v].link].socket = "open"
    <3>1. evaluators[v].link # Link(t)
      BY <1>1, <2>1 DEF LinkStands, Link, Evaluator
    <3>2. QED  BY <1>1, <1>4, <2>1, <3>1 DEF LinkStands
  <2>2. QED  BY <1>1, <1>3, <2>1, DeploymentFacts, LinksLeft
<1>6. ASSUME NEW d \in Connection PROVE RestStands(d)' /\ Exclusive(d)'
  <2>1. CASE d = Link(t)
    <3>1. requests'[d] = NoFrame /\ responses'[d] = NoFrame
      BY <1>2, <2>1, UnlockedIsIdle DEF Occupied
    <3>2. QED  BY <1>1, <1>4, <2>1, <3>1 DEF RestStands, Exclusive
  <2>2. CASE d # Link(t)
    <3>1. \A u \in Caller : Owns(u, d) => Owns(u, d)'
      BY <1>1, <1>2, <1>3, <2>2, OthersOwn
    <3>2. connections'[d] = connections[d] /\ RestStands(d) /\ Exclusive(d)
      BY <1>1, <1>4, <2>2
    <3>3. QED  BY <1>2, <3>1, <3>2, ExclusiveKept DEF RestStands
  <2>3. QED  BY <2>1, <2>2
<1>7. QED  BY <1>4, <1>5, <1>6 DEF FrameInv, FramesStand, ClosedByStop

\* A step of a thread that is none of the coordinator's, and touches its own link alone.
LEMMA LocalFrames ==
    ASSUME FrameInv, NEW t \in Caller, NEW link, NEW registered, NEW bound, NEW holder,
           Leaves(t, link, registered, bound, holder), UNCHANGED vars,
           link \in {Link(t), Broken}, registered => link # NoConnection,
           \A u \in Caller : u # t => calls'[u] = calls[u],
           \A d \in Connection :
              d # Link(t) => requests'[d] = requests[d] /\ responses'[d] = responses[d],
           \A d \in Connection : d = Link(t) => Exclusive(d)'
    PROVE  FramesStand'
<1>1. /\ EvaluatorTypes /\ WorkerOf[t] \in Worker
      /\ \A w \in Worker : LinkStands(w)
      /\ \A d \in Connection : RestStands(d) /\ Exclusive(d)
  BY DeploymentFacts DEF FrameInv, SentInv
<1>2. connections' = connections /\ status' = status
  BY DEF vars, process
<1>3. ASSUME NEW w \in Worker PROVE LinkStands(w)'
  <2>1. link \in Connection =>
           /\ connections'[link].socket = "open"
           /\ \A v \in Worker : v # WorkerOf[t] => evaluators[v].link # link
    BY <1>1, <1>2, DeploymentFacts DEF LinkStands, Link, Evaluator
  <2>2. \A v \in Worker : evaluators[v].link \in Connection =>
            connections'[evaluators[v].link].socket = "open"
    BY <1>1, <1>2 DEF LinkStands
  <2>3. QED  BY <1>1, <2>1, <2>2, LinksLeft
<1>4. ASSUME NEW d \in Connection PROVE RestStands(d)' /\ Exclusive(d)'
  <2>1. RestStands(d)'
    BY <1>1, <1>2 DEF RestStands
  <2>2. CASE d # Link(t)
    <3>1. \A u \in Caller : Owns(u, d) => Owns(u, d)'
      BY <1>1, <2>2, OthersOwn
    <3>2. QED  BY <1>1, <1>2, <2>1, <2>2, <3>1, ExclusiveKept
  <2>3. QED  BY <2>1, <2>2
<1>5. QED  BY <1>2, <1>3, <1>4 DEF FrameInv, FramesStand, ClosedByStop

\* With nothing on its link, a thread's own step leaves it exclusive.
LEMMA IdleLink ==
    ASSUME FrameInv, NEW t \in Caller, Unlocked(t), NEW c \in Connection, c = Link(t),
           UNCHANGED vars, requests'[c] = requests[c], responses'[c] = responses[c]
    PROVE  Exclusive(c)'
<1>1. connections[c].socket = "open" /\ ~Occupied(c)
  BY UnlockedIsIdle
<1>2. connections' = connections
  BY DEF vars
<1>3. QED  BY <1>1, <1>2 DEF Exclusive, Occupied

LEMMA LocalStepFrames ==
    ASSUME FrameInv, NEW t \in Caller,
           \/ ConnectInVain(t) \/ Evaluate(t) \/ GiveUp(t) \/ Answered(t) \/ Fail(t)
           \/ Publish(t) \/ RegisterWorker(t) \/ Query(t) \/ RevokePath(t)
    PROVE  FramesStand'
<1>1. /\ EvaluatorTypes /\ WorkerOf[t] \in Worker /\ CallStands(t)
      /\ \A w \in Worker : LinkStands(w)
      /\ \A d \in Connection : Exclusive(d)
      /\ calls \in [Caller -> CallType] /\ requests \in [Connection -> FrameType]
      /\ responses \in [Connection -> {NoFrame, Dropped} \cup ResponseType]
  BY DeploymentFacts DEF FrameInv, SentInv, EvaluatorTypes
<1>2. Evaluator(t).registered => Link(t) # NoConnection
  BY <1>1 DEF LinkStands, Link, Evaluator
<1>3. CASE ConnectInVain(t)
  <2>1. /\ Leaves(t, Broken, Evaluator(t).registered, Evaluator(t).epoch, Evaluator(t).holder)
        /\ UNCHANGED <<vars, calls, requests, responses>> /\ Link(t) \notin Connection
    BY <1>1, <1>3, ConnectLeaves, DeploymentFacts DEF ConnectInVain, CanConnect
  <2>2. QED  BY <2>1, DeploymentFacts, LocalFrames
\* A thread whose call changes is not an owner, when no answer is taken.
<1>4. ASSUME NEW link, NEW registered, NEW bound, NEW holder,
             Leaves(t, link, registered, bound, holder), UNCHANGED <<vars, requests, responses>>,
             link = Link(t), calls[t].pc # "sent", holder = Evaluator(t).holder,
             \A u \in Caller : u # t => calls'[u] = calls[u],
             NEW c \in Connection, c = Link(t)
      PROVE  Exclusive(c)'
  <2>1. ASSUME NEW u \in Caller, Owns(u, c) PROVE Owns(u, c)'
    <3>1. u # t
      BY <1>4, <2>1 DEF Owns
    <3>2. WorkerOf[u] = WorkerOf[t]
      BY <1>1, <1>4, <2>1, DeploymentFacts DEF LinkStands, Owns, Link, Evaluator
    <3>3. QED  BY <1>4, <2>1, <3>1, <3>2 DEF Owns, Leaves, Link, Evaluator
  <2>2. connections' = connections
    BY <1>4 DEF vars
  <2>3. QED  BY <1>1, <1>4, <2>1, <2>2, ExclusiveKept
<1>5. CASE Evaluate(t)
  <2>1. PICK r : calls' = [calls EXCEPT ![t] = [pc |-> "decided", request |-> r]]
    BY <1>1, <1>5, EvaluateLeaves
  <2>2. /\ Leaves(t, Link(t), Evaluator(t).registered, Evaluator(t).epoch, Evaluator(t).holder)
        /\ UNCHANGED <<vars, requests, responses>> /\ calls[t].pc # "sent"
    BY <1>1, <1>5, EvaluateLeaves DEF Evaluate
  <2>3. \A u \in Caller : u # t => calls'[u] = calls[u]
    BY <1>1, <2>1
  <2>4. \A c \in Connection : c = Link(t) => Exclusive(c)'
    BY <1>4, <2>2, <2>3
  <2>5. QED  BY <1>2, <2>2, <2>3, <2>4, LocalFrames
<1>6. CASE GiveUp(t)
  <2>1. /\ UNCHANGED <<vars, evaluators, requests, responses>> /\ calls[t].pc # "sent"
        /\ calls' = [calls EXCEPT ![t] = NoCall]
    BY <1>6 DEF GiveUp, Return
  <2>2. \A u \in Caller : u # t => calls'[u] = calls[u]
    BY <1>1, <2>1
  <2>3. Leaves(t, Link(t), Evaluator(t).registered, Evaluator(t).epoch, Evaluator(t).holder)
    BY <1>1, <2>1 DEF Leaves, EvaluatorTypes, Link, Evaluator
  <2>4. \A c \in Connection : c = Link(t) => Exclusive(c)'
    BY <1>4, <2>1, <2>2, <2>3
  <2>5. QED  BY <1>2, <2>1, <2>2, <2>3, <2>4, LocalFrames
<1>7. CASE Fail(t)
  <2>1. /\ Link(t) = Broken /\ UNCHANGED <<vars, requests, responses>>
        /\ \A u \in Caller : u # t => calls'[u] = calls[u]
    BY <1>1, <1>7, FailLeaves
  <2>2. \E holder : Leaves(t, Link(t), Evaluator(t).registered, Evaluator(t).epoch, holder)
    <3>1. CASE UNCHANGED evaluators
      <4>1. Leaves(t, Link(t), Evaluator(t).registered, Evaluator(t).epoch,
                   Evaluator(t).holder)
        BY <1>1, <3>1 DEF Leaves, EvaluatorTypes, Link, Evaluator
      <4>2. QED  BY <4>1
    <3>2. QED  BY <1>1, <1>7, <3>1, FailLeaves
  <2>3. QED  BY <1>2, <2>1, <2>2, DeploymentFacts, LocalFrames
<1>8. CASE Answered(t)
  <2>1. /\ Link(t) \in Connection /\ UNCHANGED <<vars, requests>>
        /\ calls' = [calls EXCEPT ![t] = NoCall]
        /\ responses' = [responses EXCEPT ![Link(t)] = NoFrame]
        /\ \E registered, bound : Leaves(t, Link(t), registered, bound, NoCaller)
    BY <1>1, <1>8, AnsweredLeaves
  <2>2. responses[Link(t)] # NoFrame /\ connections' = connections
    BY <1>8, <2>1 DEF Answered, vars
  <2>3. connections[Link(t)].socket = "open"
    BY <1>1, <2>1 DEF LinkStands, Link, Evaluator
  <2>4. ASSUME NEW c \in Connection, c = Link(t) PROVE Exclusive(c)'
    <3>1. requests[c] = NoFrame /\ connections[c].pc = "receive"
      BY <1>1, <2>2, <2>3, <2>4 DEF Exclusive
    <3>2. requests'[c] = NoFrame /\ responses'[c] = NoFrame
      BY <1>1, <2>1, <2>4, <3>1
    <3>3. QED  BY <2>2, <3>1, <3>2 DEF Exclusive, Occupied
  <2>5. \A u \in Caller : u # t => calls'[u] = calls[u]
    BY <1>1, <2>1
  <2>6. \A d \in Connection : d # Link(t) => requests'[d] = requests[d] /\ responses'[d] = responses[d]
    BY <1>1, <2>1
  <2>7. Link(t) # NoConnection
    BY <2>1, DeploymentFacts
  <2>8. QED  BY <2>1, <2>4, <2>5, <2>6, <2>7, LocalFrames
<1>9. CASE Publish(t) \/ RegisterWorker(t) \/ Query(t) \/ RevokePath(t)
  <2>1. PICK r : Send(t, r)
    BY <1>1, <1>9, SendsOwn
  <2>2. /\ Leaves(t, Link(t), Evaluator(t).registered, Evaluator(t).epoch, t)
        /\ Unlocked(t) /\ UNCHANGED <<vars, responses>>
        /\ calls' = [calls EXCEPT ![t] = [pc |-> "sent", request |-> r]]
        /\ requests' = IF Link(t) = Broken THEN requests ELSE [requests EXCEPT ![Link(t)] = r]
    BY <1>1, <2>1, SendLeaves
  <2>3. ASSUME NEW c \in Connection, c = Link(t) PROVE Exclusive(c)'
    <3>1. /\ connections[c].socket = "open" /\ connections' = connections
          /\ responses[c] = NoFrame /\ connections[c].pc = "receive"
      BY <2>2, <2>3, UnlockedIsIdle DEF Occupied, vars
    <3>2. Owns(t, c)'
      BY <1>1, <2>2, <2>3 DEF Owns, Leaves, Link, Evaluator
    <3>3. QED  BY <2>2, <3>1, <3>2 DEF Exclusive
  <2>4. \A u \in Caller : u # t => calls'[u] = calls[u]
    BY <1>1, <2>2
  <2>5. \A d \in Connection : d # Link(t) => requests'[d] = requests[d]
    BY <1>1, <2>2
  <2>6. QED  BY <1>2, <2>2, <2>3, <2>4, <2>5, LocalFrames
<1>10. QED  BY <1>3, <1>5, <1>6, <1>7, <1>8, <1>9

\* A step of the coordinator that leaves the evaluators alone.
LEMMA ServedFrames ==
    ASSUME FrameInv, UNCHANGED <<evaluators, calls, status>>,
           NEW c \in Connection,
           \A d \in Connection : d # c =>
              /\ connections'[d] = connections[d]
              /\ requests'[d] = requests[d] /\ responses'[d] = responses[d],
           connections[c].socket = "open" <=> connections'[c].socket = "open",
           RestStands(c)', Exclusive(c)'
    PROVE  FramesStand'
<1>1. /\ \A w \in Worker : LinkStands(w)
      /\ \A d \in Connection : RestStands(d) /\ Exclusive(d)
  BY DEF FrameInv
<1>2. ASSUME NEW d \in Connection PROVE RestStands(d)' /\ Exclusive(d)'
  <2>1. CASE d # c
    <3>1. \A u \in Caller : Owns(u, d) => Owns(u, d)'
      BY DEF Owns, Link, Evaluator
    <3>2. connections'[d] = connections[d] /\ RestStands(d) /\ Exclusive(d)
      BY <1>1, <2>1
    <3>3. QED  BY <2>1, <3>1, <3>2, ExclusiveKept DEF RestStands
  <2>2. QED  BY <2>1
<1>3. ASSUME NEW w \in Worker PROVE LinkStands(w)'
  <2>1. LinkStands(w)
    BY <1>1
  <2>2. evaluators[w].link \in Connection => connections'[evaluators[w].link].socket = "open"
    BY <2>1 DEF LinkStands
  <2>3. QED  BY <2>1, <2>2 DEF LinkStands
<1>4. ClosedByStop'
  BY DEF FrameInv, ClosedByStop
<1>5. QED  BY <1>2, <1>3, <1>4 DEF FramesStand

LEMMA ServeNowFrames ==
    ASSUME FrameInv, NEW c \in Connection, ServeNow(c) \/ Serve(c)
    PROVE  FramesStand'
<1>1. /\ SentInv /\ TypeOK /\ Exclusive(c) /\ RestStands(c)
      /\ requests \in [Connection -> FrameType]
      /\ responses \in [Connection -> {NoFrame, Dropped} \cup ResponseType]
  BY DEF FrameInv, SentInv, Base, EvaluatorTypes
<1>2. /\ connections[c].socket = "open" /\ connections[c].pc = "receive" /\ status = "running"
      /\ requests[c] # NoFrame
  BY <1>1, ServeNowIs, ServeIs DEF Receives, Arrived, At, Receive
<1>3. responses[c] = NoFrame /\ \E t \in Caller : Owns(t, c)
  BY <1>1, <1>2 DEF Exclusive, Occupied
<1>4. connections[c].answer = NoAnswer
  BY <1>1, <1>2 DEF RestStands
<1>5. CASE ServeNow(c)
  <2>1. /\ requests' = [requests EXCEPT ![c] = NoFrame]
        /\ \E r : responses' = [responses EXCEPT ![c] = r]
        /\ UNCHANGED <<evaluators, calls>>
        /\ Register(c, requests[c].publisher, requests[c].worker) \/ UNCHANGED vars
    BY <1>1, <1>5, ServeNowIs
  <2>2. /\ \A d \in Connection : d # c => connections'[d] = connections[d]
        /\ connections'[c].socket = "open" /\ connections'[c].pc = "receive"
        /\ connections'[c].answer = NoAnswer /\ status' = status
    <3>1. CASE UNCHANGED vars
      BY <1>2, <1>4, <3>1 DEF vars, process
    <3>2. CASE Register(c, requests[c].publisher, requests[c].worker)
      <4> DEFINE fields == [workers |-> connections[c].workers \cup {requests[c].worker}]
      <4>1. Set(c, fields) /\ status' = status
        BY <3>2 DEF Register, process
      <4>2. DOMAIN fields = {"workers"}
        OBVIOUS
      <4> HIDE DEF fields
      <4>3. QED  BY <1>1, <1>2, <1>4, <4>1, <4>2, SetFields, SetOthers
    <3>3. QED  BY <2>1, <3>1, <3>2
  <2>3. \E t \in Caller : Owns(t, c)'
    BY <1>3, <2>1 DEF Owns, Link, Evaluator
  <2>4. requests'[c] = NoFrame
    BY <1>1, <2>1
  <2>5. Exclusive(c)' /\ RestStands(c)'
    BY <2>2, <2>3, <2>4 DEF Exclusive, RestStands
  <2>6. \A d \in Connection : d # c => requests'[d] = requests[d] /\ responses'[d] = responses[d]
    BY <1>1, <2>1
  <2>7. QED  BY <1>2, <2>1, <2>2, <2>5, <2>6, ServedFrames
<1>6. CASE Serve(c)
  <2>1. /\ requests' = [requests EXCEPT ![c] = NoFrame] /\ Receive(c, requests[c])
        /\ UNCHANGED <<evaluators, calls, responses>>
    BY <1>1, <1>6, ServeIs
  <2>2. /\ \A d \in Connection : d # c => connections'[d] = connections[d]
        /\ connections'[c].socket = "open" /\ connections'[c].pc = "registered"
        /\ connections'[c].answer = NoAnswer /\ status' = status
    <3> DEFINE fields == [pc |-> "registered", request |-> requests[c]]
    <3>1. Set(c, fields) /\ status' = status
      BY <2>1 DEF Receive, process
    <3>2. DOMAIN fields = {"pc", "request"} /\ fields["pc"] = "registered"
      OBVIOUS
    <3> HIDE DEF fields
    <3>3. QED  BY <1>1, <1>2, <1>4, <3>1, <3>2, SetFields, SetOthers
  <2>3. \E t \in Caller : Owns(t, c)'
    BY <1>3, <2>1 DEF Owns, Link, Evaluator
  <2>4. requests'[c] = NoFrame /\ responses'[c] = NoFrame
    BY <1>1, <1>3, <2>1
  <2>5. Exclusive(c)' /\ RestStands(c)'
    BY <2>2, <2>3, <2>4 DEF Exclusive, RestStands
  <2>6. \A d \in Connection : d # c => requests'[d] = requests[d] /\ responses'[d] = responses[d]
    BY <1>1, <2>1
  <2>7. QED  BY <1>2, <2>1, <2>2, <2>5, <2>6, ServedFrames
<1>7. QED  BY <1>5, <1>6

\* A handler does not change whether a process runs.
LEMMA HandleStatus ==
    ASSUME NEW c \in Connection, Handle(c)
    PROVE  status' = status
BY DEF Handle, Refuse, AcceptPublication, AcceptRevocation, Commit, ReplayCommit, RejectCommit,
       Revoke, RejectRevoke, Fence, Leave, Withdraw, Export, Gather, Write, process

\* No evaluator is linked to a connection that is not open, so that cutting it off
\* changes nothing.
LEMMA CutNone ==
    ASSUME FrameInv, NEW c \in Connection, connections[c].socket # "open", Cut({c})
    PROVE  evaluators' = evaluators
<1>1. evaluators \in [Worker -> EvaluatorType]
  BY DEF FrameInv, SentInv, EvaluatorTypes
<1>2. ASSUME NEW w \in Worker PROVE evaluators'[w] = evaluators[w]
  <2>1. evaluators[w] \in EvaluatorType /\ evaluators[w].link # c
    BY <1>1 DEF FrameInv, LinkStands
  <2>2. evaluators'[w] = [evaluators[w] EXCEPT !.link = evaluators[w].link]
    BY <2>1 DEF Cut
  <2>3. QED  BY <2>1, <2>2 DEF EvaluatorType
<1>3. evaluators' = [w \in Worker |-> evaluators'[w]]
  BY DEF Cut
<1>4. QED  BY <1>1, <1>2, <1>3

LEMMA HandleFrames ==
    ASSUME FrameInv, NEW c \in Connection, HandleStep(c)
    PROVE  /\ FramesStand' /\ evaluators' = evaluators /\ calls' = calls
           /\ \A d \in Connection : d # c =>
                 /\ connections'[d] = connections[d]
                 /\ requests'[d] = requests[d] /\ responses'[d] = responses[d]
<1>1. /\ SentInv /\ TypeOK /\ Exclusive(c) /\ RestStands(c)
      /\ requests \in [Connection -> FrameType]
      /\ responses \in [Connection -> {NoFrame, Dropped} \cup ResponseType]
  BY DEF FrameInv, SentInv, Base, EvaluatorTypes
<1>2. Handle(c) /\ calls' = calls
  BY <1>1, HandleStepIs
<1>3. Proceeds(c) /\ status' = status
  BY <1>1, <1>2, HandleProceeds, HandleStatus
<1>4. \A d \in Connection : d # c => connections'[d] = connections[d]
  BY <1>3 DEF Proceeds
<1>5. connections[c].socket \notin {"free", "finished"}
  BY <1>1, <1>3 DEF Proceeds, RestStands
<1>6. CASE connections'[c].socket = "finished"
  <2>1. connections[c].socket = "closed" /\ connections'[c].pc = "receive"
    BY <1>3, <1>5, <1>6 DEF Proceeds
  <2>2. Cut({c}) /\ requests' = [requests EXCEPT ![c] = NoFrame]
    BY <1>1, <1>6, HandleStepIs
  <2>3. connections[c].answer = NoAnswer /\ connections[c].pc = "receive"
    BY <1>1, <1>3, <1>5, <1>6 DEF Proceeds, RestStands
  <2>4. responses' = [responses EXCEPT ![c] = NoFrame]
    BY <1>1, <1>6, <2>3, HandleStepIs
  <2>5. evaluators' = evaluators
    BY <2>1, <2>2, CutNone
  <2>6. requests'[c] = NoFrame /\ responses'[c] = NoFrame
    BY <1>1, <2>2, <2>4
  <2>7. Exclusive(c)' /\ RestStands(c)'
    BY <1>3, <1>6, <2>6 DEF Exclusive, Proceeds
  <2>8. \A d \in Connection : d # c => requests'[d] = requests[d] /\ responses'[d] = responses[d]
    BY <1>1, <2>2, <2>4
  <2>9. connections[c].socket = "open" <=> connections'[c].socket = "open"
    BY <1>6, <2>1
  <2>10. FramesStand'
    BY <1>2, <1>3, <1>4, <2>5, <2>7, <2>8, <2>9, ServedFrames
  <2>11. QED  BY <1>2, <1>4, <2>5, <2>8, <2>10
<1>7. CASE connections'[c].socket # "finished"
  <2>1. connections'[c].socket = connections[c].socket
    BY <1>3, <1>7 DEF Proceeds
  <2>2. UNCHANGED <<evaluators, requests>>
    BY <1>1, <1>7, HandleStepIs
  <2>3. \/ /\ connections'[c].pc = "receive"
           /\ \E r : responses' = [responses EXCEPT ![c] = r]
        \/ UNCHANGED responses
    BY <1>1, <1>7, HandleStepIs
  <2>4. Exclusive(c)'
    <3>1. CASE connections[c].socket = "open"
      <4>1. connections[c].pc # "receive"
        BY <1>3, <3>1 DEF Proceeds
      <4>2. requests[c] = NoFrame /\ responses[c] = NoFrame /\ \E t \in Caller : Owns(t, c)
        BY <1>1, <3>1, <4>1 DEF Exclusive, Occupied
      <4>3. \E t \in Caller : Owns(t, c)'
        BY <1>2, <2>2, <4>2 DEF Owns, Link, Evaluator
      <4>4. requests'[c] = NoFrame /\ (responses'[c] # NoFrame => connections'[c].pc = "receive")
        BY <1>1, <2>2, <2>3, <4>2
      <4>5. QED  BY <2>1, <3>1, <4>3, <4>4 DEF Exclusive
    <3>2. CASE connections[c].socket # "open"
      BY <1>1, <1>5, <2>1, <2>2, <3>2 DEF Exclusive
    <3>3. QED  BY <3>1, <3>2
  <2>5. RestStands(c)'
    BY <1>3 DEF Proceeds
  <2>6. \A d \in Connection : d # c => requests'[d] = requests[d] /\ responses'[d] = responses[d]
    BY <1>1, <2>2, <2>3
  <2>7. QED  BY <1>1, <1>2, <1>3, <1>4, <2>1, <2>2, <2>4, <2>5, <2>6, ServedFrames
<1>8. QED  BY <1>6, <1>7

LEMMA FaultFrames ==
    ASSUME FrameInv, NEW c \in Connection,
           \/ Reap(c) /\ UNCHANGED evaluator
           \/ Lose(c)
    PROVE  FramesStand'
<1>1. /\ TypeOK /\ Exclusive(c) /\ RestStands(c)
      /\ requests \in [Connection -> FrameType]
      /\ responses \in [Connection -> {NoFrame, Dropped} \cup ResponseType]
      /\ connections \in [Connection -> ConnectionType]
  BY DEF FrameInv, SentInv, Base, EvaluatorTypes, TypeOK
<1>2. CASE Reap(c) /\ UNCHANGED evaluator
  <2>1. /\ UNCHANGED <<evaluators, calls, requests, responses>> /\ status' = status
        /\ connections[c].socket = "finished"
        /\ connections' = [connections EXCEPT ![c] = Free]
    BY <1>2 DEF Reap, evaluator, process
  <2>2. connections'[c] = Free /\ \A d \in Connection : d # c => connections'[d] = connections[d]
    BY <1>1, <2>1
  <2>3. requests[c] = NoFrame /\ responses[c] = NoFrame
    BY <1>1, <2>1 DEF Exclusive
  <2>4. Free.socket = "free" /\ Free.pc = "receive" /\ Free.answer = NoAnswer
    BY DEF Free
  <2>5. Exclusive(c)' /\ RestStands(c)'
    BY <2>1, <2>2, <2>3, <2>4 DEF Exclusive, RestStands
  <2>6. QED  BY <2>1, <2>2, <2>4, <2>5, ServedFrames
<1>3. CASE Lose(c)
  <2>1. /\ UNCHANGED <<evaluators, calls>> /\ connections' = connections /\ status' = status
        /\ \/ requests[c] # NoFrame /\ requests' = [requests EXCEPT ![c] = Dropped]
              /\ responses' = responses
           \/ responses[c] # NoFrame /\ responses' = [responses EXCEPT ![c] = Dropped]
              /\ requests' = requests
    BY <1>3 DEF Lose, Arrived, vars, process
  <2>2. \A t \in Caller : Owns(t, c) => Owns(t, c)'
    BY <2>1 DEF Owns, Link, Evaluator
  <2>3. Exclusive(c)'
    BY <1>1, <2>1, <2>2 DEF Exclusive, Occupied
  <2>4. RestStands(c)'
    BY <1>1, <2>1 DEF RestStands
  <2>5. \A d \in Connection : d # c => requests'[d] = requests[d] /\ responses'[d] = responses[d]
    BY <1>1, <2>1
  <2>6. QED  BY <1>1, <2>1, <2>3, <2>4, <2>5, ServedFrames
<1>4. QED  BY <1>2, <1>3

LEMMA CutLinks ==
    ASSUME FrameInv, NEW closed \in SUBSET Connection, Cut(closed),
           \A d \in Connection \ closed : connections'[d] = connections[d], NEW w \in Worker
    PROVE  LinkStands(w)'
<1>1. EvaluatorTypes /\ \A v \in Worker : LinkStands(v)
  BY DEF FrameInv, SentInv
<1>2. \A v \in Worker :
        /\ evaluators'[v].link = IF evaluators[v].link \in closed THEN Broken
                                 ELSE evaluators[v].link
        /\ evaluators'[v].registered = evaluators[v].registered
  BY <1>1, CutIs
<1>3. CASE evaluators[w].link \in closed
  BY <1>1, <1>2, <1>3, DeploymentFacts DEF LinkStands
<1>4. CASE evaluators[w].link \notin closed
  <2>1. evaluators'[w].link = evaluators[w].link /\ LinkStands(w)
    BY <1>1, <1>2, <1>4
  <2>2. ASSUME NEW v \in Worker, evaluators[w].link \in Connection,
               evaluators'[v].link = evaluators[w].link
        PROVE  v = w
    <3>1. evaluators[v].link \notin closed
      BY <1>2, <2>2, DeploymentFacts
    <3>2. QED  BY <1>2, <2>1, <2>2, <3>1 DEF LinkStands
  <2>3. QED  BY <1>2, <1>4, <2>1, <2>2 DEF LinkStands
<1>5. QED  BY <1>3, <1>4

LEMMA BreakFrames ==
    ASSUME FrameInv, NEW c \in Connection, Break(c)
    PROVE  FramesStand'
<1>1. /\ TypeOK /\ EvaluatorTypes /\ ClosedByStop
      /\ requests \in [Connection -> FrameType]
      /\ responses \in [Connection -> {NoFrame, Dropped} \cup ResponseType]
      /\ \A d \in Connection : RestStands(d) /\ Exclusive(d)
  BY DEF FrameInv, SentInv, Base, EvaluatorTypes
<1>2. /\ Disconnect(c) /\ Cut({c}) /\ calls' = calls
      /\ requests' = [requests EXCEPT ![c] = NoFrame]
      /\ responses' = [responses EXCEPT ![c] = NoFrame]
  BY DEF Break
<1>3. /\ \A d \in Connection : d # c => connections'[d] = connections[d]
      /\ connections'[c].socket = "closed"
      /\ connections'[c].pc = connections[c].pc
      /\ connections'[c].answer = connections[c].answer
      /\ status' = status
  BY <1>1, <1>2, DisconnectIs
<1>4. ASSUME NEW w \in Worker PROVE LinkStands(w)'
  BY <1>2, <1>3, CutLinks
<1>5. ASSUME NEW d \in Connection PROVE RestStands(d)' /\ Exclusive(d)'
  <2>1. CASE d = c
    <3>1. requests'[c] = NoFrame
      BY <1>1, <1>2
    <3>2. QED  BY <1>1, <1>3, <2>1, <3>1 DEF RestStands, Exclusive
  <2>2. CASE d # c
    <3>1. \A w \in Worker :
            /\ evaluators'[w].link = IF evaluators[w].link \in {c} THEN Broken
                                     ELSE evaluators[w].link
            /\ evaluators'[w].holder = evaluators[w].holder
      BY <1>1, <1>2, CutIs
    <3>2. \A u \in Caller : Owns(u, d) => Owns(u, d)'
      BY <1>2, <2>2, <3>1, DeploymentFacts DEF Owns, Link, Evaluator
    <3>3. /\ connections'[d] = connections[d] /\ RestStands(d) /\ Exclusive(d)
          /\ requests'[d] = requests[d] /\ responses'[d] = responses[d]
      BY <1>1, <1>2, <1>3, <2>2
    <3>4. QED  BY <3>2, <3>3, ExclusiveKept DEF RestStands
  <2>3. QED  BY <2>1, <2>2
<1>6. QED  BY <1>1, <1>3, <1>4, <1>5 DEF FramesStand, ClosedByStop

LEMMA EveryBreakFrames ==
    ASSUME FrameInv, EveryBreak, Crash \/ Stop
    PROVE  FramesStand'
<1>1. /\ Cut(Connection)
      /\ requests' = [c \in Connection |-> NoFrame]
      /\ responses' = [c \in Connection |-> NoFrame]
  BY DEF EveryBreak
<1>2. ASSUME NEW w \in Worker PROVE LinkStands(w)'
  BY <1>1, CutLinks
<1>3. ASSUME NEW c \in Connection, RestStands(c)', connections'[c].socket # "open"
      PROVE  Exclusive(c)'
  BY <1>1, <1>3 DEF Exclusive
<1>4. CASE Crash
  <2>1. Free.socket = "free" /\ Free.pc = "receive" /\ Free.answer = NoAnswer
    BY DEF Free
  <2>2. status' = "down" /\ \A c \in Connection : connections'[c] = Free
    BY <1>4 DEF Crash
  <2>3. ASSUME NEW c \in Connection PROVE RestStands(c)' /\ Exclusive(c)'
    BY <1>3, <2>1, <2>2 DEF RestStands
  <2>4. QED  BY <1>2, <2>2, <2>3 DEF FramesStand, ClosedByStop
<1>5. CASE Stop
  <2>1. ASSUME NEW c \in Connection
        PROVE  /\ connections'[c].pc = connections[c].pc
               /\ connections'[c].answer = connections[c].answer
               /\ connections'[c].socket = IF connections[c].socket = "open" THEN "closed"
                                           ELSE connections[c].socket
    <3>1. connections[c] \in ConnectionType
      BY DEF FrameInv, SentInv, Base, TypeOK
    <3>2. connections'[c] = [connections[c] EXCEPT
                                !.socket = IF @ = "open" THEN "closed" ELSE @]
      BY <1>5 DEF Stop
    <3>3. QED  BY <3>1, <3>2 DEF ConnectionType
  <2>2. ASSUME NEW c \in Connection PROVE RestStands(c)' /\ Exclusive(c)'
    BY <1>3, <2>1 DEF FrameInv, RestStands
  <2>3. ClosedByStop'
    BY <2>1 DEF ClosedByStop
  <2>4. QED  BY <1>2, <2>2, <2>3 DEF FramesStand
<1>6. QED  BY <1>4, <1>5

LEMMA StartFrames ==
    ASSUME FrameInv, Start, UNCHANGED evaluator
    PROVE  FramesStand'
<1>1. /\ status' = "running" /\ connections' = connections
      /\ UNCHANGED <<evaluators, calls, requests, responses>>
  BY DEF Start, evaluator
<1>2. QED
  BY <1>1 DEF FrameInv, FramesStand, ClosedByStop, LinkStands, RestStands, Exclusive, Occupied,
              Owns, Link, Evaluator

LEMMA FrameStep == FrameInv /\ [SystemNext]_system => FrameInv'
<1> SUFFICES ASSUME FrameInv, [SystemNext]_system PROVE FrameInv'
  OBVIOUS
<1>1. SentInv'
  BY SentStep DEF FrameInv
<1>2. CASE UNCHANGED system
  BY <1>1, <1>2 DEF FrameInv, ClosedByStop, system, evaluator, vars, process, LinkStands,
                    RestStands, Exclusive, Occupied, Owns, Link, Evaluator
<1>3. ASSUME NEW t \in Caller, Call(t) \/ Continue(t) PROVE FramesStand'
  BY <1>3, ConnectFrames, HangUpFrames, LocalStepFrames DEF Call, Continue
<1>4. ASSUME NEW c \in Connection,
             \/ CoordinatorStep(c) \/ (Reap(c) /\ UNCHANGED evaluator) \/ Break(c) \/ Lose(c)
      PROVE  FramesStand'
  BY <1>4, ServeNowFrames, HandleFrames, FaultFrames, BreakFrames DEF CoordinatorStep
<1>5. CASE SystemNext
  <2>1. FramesStand'
    BY <1>3, <1>4, <1>5, EveryBreakFrames, StartFrames
    DEF SystemNext, CoordinatorCrash, CoordinatorStop
  <2>2. QED  BY <1>1, <2>1 DEF FramesStand, FrameInv
<1>6. QED  BY <1>2, <1>5

LEMMA SystemInitFrames == SystemInit => FrameInv
<1> SUFFICES ASSUME SystemInit PROVE FrameInv
  OBVIOUS
<1>1. SentInv /\ status = "down"
  BY SystemInitSent DEF SystemInit, Init
<1>2. ASSUME NEW w \in Worker PROVE LinkStands(w)
  BY DeploymentFacts DEF SystemInit, Disconnected, LinkStands
<1>3. ASSUME NEW c \in Connection PROVE RestStands(c) /\ Exclusive(c)
  <2>1. connections[c].socket = "free" /\ connections[c].pc = "receive"
        /\ connections[c].answer = NoAnswer
    BY DEF SystemInit, Init, Free
  <2>2. requests[c] = NoFrame /\ responses[c] = NoFrame
    BY DEF SystemInit
  <2>3. QED  BY <2>1, <2>2 DEF RestStands, Exclusive
<1>4. QED  BY <1>1, <1>2, <1>3 DEF FrameInv, ClosedByStop

LEMMA SystemFrames == SystemSpec => []FrameInv
BY SystemInitFrames, FrameStep, PTL DEF SystemSpec

\* Evaluators, their threads and the frames between them and the coordinator keep their
\* types, and what is on its way to a coordinator is on its way to one that runs.
THEOREM SystemTypeCorrect == SystemSpec => []SystemTypeOK
<1>1. FrameInv => SystemTypeOK
  <2> SUFFICES ASSUME FrameInv PROVE SystemTypeOK
    OBVIOUS
  <2>1. TypeOK /\ DownIsEmpty /\ EvaluatorTypes
    BY DEF FrameInv, SentInv, Base
  <2>2. ASSUME NEW c \in Connection, requests[c] # NoFrame PROVE status = "running"
    <3>1. connections[c].socket = "open"
      BY <2>2 DEF FrameInv, Exclusive
    <3>2. connections[c] # Free
      BY <3>1 DEF Free
    <3>3. QED  BY <2>1, <3>1, <3>2 DEF FrameInv, ClosedByStop, DownIsEmpty, TypeOK
  <2>3. QED  BY <2>1, <2>2 DEF SystemTypeOK, EvaluatorTypes, FrameType
<1>2. QED  BY <1>1, SystemFrames, PTL

\* exchange(): a request, its answer and the thread that serves it are of the one call
\* that holds the mutex, so that no call takes the answer of another.
THEOREM FramesAlwaysHaveAnOwner == SystemSpec => []FramesHaveAnOwner
<1>1. FrameInv => FramesHaveAnOwner
  <2> SUFFICES ASSUME FrameInv, NEW c \in Connection,
                      \/ requests[c] # NoFrame
                      \/ responses[c] # NoFrame /\ connections[c].socket = "open"
               PROVE  /\ \E t \in Caller : Owns(t, c)
                      /\ requests[c] = NoFrame \/ responses[c] = NoFrame
    BY DEF FramesHaveAnOwner, Owns
  <2>1. connections[c].socket = "open"
    BY DEF FrameInv, Exclusive
  <2>2. QED  BY <2>1 DEF FrameInv, Exclusive, Occupied
<1>2. QED  BY <1>1, SystemFrames, PTL

-----------------------------------------------------------------------------
(* What an evaluator believes of its registration.                         *)

Believes(w) ==
    evaluators[w].registered /\ evaluators[w].link \in Connection =>
        workers[w] = evaluators[w].link /\ evaluators[w].epoch = epoch

\* What a thread that waits for an answer will make of it.
Awaits(t, c) ==
    /\ requests[c] \in {NoFrame, Dropped, calls[t].request}
    /\ calls[t].request.kind = "register" =>
          /\ connections[c].pc = "receive"
          /\ responses[c] \notin {NoFrame, Dropped} /\ responses[c].accepted =>
                workers[WorkerOf[t]] = c /\ responses[c].epoch = epoch

AnswerComes(t) == calls[t].pc = "sent" /\ Link(t) \in Connection => Awaits(t, Link(t))

BeliefInv ==
    /\ FrameInv /\ RegistryInv
    /\ \A w \in Worker : Believes(w)
    /\ \A t \in Caller : AnswerComes(t)

\* A registration lasts as long as its connection, when no other connection speaks for
\* the worker.
LEMMA RegistrationLasts ==
    ASSUME Apart, RegistryInv, NEW c \in Connection,
           Handle(c) \/ (\E x \in Publisher, v \in Worker : Register(c, x, v)),
           NEW w \in Worker, NEW d \in Connection, workers[w] = d, connections[d].socket = "open"
    PROVE  workers'[w] = d /\ epoch' = epoch
<1>1. d # NoConnection /\ workers \in [Worker -> Connection \cup {NoConnection}]
  BY DeploymentFacts DEF RegistryInv, Base, TypeOK
<1>2. w \in Boots(d)
  BY <1>1 DEF RegistryInv, RegistrationStands, ConnectionStands, Registered
<1>3. CASE \E x \in Publisher, v \in Worker : Register(c, x, v)
  <2>1. PICK x \in Publisher, v \in Worker : Register(c, x, v)
    BY <1>3
  <2>2. workers' = [workers EXCEPT ![v] = c] /\ v \in Boots(c) /\ epoch' = epoch
    BY <2>1, RegistersIdentity DEF Register, process
  <2>3. CASE v = w
    BY <1>1, <1>2, <2>2, <2>3 DEF Apart
  <2>4. CASE v # w
    BY <1>1, <2>2, <2>4
  <2>5. QED  BY <2>3, <2>4
<1>4. CASE Fence(c)
  <2>1. /\ workers' = [v \in Worker |-> IF v \in LostWith(c) THEN NoConnection ELSE workers[v]]
        /\ connections[c].socket = "closed" /\ epoch' = epoch
    BY <1>4 DEF Fence, Forget, process
  <2>2. w \notin LostWith(c)
    BY <1>2, <2>1 DEF Apart, LostWith, RegistryInv, ConnectionStands
  <2>3. QED  BY <2>1, <2>2
<1>5. CASE Handle(c) /\ ~Fence(c)
  <2>1. UNCHANGED <<process, registry>>
    BY <1>5 DEF Handle, Refuse, AcceptPublication, AcceptRevocation, Commit, ReplayCommit,
                RejectCommit, Revoke, RejectRevoke, Leave, Withdraw, Export, Gather, Write
  <2>2. QED  BY <2>1 DEF process, registry
<1>6. QED  BY <1>3, <1>4, <1>5

\* Another thread's call, its link, and what is on it, are no matter of thread t.
LEMMA OthersWait ==
    ASSUME FrameInv, NEW t \in Caller, Call(t) \/ Continue(t), NEW u \in Caller, u # t,
           calls'[u].pc = "sent"
    PROVE  /\ calls'[u] = calls[u] /\ Link(u)' = Link(u)
           /\ Link(u) \in Connection =>
                 requests'[Link(u)] = requests[Link(u)] /\ responses'[Link(u)] = responses[Link(u)]
<1>1. /\ EvaluatorTypes /\ CallStands(t) /\ CallStands(u) /\ u # NoCaller /\ t # NoCaller
      /\ WorkerOf[t] \in Worker /\ WorkerOf[u] \in Worker
      /\ calls \in [Caller -> CallType] /\ requests \in [Connection -> FrameType]
      /\ responses \in [Connection -> {NoFrame, Dropped} \cup ResponseType]
  BY DeploymentFacts DEF FrameInv, SentInv, EvaluatorTypes
<1>2. ASSUME calls'[u] = calls[u] PROVE Evaluator(u).holder = u
  BY <1>1, <1>2 DEF CallStands
<1>3. ASSUME calls'[u] = calls[u], Link(u) \in Connection, Link(t) = Link(u)
      PROVE  Evaluator(t).holder = u
  <2>1. WorkerOf[t] = WorkerOf[u]
    BY <1>1, <1>3 DEF FrameInv, LinkStands, Link, Evaluator
  <2>2. QED  BY <1>2, <1>3, <2>1 DEF Evaluator
<1>4. ASSUME NEW link, NEW registered, NEW bound, NEW holder,
             Leaves(t, link, registered, bound, holder), calls'[u] = calls[u],
             link = Link(t) \/ Unlocked(t)
      PROVE  Link(u)' = Link(u)
  <2>1. CASE WorkerOf[u] # WorkerOf[t]
    BY <1>1, <1>4, <2>1 DEF Leaves, Link, Evaluator
  <2>2. CASE WorkerOf[u] = WorkerOf[t]
    <3>1. ~Unlocked(t)
      BY <1>1, <1>2, <1>4, <2>2 DEF Unlocked, Evaluator
    <3>2. QED  BY <1>4, <2>2, <3>1 DEF Leaves, Link, Evaluator
  <2>3. QED  BY <2>1, <2>2
<1>5. CASE (\E c \in Connection : Connect(t, c)) \/ ConnectInVain(t) \/ HangUp(t)
  <2>1. /\ UNCHANGED <<calls, requests, responses>> /\ Unlocked(t)
        /\ \E link, registered : Leaves(t, link, registered, Evaluator(t).epoch,
                                        Evaluator(t).holder)
    BY <1>1, <1>5, ConnectLeaves DEF Connect, ConnectInVain, HangUp, CanConnect
  <2>2. QED  BY <1>4, <2>1
<1>6. CASE Evaluate(t)
  <2>1. /\ \E r : calls' = [calls EXCEPT ![t] = r]
        /\ UNCHANGED <<requests, responses>>
        /\ Leaves(t, Link(t), Evaluator(t).registered, Evaluator(t).epoch, Evaluator(t).holder)
    BY <1>1, <1>6, EvaluateLeaves DEF Evaluate
  <2>2. calls'[u] = calls[u]
    BY <1>1, <2>1
  <2>3. QED  BY <1>4, <2>1, <2>2
<1>7. CASE GiveUp(t)
  BY <1>1, <1>7 DEF GiveUp, Return, Link, Evaluator
<1>8. CASE Publish(t) \/ RegisterWorker(t) \/ Query(t) \/ RevokePath(t)
  <2>1. PICK r : Send(t, r)
    BY <1>1, <1>8, SendsOwn
  <2>2. /\ Leaves(t, Link(t), Evaluator(t).registered, Evaluator(t).epoch, t)
        /\ Unlocked(t) /\ responses' = responses
        /\ calls' = [calls EXCEPT ![t] = [pc |-> "sent", request |-> r]]
        /\ requests' = IF Link(t) = Broken THEN requests ELSE [requests EXCEPT ![Link(t)] = r]
    BY <1>1, <2>1, SendLeaves
  <2>3. calls'[u] = calls[u]
    BY <1>1, <2>2
  <2>4. Link(u) \in Connection => Link(t) # Link(u)
    BY <1>1, <1>3, <2>2, <2>3 DEF Unlocked
  <2>5. Link(u) \in Connection => requests'[Link(u)] = requests[Link(u)]
    BY <1>1, <2>2, <2>4
  <2>6. QED  BY <1>4, <2>2, <2>3, <2>5
<1>9. CASE Answered(t)
  <2>1. /\ \E registered, bound : Leaves(t, Link(t), registered, bound, NoCaller)
        /\ calls[t].pc = "sent" /\ calls' = [calls EXCEPT ![t] = NoCall] /\ requests' = requests
        /\ responses' = [responses EXCEPT ![Link(t)] = NoFrame]
    BY <1>1, <1>9, AnsweredLeaves
  <2>2. calls'[u] = calls[u] /\ Evaluator(t).holder = t
    BY <1>1, <2>1 DEF CallStands
  <2>3. Link(u) \in Connection => Link(t) # Link(u)
    BY <1>3, <2>2
  <2>4. Link(u) \in Connection => responses'[Link(u)] = responses[Link(u)]
    BY <1>1, <2>1, <2>3
  <2>5. QED  BY <1>4, <2>1, <2>2, <2>4
<1>10. CASE Fail(t)
  <2>1. /\ UNCHANGED <<requests, responses>> /\ \E r : calls' = [calls EXCEPT ![t] = r]
        /\ \/ UNCHANGED evaluators
           \/ Leaves(t, Link(t), Evaluator(t).registered, Evaluator(t).epoch, NoCaller)
    <3>1. CASE calls' = [calls EXCEPT ![t].pc = "stuck"] /\ UNCHANGED evaluators
      <4>1. calls' = [calls EXCEPT ![t] = [calls[t] EXCEPT !.pc = "stuck"]]
        BY <3>1
      <4>2. QED  BY <1>1, <1>10, <3>1, <4>1, FailLeaves
    <3>2. QED  BY <1>1, <1>10, <3>1, FailLeaves
  <2>2. calls'[u] = calls[u]
    BY <1>1, <2>1
  <2>3. Link(u)' = Link(u)
    BY <1>4, <2>1, <2>2 DEF Link, Evaluator
  <2>4. QED  BY <2>1, <2>2, <2>3
<1>11. QED  BY <1>5, <1>6, <1>7, <1>8, <1>9, <1>10 DEF Call, Continue

\* A step of a thread is none of the registry's.
LEMMA CallerRegistry ==
    ASSUME FrameInv, NEW t \in Caller, Call(t) \/ Continue(t)
    PROVE  /\ workers' = workers /\ epoch' = epoch
           /\ \A d \in Connection :
                 connections[d].socket = "open" => connections'[d].pc = connections[d].pc
<1>1. TypeOK
  BY DEF FrameInv, SentInv, Base
<1> DEFINE Unregistered ==
              /\ workers' = workers /\ epoch' = epoch
              /\ \A d \in Connection :
                    connections[d].socket = "open" => connections'[d].pc = connections[d].pc
<1>2. ASSUME NEW c \in Connection, Accept(c) PROVE Unregistered
  BY <1>1, <1>2, AcceptIs DEF Accept, registry, process
<1>3. ASSUME NEW c \in Connection, Disconnect(c) PROVE Unregistered
  <2>1. \A d \in Connection : connections'[d].pc = connections[d].pc
    BY <1>1, <1>3, DisconnectIs
  <2>2. QED  BY <1>3, <2>1 DEF Disconnect, registry, process
<1>4. ASSUME UNCHANGED vars PROVE Unregistered
  BY <1>4 DEF vars, registry, process
<1> HIDE DEF Unregistered
<1>5. Unregistered
  BY <1>2, <1>3, <1>4, CallerActs
<1>6. QED  BY <1>5 DEF Unregistered

LEMMA CallerBeliefs ==
    ASSUME BeliefInv, NEW t \in Caller, Call(t) \/ Continue(t), NEW w \in Worker
    PROVE  Believes(w)'
<1>1. /\ FrameInv /\ EvaluatorTypes /\ CallStands(t) /\ WorkerOf[t] \in Worker
      /\ LinkStands(w) /\ Believes(w) /\ AnswerComes(t)
  BY DeploymentFacts DEF BeliefInv, FrameInv, SentInv
<1>2. workers' = workers /\ epoch' = epoch
  BY <1>1, CallerRegistry
<1>3. ASSUME NEW link, NEW registered, NEW bound, NEW holder,
             Leaves(t, link, registered, bound, holder),
             \/ link = Link(t) /\ registered = Evaluator(t).registered
                /\ bound = Evaluator(t).epoch
             \/ w = WorkerOf[t] => ~registered \/ link \notin Connection
      PROVE  Believes(w)'
  <2>1. CASE w # WorkerOf[t]
    BY <1>1, <1>2, <1>3, <2>1 DEF Leaves, Believes
  <2>2. CASE w = WorkerOf[t]
    BY <1>1, <1>2, <1>3, <2>2 DEF Leaves, Believes, Link, Evaluator
  <2>3. QED  BY <2>1, <2>2
<1>4. ASSUME NEW c \in Connection, Connect(t, c) PROVE Believes(w)'
  <2>1. Link(t) = NoConnection
    BY <1>4 DEF Connect, CanConnect
  <2>2. w = WorkerOf[t] => ~Evaluator(t).registered
    BY <1>1, <2>1 DEF LinkStands, Link, Evaluator
  <2>3. Leaves(t, c, Evaluator(t).registered, Evaluator(t).epoch, Evaluator(t).holder)
    BY <1>1, <1>4, ConnectLeaves
  <2>4. QED  BY <1>3, <2>2, <2>3
<1>5. CASE ConnectInVain(t)
  <2>1. Leaves(t, Broken, Evaluator(t).registered, Evaluator(t).epoch, Evaluator(t).holder)
    BY <1>1, <1>5, ConnectLeaves
  <2>2. QED  BY <1>3, <2>1, DeploymentFacts
<1>6. CASE HangUp(t)
  <2>1. Leaves(t, NoConnection, FALSE, Evaluator(t).epoch, Evaluator(t).holder)
    BY <1>1, <1>6, ConnectLeaves
  <2>2. QED  BY <1>3, <2>1
<1>7. CASE Evaluate(t)
  <2>1. Leaves(t, Link(t), Evaluator(t).registered, Evaluator(t).epoch, Evaluator(t).holder)
    BY <1>1, <1>7, EvaluateLeaves
  <2>2. QED  BY <1>3, <2>1
<1>8. CASE Publish(t) \/ RegisterWorker(t) \/ Query(t) \/ RevokePath(t)
  <2>1. Leaves(t, Link(t), Evaluator(t).registered, Evaluator(t).epoch, t)
    BY <1>1, <1>8, SendsOwn, SendLeaves
  <2>2. QED  BY <1>3, <2>1
<1>9. CASE GiveUp(t)
  BY <1>1, <1>2, <1>9 DEF GiveUp, Believes
<1>10. CASE Fail(t)
  <2>1. CASE UNCHANGED evaluators
    BY <1>1, <1>2, <2>1 DEF Believes
  <2>2. CASE Leaves(t, Link(t), Evaluator(t).registered, Evaluator(t).epoch, NoCaller)
    BY <1>3, <2>2
  <2>3. QED  BY <1>1, <1>10, <2>1, <2>2, FailLeaves
<1>11. CASE Answered(t)
  <2>1. /\ Link(t) \in Connection /\ calls[t].pc = "sent"
        /\ responses[Link(t)] \notin {NoFrame, Dropped}
    BY <1>11 DEF Answered
  <2>2. Awaits(t, Link(t))
    BY <1>1, <2>1 DEF AnswerComes
  <2>3. CASE calls[t].request.kind # "register"
    <3>1. Leaves(t, Link(t), Evaluator(t).registered, Evaluator(t).epoch, NoCaller)
      BY <1>1, <1>11, <2>3, AnsweredLeaves
    <3>2. QED  BY <1>3, <3>1
  <2>4. CASE calls[t].request.kind = "register" /\ ~responses[Link(t)].accepted
    <3>1. Leaves(t, Link(t), responses[Link(t)].accepted, Evaluator(t).epoch, NoCaller)
      BY <1>1, <1>11, <2>4, AnsweredLeaves
    <3>2. QED  BY <1>3, <2>4, <3>1
  <2>5. CASE calls[t].request.kind = "register" /\ responses[Link(t)].accepted
    <3>1. Leaves(t, Link(t), responses[Link(t)].accepted, responses[Link(t)].epoch, NoCaller)
      BY <1>1, <1>11, <2>5, AnsweredLeaves
    <3>2. workers[WorkerOf[t]] = Link(t) /\ responses[Link(t)].epoch = epoch
      BY <2>1, <2>2, <2>5 DEF Awaits
    <3>3. CASE w = WorkerOf[t]
      BY <1>2, <3>1, <3>2, <3>3 DEF Leaves, Believes, Evaluator
    <3>4. CASE w # WorkerOf[t]
      BY <1>3, <3>1, <3>4
    <3>5. QED  BY <3>3, <3>4
  <2>6. QED  BY <2>3, <2>4, <2>5
<1>12. QED  BY <1>4, <1>5, <1>6, <1>7, <1>8, <1>9, <1>10, <1>11 DEF Call, Continue

LEMMA CallerAnswers ==
    ASSUME BeliefInv, NEW t \in Caller, Call(t) \/ Continue(t), NEW u \in Caller
    PROVE  AnswerComes(u)'
<1>1. /\ FrameInv /\ EvaluatorTypes /\ CallStands(t) /\ WorkerOf[u] \in Worker
      /\ calls \in [Caller -> CallType] /\ requests \in [Connection -> FrameType]
      /\ LinkStands(WorkerOf[u]) /\ AnswerComes(u)
  BY DeploymentFacts DEF BeliefInv, FrameInv, SentInv, EvaluatorTypes
<1>2. /\ workers' = workers /\ epoch' = epoch
      /\ \A d \in Connection :
            connections[d].socket = "open" => connections'[d].pc = connections[d].pc
  BY <1>1, CallerRegistry
<1> SUFFICES ASSUME calls'[u].pc = "sent", NEW c \in Connection, Link(u)' = c
             PROVE  Awaits(u, c)'
  BY DEF AnswerComes
<1>3. CASE u # t
  <2>1. /\ calls'[u] = calls[u] /\ Link(u) = c
        /\ requests'[c] = requests[c] /\ responses'[c] = responses[c]
    BY <1>1, <1>3, OthersWait
  <2>2. connections[c].socket = "open" /\ Awaits(u, c)
    BY <1>1, <2>1 DEF LinkStands, AnswerComes, Link, Evaluator
  <2>3. QED  BY <1>2, <2>1, <2>2 DEF Awaits
<1>4. CASE u = t
  <2>1. CASE Publish(t) \/ RegisterWorker(t) \/ Query(t) \/ RevokePath(t)
    <3>1. PICK r : Send(t, r)
      BY <1>1, <2>1, SendsOwn
    <3>2. /\ Leaves(t, Link(t), Evaluator(t).registered, Evaluator(t).epoch, t)
          /\ Unlocked(t) /\ UNCHANGED <<vars, responses>>
          /\ calls' = [calls EXCEPT ![t] = [pc |-> "sent", request |-> r]]
          /\ requests' = IF Link(t) = Broken THEN requests
                         ELSE [requests EXCEPT ![Link(t)] = r]
      BY <1>1, <3>1, SendLeaves
    <3>3. Link(t) = c
      BY <1>4, <3>2 DEF Leaves, Link
    <3>4. ~Occupied(c)
      BY <1>1, <3>2, <3>3, UnlockedIsIdle
    <3>5. requests'[c] = r /\ calls'[t].request = r
      BY <1>1, <3>2, <3>3, DeploymentFacts
    <3>6. connections' = connections /\ responses' = responses
      BY <3>2 DEF vars
    <3>7. QED  BY <1>4, <3>4, <3>5, <3>6 DEF Awaits, Occupied
  <2>2. CASE ~(Publish(t) \/ RegisterWorker(t) \/ Query(t) \/ RevokePath(t))
    <3>1. CASE (\E d \in Connection : Connect(t, d)) \/ ConnectInVain(t) \/ HangUp(t)
      BY <1>4, <3>1 DEF Connect, ConnectInVain, HangUp, CanConnect
    <3>2. CASE Evaluate(t)
      <4>1. PICK r : calls' = [calls EXCEPT ![t] = [pc |-> "decided", request |-> r]]
        BY <1>1, <3>2, EvaluateLeaves
      <4>2. QED  BY <1>1, <1>4, <4>1
    <3>3. CASE GiveUp(t) \/ Answered(t)
      BY <1>1, <1>4, <3>3 DEF GiveUp, Answered, Return, NoCall
    <3>4. CASE Fail(t)
      <4>1. CASE calls' = [calls EXCEPT ![t].pc = "stuck"]
        <5>1. calls'[t].pc = "stuck"
          BY <1>1, <4>1 DEF CallType
        <5>2. QED  BY <1>4, <5>1
      <4>2. QED  BY <1>1, <1>4, <3>4, <4>1 DEF Fail, Return, NoCall
    <3>5. QED  BY <2>2, <3>1, <3>2, <3>3, <3>4 DEF Call, Continue
  <2>3. QED  BY <2>1, <2>2
<1>5. QED  BY <1>3, <1>4

\* The beliefs after a step of connection c that changes no evaluator.
LEMMA ServedBeliefs ==
    ASSUME Apart, BeliefInv, NEW c \in Connection, UNCHANGED <<evaluators, calls>>,
           \/ Handle(c) \/ (\E x \in Publisher, v \in Worker : Register(c, x, v))
           \/ UNCHANGED <<workers, epoch>>,
           \A d \in Connection : d # c =>
              /\ connections'[d].pc = connections[d].pc
              /\ requests'[d] = requests[d] /\ responses'[d] = responses[d],
           \A t \in Caller : calls[t].pc = "sent" /\ Link(t) = c => Awaits(t, c)'
    PROVE  (\A w \in Worker : Believes(w)') /\ (\A t \in Caller : AnswerComes(t)')
<1>1. /\ RegistryInv /\ \A w \in Worker : LinkStands(w) /\ Believes(w)
      /\ \A t \in Caller : AnswerComes(t) /\ WorkerOf[t] \in Worker
  BY DeploymentFacts DEF BeliefInv, FrameInv
<1>2. ASSUME NEW w \in Worker, NEW d \in Connection, workers[w] = d,
             connections[d].socket = "open"
      PROVE  workers'[w] = d /\ epoch' = epoch
  BY <1>1, <1>2, RegistrationLasts
<1>3. ASSUME NEW w \in Worker PROVE Believes(w)'
  BY <1>1, <1>2 DEF Believes, LinkStands
<1>4. ASSUME NEW t \in Caller, calls[t].pc = "sent", NEW d \in Connection, Link(t) = d
      PROVE  Awaits(t, d)'
  <2>1. Awaits(t, d) /\ connections[d].socket = "open"
    BY <1>1, <1>4 DEF AnswerComes, LinkStands, Link, Evaluator
  <2>2. CASE d # c
    BY <1>2, <1>1, <2>1, <2>2 DEF Awaits
  <2>3. QED  BY <1>4, <2>2
<1>5. ASSUME NEW t \in Caller PROVE AnswerComes(t)'
  <2>1. Link(t)' = Link(t) /\ calls' = calls
    BY DEF Link, Evaluator
  <2>2. QED  BY <1>4, <2>1 DEF AnswerComes
<1>6. QED  BY <1>3, <1>5

LEMMA ServeBeliefs ==
    ASSUME Apart, BeliefInv, NEW c \in Connection, ServeNow(c) \/ Serve(c)
    PROVE  (\A w \in Worker : Believes(w)') /\ (\A t \in Caller : AnswerComes(t)')
<1>1. /\ FrameInv /\ SentInv /\ TypeOK /\ Exclusive(c)
      /\ requests \in [Connection -> FrameType]
      /\ responses \in [Connection -> {NoFrame, Dropped} \cup ResponseType]
      /\ \A t \in Caller : AnswerComes(t) /\ CallStands(t) /\ WorkerOf[t] \in Worker
      /\ workers \in [Worker -> Connection \cup {NoConnection}]
  BY DeploymentFacts DEF BeliefInv, FrameInv, SentInv, Base, EvaluatorTypes, TypeOK
<1>2. /\ Arrived(c) /\ requests' = [requests EXCEPT ![c] = NoFrame]
      /\ UNCHANGED <<evaluators, calls>> /\ connections[c].socket = "open"
      /\ connections[c].pc = "receive"
  BY <1>1, ServeNowIs, ServeIs DEF Receive, Receives, At
<1>3. ASSUME NEW t \in Caller, calls[t].pc = "sent", Link(t) = c
      PROVE  requests[c] = calls[t].request /\ calls[t].request.worker = WorkerOf[t]
  BY <1>1, <1>2, <1>3 DEF AnswerComes, Awaits, Arrived, CallStands
<1>4. requests'[c] = NoFrame /\ \A d \in Connection : d # c => requests'[d] = requests[d]
  BY <1>1, <1>2
<1>5. CASE ServeNow(c)
  <2>1. PICK accepted \in BOOLEAN :
          /\ responses' = [responses EXCEPT ![c] = [accepted |-> accepted, epoch |-> epoch]]
          /\ requests[c].kind = "register" /\ accepted => Register(c, requests[c].publisher, requests[c].worker)
    BY <1>1, <1>5, ServeNowIs
  <2>2. /\ responses'[c] = [accepted |-> accepted, epoch |-> epoch]
        /\ \A d \in Connection : d # c => responses'[d] = responses[d]
    BY <1>1, <2>1
  <2>3. Register(c, requests[c].publisher, requests[c].worker) \/ UNCHANGED vars
    BY <1>1, <1>5, ServeNowIs
  <2>4. CASE Register(c, requests[c].publisher, requests[c].worker)
    <3> DEFINE v == requests[c].worker
               fields == [workers |-> connections[c].workers \cup {v}]
    <3>1. /\ Set(c, fields) /\ epoch' = epoch /\ workers' = [workers EXCEPT ![v] = c]
          /\ v \in Worker /\ \E x \in Publisher : Register(c, x, v)
      BY <2>4, RegistersIdentity DEF Register, process
    <3>2. DOMAIN fields = {"workers"}
      OBVIOUS
    <3> HIDE DEF fields
    <3>3. /\ connections'[c].pc = "receive"
          /\ \A d \in Connection : d # c => connections'[d] = connections[d]
      BY <1>1, <1>2, <3>1, <3>2, SetFields, SetOthers
    <3>4. workers'[v] = c
      BY <1>1, <3>1
    <3>5. ASSUME NEW t \in Caller, calls[t].pc = "sent", Link(t) = c PROVE Awaits(t, c)'
      <4>1. v = WorkerOf[t]
        BY <1>3, <3>5
      <4>2. QED  BY <1>4, <2>2, <3>1, <3>3, <3>4, <4>1 DEF Awaits
    <3>6. QED  BY <1>2, <1>4, <2>2, <3>1, <3>3, <3>5, ServedBeliefs
  <2>5. CASE UNCHANGED vars /\ ~Register(c, requests[c].publisher, requests[c].worker)
    <3>1. /\ connections' = connections /\ UNCHANGED <<workers, epoch>>
      BY <2>5 DEF vars, registry, process
    <3>2. ASSUME NEW t \in Caller, calls[t].pc = "sent", Link(t) = c PROVE Awaits(t, c)'
      <4>1. calls[t].request.kind = "register" => ~accepted
        BY <1>3, <2>1, <2>5, <3>2
      <4>2. QED  BY <1>2, <1>4, <2>2, <3>1, <4>1 DEF Awaits
    <3>3. QED  BY <1>2, <1>4, <2>2, <3>1, <3>2, ServedBeliefs
  <2>6. QED  BY <2>3, <2>4, <2>5
<1>6. CASE Serve(c)
  <2>1. Plain(requests[c]) /\ Receive(c, requests[c]) /\ responses' = responses
    BY <1>1, <1>6, ServeIs
  <2>2. requests[c].kind # "register"
    BY <2>1, PlainIs DEF RequestType
  <2>3. /\ \A d \in Connection : d # c => connections'[d] = connections[d]
        /\ UNCHANGED <<workers, epoch>>
    BY <1>1, <2>1, SetOthers DEF Receive, registry, process
  <2>4. ASSUME NEW t \in Caller, calls[t].pc = "sent", Link(t) = c PROVE Awaits(t, c)'
    BY <1>2, <1>3, <1>4, <2>2, <2>4 DEF Awaits
  <2>5. QED  BY <1>2, <1>4, <2>1, <2>3, <2>4, ServedBeliefs
<1>7. QED  BY <1>5, <1>6

LEMMA HandleBeliefs ==
    ASSUME Apart, BeliefInv, NEW c \in Connection, HandleStep(c)
    PROVE  (\A w \in Worker : Believes(w)') /\ (\A t \in Caller : AnswerComes(t)')
<1>1. /\ FrameInv /\ SentInv /\ TypeOK /\ RestStands(c)
      /\ \A t \in Caller : AnswerComes(t) /\ WorkerOf[t] \in Worker
      /\ \A w \in Worker : LinkStands(w)
  BY DeploymentFacts DEF BeliefInv, FrameInv, SentInv, Base
<1>2. Handle(c) /\ UNCHANGED <<evaluators, calls>>
  BY <1>1, HandleFrames, HandleStepIs
<1>3. Proceeds(c)
  BY <1>1, <1>2, HandleProceeds
\* While a thread serves what an evaluator sent, no registration is awaited from it.
<1>4. ASSUME NEW t \in Caller, calls[t].pc = "sent", Link(t) = c PROVE Awaits(t, c)'
  <2>1. connections[c].socket = "open" /\ Awaits(t, c)
    BY <1>1, <1>4 DEF LinkStands, AnswerComes, Link, Evaluator
  <2>2. connections[c].pc # "receive" /\ connections'[c].socket # "finished"
    BY <1>3, <2>1 DEF Proceeds
  <2>3. requests' = requests
    BY <1>1, <2>2, HandleStepIs
  <2>4. QED  BY <1>2, <2>1, <2>2, <2>3 DEF Awaits
<1>5. QED  BY <1>1, <1>2, <1>4, HandleFrames, ServedBeliefs

LEMMA FaultBeliefs ==
    ASSUME Apart, BeliefInv, NEW c \in Connection,
           (Reap(c) /\ UNCHANGED evaluator) \/ Lose(c)
    PROVE  (\A w \in Worker : Believes(w)') /\ (\A t \in Caller : AnswerComes(t)')
<1>1. /\ requests \in [Connection -> FrameType]
      /\ responses \in [Connection -> {NoFrame, Dropped} \cup ResponseType]
      /\ connections \in [Connection -> ConnectionType]
      /\ \A w \in Worker : LinkStands(w)
      /\ \A t \in Caller : AnswerComes(t) /\ WorkerOf[t] \in Worker
  BY DeploymentFacts DEF BeliefInv, FrameInv, SentInv, Base, TypeOK, EvaluatorTypes
<1>2. CASE Reap(c) /\ UNCHANGED evaluator
  <2>1. /\ connections[c].socket = "finished"
        /\ connections' = [connections EXCEPT ![c] = Free]
        /\ UNCHANGED <<workers, epoch, evaluators, calls, requests, responses>>
    BY <1>2 DEF Reap, evaluator, registry, process
  <2>2. \A d \in Connection : d # c => connections'[d] = connections[d]
    BY <1>1, <2>1
  <2>3. \A t \in Caller : Link(t) # c
    BY <1>1, <2>1 DEF LinkStands, Link, Evaluator
  <2>4. QED  BY <2>1, <2>2, <2>3, ServedBeliefs
<1>3. CASE Lose(c)
  <2>1. /\ connections' = connections /\ UNCHANGED <<workers, epoch, evaluators, calls>>
        /\ \/ requests' = [requests EXCEPT ![c] = Dropped] /\ responses' = responses
           \/ responses' = [responses EXCEPT ![c] = Dropped] /\ requests' = requests
    BY <1>3 DEF Lose, vars, registry, process
  <2>2. /\ requests'[c] \in {requests[c], Dropped} /\ responses'[c] \in {responses[c], Dropped}
        /\ \A d \in Connection : d # c =>
              requests'[d] = requests[d] /\ responses'[d] = responses[d]
    BY <1>1, <2>1
  <2>3. ASSUME NEW t \in Caller, calls[t].pc = "sent", Link(t) = c PROVE Awaits(t, c)'
    <3>1. Awaits(t, c)
      BY <1>1, <2>3 DEF AnswerComes
    <3>2. QED  BY <2>1, <2>2, <3>1 DEF Awaits
  <2>4. QED  BY <2>1, <2>2, <2>3, ServedBeliefs
<1>4. QED  BY <1>2, <1>3

LEMMA BreakBeliefs ==
    ASSUME BeliefInv, NEW c \in Connection, Break(c)
    PROVE  (\A w \in Worker : Believes(w)') /\ (\A t \in Caller : AnswerComes(t)')
<1>1. /\ TypeOK /\ EvaluatorTypes /\ Disconnect(c) /\ Cut({c}) /\ calls' = calls
      /\ requests \in [Connection -> FrameType]
      /\ responses \in [Connection -> {NoFrame, Dropped} \cup ResponseType]
      /\ \A t \in Caller : AnswerComes(t) /\ WorkerOf[t] \in Worker
      /\ \A w \in Worker : Believes(w)
  BY DeploymentFacts DEF BeliefInv, FrameInv, SentInv, Base, EvaluatorTypes, Break
<1>2. /\ \A d \in Connection : d # c =>
            /\ connections'[d] = connections[d]
            /\ requests'[d] = requests[d] /\ responses'[d] = responses[d]
      /\ UNCHANGED <<workers, epoch>>
  BY <1>1, DisconnectIs DEF Break, Disconnect, registry, process
<1>3. \A w \in Worker :
        /\ evaluators'[w].link = IF evaluators[w].link \in {c} THEN Broken
                                 ELSE evaluators[w].link
        /\ evaluators'[w].registered = evaluators[w].registered
        /\ evaluators'[w].epoch = evaluators[w].epoch
  BY <1>1, CutIs
<1>4. ASSUME NEW w \in Worker PROVE Believes(w)'
  BY <1>1, <1>2, <1>3, DeploymentFacts DEF Believes
<1>5. ASSUME NEW t \in Caller, calls'[t].pc = "sent", NEW d \in Connection, Link(t)' = d
      PROVE  Awaits(t, d)'
  <2>1. Link(t) = d /\ d # c
    BY <1>1, <1>3, <1>5, DeploymentFacts DEF Link, Evaluator
  <2>2. Awaits(t, d)
    BY <1>1, <1>5, <2>1 DEF AnswerComes
  <2>3. QED  BY <1>1, <1>2, <2>1, <2>2 DEF Awaits
<1>6. QED  BY <1>4, <1>5 DEF AnswerComes

\* From the end of a process to the start of the next no evaluator has a connection.
LEMMA RestartBeliefs ==
    ASSUME BeliefInv, EveryBreak \/ (Start /\ UNCHANGED evaluator)
    PROVE  (\A w \in Worker : Believes(w)') /\ (\A t \in Caller : AnswerComes(t)')
<1>1. EvaluatorTypes /\ DownIsEmpty /\ \A w \in Worker : LinkStands(w)
  BY DEF BeliefInv, FrameInv, SentInv, Base
<1>2. \A w \in Worker : evaluators'[w].link \notin Connection
  <2>1. CASE EveryBreak
    <3>1. Cut(Connection)
      BY <2>1 DEF EveryBreak
    <3>2. QED  BY <1>1, <3>1, CutIs, DeploymentFacts
  <2>2. CASE Start /\ UNCHANGED evaluator
    <3>1. status = "down" /\ evaluators' = evaluators
      BY <2>2 DEF Start, evaluator
    <3>2. \A c \in Connection : connections[c].socket # "open"
      BY <1>1, <3>1 DEF DownIsEmpty, Free
    <3>3. QED  BY <1>1, <3>1, <3>2 DEF LinkStands
  <2>3. QED  BY <2>1, <2>2
<1>3. QED  BY <1>2, DeploymentFacts DEF Believes, AnswerComes, Link, Evaluator

LEMMA BeliefStep == Apart /\ BeliefInv /\ [SystemNext]_system => BeliefInv'
<1> SUFFICES ASSUME Apart, BeliefInv, [SystemNext]_system PROVE BeliefInv'
  OBVIOUS
<1>1. FrameInv' /\ RegistryInv'
  <2>1. [Next]_vars
    BY StepRefines DEF BeliefInv, FrameInv
  <2>2. QED  BY <2>1, FrameStep, NextRegistry DEF BeliefInv
<1> DEFINE Truth == /\ \A w \in Worker : Believes(w)'
                    /\ \A t \in Caller : AnswerComes(t)'
<1>2. ASSUME UNCHANGED system PROVE Truth
  BY <1>2 DEF BeliefInv, system, evaluator, vars, registry, process, Believes, AnswerComes,
              Awaits, Link, Evaluator
<1>3. ASSUME NEW t \in Caller, Call(t) \/ Continue(t) PROVE Truth
  BY <1>3, CallerBeliefs, CallerAnswers
<1>4. ASSUME NEW c \in Connection,
             \/ CoordinatorStep(c) \/ (Reap(c) /\ UNCHANGED evaluator) \/ Break(c) \/ Lose(c)
      PROVE  Truth
  BY <1>4, ServeBeliefs, HandleBeliefs, FaultBeliefs, BreakBeliefs DEF CoordinatorStep
<1>5. ASSUME EveryBreak \/ (Start /\ UNCHANGED evaluator) PROVE Truth
  BY <1>5, RestartBeliefs
<1> HIDE DEF Truth
<1>6. Truth
  BY <1>2, <1>3, <1>4, <1>5 DEF SystemNext, CoordinatorCrash, CoordinatorStop
<1>7. QED  BY <1>1, <1>6 DEF Truth, BeliefInv

LEMMA SystemInitBelief == SystemInit => BeliefInv
<1> SUFFICES ASSUME SystemInit PROVE BeliefInv
  OBVIOUS
<1>1. FrameInv /\ RegistryInv
  BY SystemInitFrames, InitHeld DEF SystemInit, HeldInv
<1>2. ASSUME NEW w \in Worker PROVE Believes(w)
  BY DeploymentFacts DEF SystemInit, Disconnected, Believes
<1>3. ASSUME NEW t \in Caller PROVE AnswerComes(t)
  BY DEF SystemInit, NoCall, AnswerComes
<1>4. QED  BY <1>1, <1>2, <1>3 DEF BeliefInv

\* When no worker boot speaks on two connections, an evaluator that believes it is
\* registered on a connection that stands is, with the coordinator's epoch, and is not
\* fenced: what RegisterWorker brought back is true until the connection is lost.
THEOREM BeliefIsAlwaysTrue ==
    ASSUME Apart
    PROVE  SystemSpec => []BeliefIsTrue
<1>1. BeliefInv /\ [SystemNext]_system => BeliefInv'
  BY BeliefStep
<1>2. BeliefInv => BeliefIsTrue
  <2> SUFFICES ASSUME BeliefInv, NEW w \in Worker, evaluators[w].registered, Connected(w)
               PROVE  /\ workers[w] = evaluators[w].link
                      /\ w \notin fenced
                      /\ evaluators[w].epoch = epoch
    BY DEF BeliefIsTrue
  <2>1. workers[w] = evaluators[w].link /\ evaluators[w].epoch = epoch
    BY DEF BeliefInv, Believes, Connected
  <2>2. Registered(w)
    BY <2>1, DeploymentFacts DEF Registered, Connected
  <2>3. QED  BY <2>1, <2>2 DEF BeliefInv, RegistryInv, RegistrationStands
<1>3. QED  BY <1>1, <1>2, SystemInitBelief, PTL DEF SystemSpec

=============================================================================
