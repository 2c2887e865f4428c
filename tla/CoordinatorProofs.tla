--------------------------- MODULE CoordinatorProofs ---------------------------
(***************************************************************************)
(* Live authority is of this process and its epoch, and has a holder; a    *)
(* replay that is accepted is authority; what was answered survives        *)
(* restarts: for any paths, workers, connections and bounds.               *)
(***************************************************************************)
EXTENDS Coordinator, TLAPS

LEMMA ConstantFacts ==
    /\ MaxGeneration \in Nat /\ MaxGeneration >= 1
    /\ MaxEpoch \in Nat /\ MaxEpoch >= 1
    /\ AnyPublisher \in Publisher
    /\ (CHOOSE w \in Identity : TRUE) \in Identity
<1>1. Publisher # {} /\ Worker # {} /\ MaxGeneration \in Nat \ {0} /\ MaxEpoch \in Nat \ {0}
  BY CoordinatorAssumption
<1>2. PICK x \in Publisher, w \in Worker : <<x, w>> \in Identity
  BY <1>1 DEF Identity
<1>3. QED  BY <1>1, <1>2 DEF AnyPublisher

LEMMA AuthorityIs ==
    Runtime!Authority = [generation : 0..MaxGeneration, state : AuthorityState,
                         revoked : BOOLEAN, retired : BOOLEAN, worker : Identity]
BY DEF Runtime!Authority, Runtime!AuthorityState, AuthorityState

LEMMA UndecidedType == Runtime!Undecided \in Runtime!Authority
<1>1. "UNKNOWN" \in AuthorityState /\ 0 \in 0..MaxGeneration
  BY ConstantFacts DEF AuthorityState
<1>2. QED  BY <1>1, ConstantFacts, AuthorityIs DEF Runtime!Undecided

LEMMA FreeType == Free \in ConnectionType
BY DEF Free, ConnectionType

LEMMA TypeFacts ==
    ASSUME TypeOK
    PROVE  /\ \A p \in Path :
                 /\ authority[p] \in Runtime!Authority
                 /\ authority[p].generation \in 0..MaxGeneration
                 /\ authority[p].generation \in Nat
                 /\ authority[p].state \in AuthorityState
                 /\ digest[p] \in {NoDigest} \cup (AuthorityState \X (1..MaxEpoch))
           /\ \A c \in Connection : connections[c] \in ConnectionType
           /\ epoch \in Nat
<1>1. 0..MaxGeneration \subseteq Nat /\ 0..MaxEpoch \subseteq Nat
  BY ConstantFacts
<1>2. authority \in [Path -> Runtime!Authority]
  BY DEF TypeOK, Runtime!TypeOK
<1>3. ASSUME NEW p \in Path
      PROVE  /\ authority[p].generation \in 0..MaxGeneration
             /\ authority[p].state \in AuthorityState
  BY <1>2, AuthorityIs
<1>4. QED  BY <1>1, <1>2, <1>3 DEF TypeOK

-----------------------------------------------------------------------------
(* What a step does to a connection.                                       *)

LEMMA SetConnection ==
    ASSUME TypeOK, NEW c \in Connection, NEW fields, Set(c, fields)
    PROVE  /\ \A d \in Connection : d # c => connections'[d] = connections[d]
           /\ connections'[c] =
                [socket |-> IF "socket" \in DOMAIN fields THEN fields["socket"]
                            ELSE connections[c].socket,
                 pc |-> IF "pc" \in DOMAIN fields THEN fields["pc"] ELSE connections[c].pc,
                 request |-> IF "request" \in DOMAIN fields THEN fields["request"]
                             ELSE connections[c].request,
                 workers |-> IF "workers" \in DOMAIN fields THEN fields["workers"]
                             ELSE connections[c].workers,
                 lost |-> IF "lost" \in DOMAIN fields THEN fields["lost"]
                          ELSE connections[c].lost,
                 image |-> IF "image" \in DOMAIN fields THEN fields["image"]
                           ELSE connections[c].image,
                 answer |-> IF "answer" \in DOMAIN fields THEN fields["answer"]
                            ELSE connections[c].answer]
           /\ connections' = [d \in Connection |-> connections'[d]]
<1>1. connections \in [Connection -> ConnectionType]
  BY DEF TypeOK
<1>2. DOMAIN Free = {"socket", "pc", "request", "workers", "lost", "image", "answer"}
  BY DEF Free
<1>3. connections'[c] = [f \in DOMAIN Free |->
                            IF f \in DOMAIN fields THEN fields[f] ELSE connections[c][f]]
  BY <1>1 DEF Set
<1>4. QED  BY <1>1, <1>2, <1>3 DEF Set

LEMMA SetField ==
    ASSUME TypeOK, NEW c \in Connection, NEW fields, Set(c, fields), NEW f \in DOMAIN Free
    PROVE  connections'[c][f] = IF f \in DOMAIN fields THEN fields[f] ELSE connections[c][f]
<1>1. connections \in [Connection -> ConnectionType]
  BY DEF TypeOK
<1>2. QED  BY <1>1 DEF Set

LEMMA SetKeepsImage ==
    ASSUME TypeOK, NEW c \in Connection, NEW fields, Set(c, fields),
           "image" \notin DOMAIN fields
    PROVE  connections'[c].image = connections[c].image
<1>1. "image" \in DOMAIN Free
  BY DEF Free
<1>2. QED  BY <1>1, SetField

LEMMA SetGivesImage ==
    ASSUME TypeOK, NEW c \in Connection, NEW fields, Set(c, fields), "image" \in DOMAIN fields
    PROVE  connections'[c].image = fields["image"]
<1>1. "image" \in DOMAIN Free
  BY DEF Free
<1>2. QED  BY <1>1, SetField

\* Fields a connection can be given.
FieldsOK(fields) ==
    /\ "socket" \in DOMAIN fields => fields["socket"] \in {"free", "open", "closed", "finished"}
    /\ "pc" \in DOMAIN fields =>
          fields["pc"] \in {"receive", "registered", "commit", "withdraw", "export", "gather",
                            "write"}
    /\ "request" \in DOMAIN fields => fields["request"] \in {NoRequest} \cup RequestType
    /\ "workers" \in DOMAIN fields => fields["workers"] \in SUBSET Worker
    /\ "lost" \in DOMAIN fields => fields["lost"] \in SUBSET Identity
    /\ "image" \in DOMAIN fields => fields["image"] \in {NoImage} \cup Image
    /\ "answer" \in DOMAIN fields => fields["answer"] \in {NoAnswer} \cup AnswerType

LEMMA SetType ==
    ASSUME TypeOK, NEW c \in Connection, NEW fields, Set(c, fields), FieldsOK(fields)
    PROVE  connections'[c] \in ConnectionType
<1>1. connections[c] \in ConnectionType
  BY TypeFacts
<1> DEFINE F(f) == IF f \in DOMAIN fields THEN fields[f] ELSE connections[c][f]
<1>2. connections'[c] =
        [socket |-> F("socket"), pc |-> F("pc"), request |-> F("request"),
         workers |-> F("workers"), lost |-> F("lost"), image |-> F("image"),
         answer |-> F("answer")]
  BY SetConnection
<1>3. F("socket") \in {"free", "open", "closed", "finished"}
  BY <1>1 DEF FieldsOK, ConnectionType
<1>4. F("pc") \in {"receive", "registered", "commit", "withdraw", "export", "gather", "write"}
  BY <1>1 DEF FieldsOK, ConnectionType
<1>5. F("request") \in {NoRequest} \cup RequestType
  BY <1>1 DEF FieldsOK, ConnectionType
<1>6. F("workers") \in SUBSET Worker /\ F("lost") \in SUBSET Identity
  BY <1>1 DEF FieldsOK, ConnectionType
<1>7. F("image") \in {NoImage} \cup Image
  BY <1>1 DEF FieldsOK, ConnectionType
<1>8. F("answer") \in {NoAnswer} \cup AnswerType
  BY <1>1 DEF FieldsOK, ConnectionType
<1> HIDE DEF F
<1>9. QED  BY <1>2, <1>3, <1>4, <1>5, <1>6, <1>7, <1>8 DEF ConnectionType

\* Its thread is between two requests again.
Rested(c) ==
    [socket |-> connections[c].socket, pc |-> "receive", request |-> NoRequest,
     workers |-> connections[c].workers, lost |-> connections[c].lost,
     image |-> NoImage, answer |-> NoAnswer]

LEMMA AnswerConnection ==
    ASSUME TypeOK, NEW c \in Connection, Answer(c)
    PROVE  /\ \A d \in Connection : d # c => connections'[d] = connections[d]
           /\ connections'[c] = Rested(c)
           /\ connections'[c] \in ConnectionType
           /\ connections' = [d \in Connection |-> connections'[d]]
<1>1. connections[c] \in ConnectionType
  BY TypeFacts
<1>2. Set(c, [pc |-> "receive", request |-> NoRequest, image |-> NoImage, answer |-> NoAnswer])
  BY DEF Answer
<1>3. connections'[c] = Rested(c)
  BY <1>2, SetConnection DEF Rested
<1>4. Rested(c) \in ConnectionType
  BY <1>1 DEF Rested, ConnectionType
<1>5. QED  BY <1>2, <1>3, <1>4, SetConnection

\* What is answered for a request that is done.
AnswerOf(c) ==
    [kind |-> Request(c).kind, path |-> Request(c).path,
     generation |-> authority'[Request(c).path].generation,
     state |-> authority'[Request(c).path].state]

LEMMA PersistConnection ==
    ASSUME TypeOK, NEW c \in Connection, Persist(c)
    PROVE  /\ \A d \in Connection : d # c => connections'[d] = connections[d]
           /\ connections'[c] = [socket |-> connections[c].socket, pc |-> "export",
                                 request |-> NoRequest, workers |-> connections[c].workers,
                                 lost |-> connections[c].lost, image |-> connections[c].image,
                                 answer |-> AnswerOf(c)]
           /\ connections' = [d \in Connection |-> connections'[d]]
<1>1. Set(c, [pc |-> "export", request |-> NoRequest, answer |-> AnswerOf(c)])
  BY DEF Persist, AnswerOf
<1>2. QED  BY <1>1, SetConnection

-----------------------------------------------------------------------------
(* The invariant the theorems share.                                       *)

\* What the digests of an authority say of it: live authority was decided in epoch e,
\* and what was decided as live in epoch e still is.
Sealed(a, g, e) ==
    \A p \in Path :
        /\ a[p].generation = 0 => a[p].state = "UNKNOWN" /\ ~a[p].revoked
        /\ a[p].generation # 0 => g[p] # NoDigest
        /\ g[p] # NoDigest => g[p][2] <= e
        /\ a[p].state \in AuthorizingState => g[p] # NoDigest /\ g[p] = <<a[p].state, e>>
        /\ g[p] # NoDigest /\ g[p][2] = e /\ g[p][1] \in AuthorizingState => a[p].state = g[p][1]

ImagesSealed ==
    /\ \A c \in Connection :
          LET image == connections[c].image IN
          image # NoImage => image.epoch = epoch /\ Sealed(image.authority, image.digest, epoch)
    /\ store # NoImage =>
          /\ Sealed(store.authority, store.digest, store.epoch)
          /\ status # "down" => store.epoch <= epoch

\* A request that is past its checks is bound to the epoch, and has asked for its path.
RequestStands(c) ==
    /\ connections[c].pc \in {"registered", "commit"} =>
          /\ Request(c) \in RequestType
          /\ Request(c).kind = "revoke" => Request(c).state = "REVOKED"
    /\ connections[c].pc = "commit" =>
          /\ Request(c).epoch = epoch
          /\ Request(c).kind = "publish" =>
                asked[c] # Runtime!NoQuestion /\ asked[c][1] = Request(c).path
    /\ connections[c].pc \in {"gather", "write"} => connections[c].image # NoImage

RequestsStand == \A c \in Connection : RequestStands(c)

DownIsEmpty ==
    /\ status = "down" => /\ epoch = 0
                          /\ \A c \in Connection : connections[c] = Free
                          /\ \A w \in Worker : ~Registered(w)
                          /\ fenced = {}
    /\ status # "down" => epoch \in 1..MaxEpoch

Base ==
    /\ TypeOK /\ DownIsEmpty /\ RequestsStand
    /\ Sealed(authority, digest, epoch) /\ ImagesSealed

-----------------------------------------------------------------------------
(* What a step does to a record: nothing, withdraw it, or store a decision.*)

Keeps(p) == authority'[p] = authority[p] /\ digest'[p] = digest[p]

Withdraws(p) ==
    /\ Runtime!Decided(p)
    /\ authority'[p] \in Runtime!Authority
    /\ authority'[p].generation = authority[p].generation + 1
    /\ authority'[p].state \in {"REVOKED", "REVALIDATION_REQUIRED"}
    /\ authority'[p].worker = authority[p].worker
    /\ authority[p].revoked => authority'[p].revoked
    /\ digest'[p] = <<authority'[p].state, digest[p][2]>>

Stores(p, c) ==
    /\ Commit(c) /\ Request(c).path = p
    /\ authority'[p] \in Runtime!Authority
    /\ authority'[p].generation = authority[p].generation + 1
    /\ authority'[p].state = Request(c).state
    /\ authority'[p].worker = Sender(Request(c))
    /\ authority[p].revoked => authority'[p].revoked
    /\ digest'[p] = <<Request(c).state, epoch>>

LEMMA AdvancedIs ==
    ASSUME NEW a \in Runtime!Authority, a.generation # MaxGeneration, NEW state \in AuthorityState
    PROVE  LET n == Runtime!Advanced(a, state) IN
           /\ n \in Runtime!Authority
           /\ n.generation = a.generation + 1 /\ n.state = state
           /\ n.revoked = a.revoked /\ n.retired = a.retired /\ n.worker = a.worker
<1>1. a.generation + 1 \in 0..MaxGeneration
  <2>1. a.generation \in 0..MaxGeneration
    BY AuthorityIs
  <2>2. QED  BY <2>1, ConstantFacts
<1>2. QED  BY <1>1, AuthorityIs DEF Runtime!Advanced

LEMMA CommitStep ==
    ASSUME Base, NEW c \in Connection, Commit(c), NEW p \in Path
    PROVE  Keeps(p) \/ Stores(p, c)
<1> DEFINE q == Request(c).path
           w == Sender(Request(c))
           state == Request(c).state
<1>1. TypeOK
  BY DEF Base
<1>2. /\ Request(c) \in RequestType /\ Request(c).epoch = epoch
      /\ asked[c][1] = q
  BY DEF Base, RequestsStand, RequestStands, Commit, At
<1>3. q \in Path /\ w \in Identity /\ state \in AuthorityState
  BY <1>2 DEF RequestType, Sender, Identity
<1>4. /\ authority[q].generation # MaxGeneration
      /\ authority' = [authority EXCEPT
            ![q] = [Runtime!Advanced(authority[q], state) EXCEPT !.worker = w]]
      /\ digest' = [digest EXCEPT ![q] = <<state, epoch>>]
  BY <1>2 DEF Commit, Runtime!Decide, Runtime!Exhausted, DecisionDigest
<1>5. authority \in [Path -> Runtime!Authority] /\ DOMAIN digest = Path
  BY <1>1 DEF TypeOK, Runtime!TypeOK
<1>6. CASE p # q
  BY <1>4, <1>5, <1>6 DEF Keeps
<1>7. CASE p = q
  <2> DEFINE n == Runtime!Advanced(authority[p], state)
  <2>1. authority'[p] = [n EXCEPT !.worker = w] /\ digest'[p] = <<state, epoch>>
    BY <1>3, <1>4, <1>5, <1>7
  <2>2. /\ n \in Runtime!Authority /\ n.revoked = authority[p].revoked
        /\ n.generation = authority[p].generation + 1 /\ n.state = state
    BY <1>3, <1>4, <1>5, <1>7, AdvancedIs
  <2> HIDE DEF n
  <2>3. /\ authority'[p] \in Runtime!Authority /\ authority'[p].revoked = n.revoked
        /\ authority'[p].generation = n.generation /\ authority'[p].state = n.state
        /\ authority'[p].worker = w
    BY <1>3, <2>1, <2>2, AuthorityIs
  <2>4. QED  BY <1>7, <2>1, <2>2, <2>3 DEF Stores
<1>8. QED  BY <1>6, <1>7

LEMMA RevokeStep ==
    ASSUME TypeOK, NEW q \in Path, Runtime!Revoke(q), Resealed, NEW p \in Path
    PROVE  /\ Keeps(p) \/ Withdraws(p)
           /\ authority'[q].revoked /\ authority'[q].state = "REVOKED"
<1>1. authority \in [Path -> Runtime!Authority]
  BY DEF TypeOK, Runtime!TypeOK
<1>2. /\ Runtime!Decided(q) /\ authority[q].generation # MaxGeneration
      /\ authority' = [authority EXCEPT
            ![q] = [Runtime!Advanced(authority[q], "REVOKED") EXCEPT !.revoked = TRUE]]
  BY DEF Runtime!Revoke, Runtime!Exhausted
<1> DEFINE n == Runtime!Advanced(authority[q], "REVOKED")
<1>3. "REVOKED" \in AuthorityState
  BY DEF AuthorityState
<1>4. /\ n \in Runtime!Authority /\ n.worker = authority[q].worker
      /\ n.generation = authority[q].generation + 1 /\ n.state = "REVOKED"
  BY <1>1, <1>2, <1>3, AdvancedIs
<1>5. authority'[q] = [n EXCEPT !.revoked = TRUE]
  BY <1>1, <1>2
<1>6. digest'[p] = IF authority'[p] = authority[p] THEN digest[p]
                   ELSE <<authority'[p].state, digest[p][2]>>
  BY DEF Resealed
<1> HIDE DEF n
<1>7. /\ authority'[q] \in Runtime!Authority /\ authority'[q].worker = authority[q].worker
      /\ authority'[q].generation = authority[q].generation + 1
      /\ authority'[q].state = "REVOKED" /\ authority'[q].revoked
  BY <1>4, <1>5, AuthorityIs
<1>8. CASE p # q
  BY <1>1, <1>2, <1>6, <1>7, <1>8 DEF Keeps
<1>9. CASE p = q
  <2>1. authority[q].generation \in Nat
    BY TypeFacts
  <2>2. authority'[p] # authority[p]
    BY <1>7, <1>9, <2>1
  <2>3. QED  BY <1>2, <1>6, <1>7, <1>9, <2>2 DEF Withdraws
<1>10. QED  BY <1>8, <1>9

\* Whatever a lost worker had is marked, unless its generations are used up.
LEMMA WithdrawStep ==
    ASSUME TypeOK, NEW c \in Connection, NEW w \in Identity, Withdraw(c, w), NEW p \in Path
    PROVE  /\ Keeps(p) \/ Withdraws(p)
           /\ /\ Runtime!Decided(p) /\ authority[p].worker = w
              /\ authority[p].generation # MaxGeneration
              => authority'[p].state = "REVALIDATION_REQUIRED"
<1> DEFINE lost == {q \in Path : Runtime!Decided(q) /\ authority[q].worker = w}
           n == Runtime!Advanced(authority[p], "REVALIDATION_REQUIRED")
<1>1. authority[p] \in Runtime!Authority /\ authority[p].generation \in Nat
  BY TypeFacts
<1>2. authority'[p] = IF p \in lost THEN Runtime!Marked(p) ELSE authority[p]
  BY DEF Withdraw, Runtime!Invalidate
<1>3. digest'[p] = IF authority'[p] = authority[p] THEN digest[p]
                   ELSE <<authority'[p].state, digest[p][2]>>
  BY DEF Withdraw, Resealed
<1>4. CASE p \notin lost
  BY <1>2, <1>3, <1>4 DEF Keeps
<1>5. CASE p \in lost /\ (Runtime!Exhausted(p) \/ authority[p].state = "REVALIDATION_REQUIRED")
  <2>1. authority'[p] = authority[p]
    BY <1>2, <1>5 DEF Runtime!Marked
  <2>2. QED  BY <1>3, <1>5, <2>1 DEF Keeps, Runtime!Exhausted
<1>6. CASE p \in lost /\ ~(Runtime!Exhausted(p) \/ authority[p].state = "REVALIDATION_REQUIRED")
  <2>1. authority'[p] = n
    BY <1>2, <1>6 DEF Runtime!Marked
  <2>2. "REVALIDATION_REQUIRED" \in AuthorityState
    BY DEF AuthorityState
  <2>3. /\ n \in Runtime!Authority /\ n.revoked = authority[p].revoked
        /\ n.generation = authority[p].generation + 1 /\ n.state = "REVALIDATION_REQUIRED"
        /\ n.worker = authority[p].worker
    BY <1>1, <1>6, <2>2, AdvancedIs DEF Runtime!Exhausted
  <2> HIDE DEF n
  <2>4. authority'[p] # authority[p]
    BY <1>1, <2>1, <2>3
  <2>5. QED  BY <1>3, <1>6, <2>1, <2>3, <2>4 DEF Withdraws
<1>7. QED  BY <1>4, <1>5, <1>6

\* What a client does is none of the runtime's, and nothing to the process and its disk.
LEMMA ClientIs ==
    ASSUME NEW c \in Connection, Client(c)
    PROVE  /\ \/ \E x \in Publisher, w \in Worker : Register(c, x, w)
              \/ \E request : Receive(c, request)
              \/ Disconnect(c)
           /\ status # "down" /\ UNCHANGED <<runtime, process, disk>>
<1>1. \/ \E x \in Publisher, w \in Worker : Register(c, x, w)
      \/ \E request : Receive(c, request)
      \/ Disconnect(c)
  BY DEF Client
<1>2. ASSUME NEW x, NEW w, Register(c, x, w)
      PROVE  status # "down" /\ UNCHANGED <<runtime, process, disk>>
  BY <1>2 DEF Register, Receives, At
<1>3. ASSUME NEW request, Receive(c, request)
      PROVE  status # "down" /\ UNCHANGED <<runtime, process, disk>>
  BY <1>3 DEF Receive, Receives, At
<1>4. CASE Disconnect(c)
  BY <1>4 DEF Disconnect
<1>5. QED  BY <1>1, <1>2, <1>3, <1>4

\* The steps between the start of a process and its end.
Running == Next /\ ~Crash /\ ~Start

LEMMA RecordStep ==
    ASSUME Base, Running \/ UNCHANGED vars, NEW p \in Path
    PROVE  Keeps(p) \/ Withdraws(p) \/ \E c \in Connection : Stores(p, c)
<1>1. TypeOK
  BY DEF Base
<1>2. ASSUME NEW c \in Connection, Handle(c)
      PROVE  Keeps(p) \/ Withdraws(p) \/ \E d \in Connection : Stores(p, d)
  <2>1. CASE Commit(c)
    BY <2>1, CommitStep
  <2>2. CASE Revoke(c)
    <3>1. CASE UNCHANGED runtime
      BY <3>1 DEF Keeps, runtime
    <3>2. CASE Runtime!Revoke(Request(c).path) /\ Resealed
      <4>1. Request(c).path \in Path
        BY <2>2 DEF Base, RequestsStand, RequestStands, Revoke, At, RequestType
      <4>2. QED  BY <1>1, <3>2, <4>1, RevokeStep
    <3>3. QED  BY <2>2, <3>1, <3>2 DEF Revoke
  <2>3. CASE \E w \in Identity : Withdraw(c, w)
    BY <1>1, <2>3, WithdrawStep
  <2>4. CASE \/ Refuse(c) \/ AcceptPublication(c) \/ AcceptRevocation(c) \/ ReplayCommit(c)
             \/ RejectCommit(c) \/ RejectRevoke(c) \/ Fence(c) \/ Leave(c)
             \/ Export(c) \/ Gather(c) \/ Write(c)
    BY <2>4 DEF Refuse, AcceptPublication, AcceptRevocation, ReplayCommit, RejectCommit,
                RejectRevoke, Fence, Leave, Export, Gather, Write, Keeps, runtime,
                Runtime!Ask, Runtime!Decline
  <2>5. QED  BY <1>2, <2>1, <2>2, <2>3, <2>4 DEF Handle
<1>3. CASE \/ \E c \in Connection : Client(c) \/ Accept(c) \/ Reap(c)
           \/ Stop \/ UNCHANGED vars
  <2>1. ASSUME NEW c \in Connection, Client(c) PROVE UNCHANGED runtime
    BY <2>1, ClientIs
  <2>2. ASSUME NEW c \in Connection, Accept(c) \/ Reap(c) PROVE UNCHANGED runtime
    BY <2>2 DEF Accept, Reap
  <2>3. CASE Stop \/ UNCHANGED vars
    BY <2>3 DEF Stop, vars, runtime, Keeps
  <2>4. QED  BY <1>3, <2>1, <2>2, <2>3 DEF Keeps, runtime
<1>4. QED  BY <1>2, <1>3 DEF Running, Next

-----------------------------------------------------------------------------
(* Types, while a process runs.                                            *)

Acts(c) == Handle(c) \/ Client(c) \/ Accept(c) \/ Reap(c)

LEMMA RunningIs ==
    ASSUME Running
    PROVE  (\E c \in Connection : Acts(c)) \/ Stop
BY DEF Running, Next, Acts

LEMMA ProcessStays ==
    ASSUME Running
    PROVE  /\ status # "down" /\ status' # "down" /\ epoch' = epoch
           /\ status' \in {status, "stopping"}
<1>1. ASSUME NEW c \in Connection, Handle(c) PROVE status # "down" /\ UNCHANGED process
  BY <1>1 DEF Handle, Refuse, AcceptPublication, AcceptRevocation, Commit, ReplayCommit,
              RejectCommit, Revoke, RejectRevoke, Fence, Leave, Withdraw, Export, Gather, Write, At
<1>2. ASSUME NEW c \in Connection, Client(c) PROVE status # "down" /\ UNCHANGED process
  BY <1>2, ClientIs
<1>3. ASSUME NEW c \in Connection, Accept(c) \/ Reap(c)
      PROVE  status # "down" /\ UNCHANGED process
  BY <1>3 DEF Accept, Reap
<1>4. CASE Stop
  BY <1>4 DEF Stop
<1>5. QED  BY <1>1, <1>2, <1>3, <1>4, RunningIs DEF Acts, process

LEMMA RequestTypes ==
    ASSUME Base, NEW kind \in {"publish", "revoke"}, NEW id \in Identity, NEW p \in Path,
           NEW outcome \in Publishes \cup {"REVOKED"}, NEW bound \in KnownEpochs,
           NEW expected \in Expectations(p)
    PROVE  LET request == RequestOf(kind, id, p, outcome, expected, bound) IN
           /\ request \in RequestType /\ AsReplay(request) \in RequestType
           /\ outcome = "REVOKED" => request.state = "REVOKED"
<1>1. outcome \in EvaluationOutcome
  BY CoordinatorAssumption DEF EvaluationOutcome
<1>2. state_for_outcome(outcome) \in AuthorityState
  BY DEF state_for_outcome, AuthorityState
<1>3. bound \in 0..MaxEpoch
  BY ConstantFacts DEF Base, TypeOK, KnownEpochs
<1>4. expected \in {Runtime!NoExpectation} \cup (0..MaxGeneration)
  BY TypeFacts DEF Base, Expectations
<1>5. RequestOf(kind, id, p, outcome, expected, bound) \in RequestType
  BY <1>1, <1>2, <1>3, <1>4 DEF RequestOf, RequestType, Identity
<1>6. AsReplay(RequestOf(kind, id, p, outcome, expected, bound)) \in RequestType
  BY <1>5 DEF AsReplay, RequestType, EvaluationOutcome
<1>7. QED  BY <1>5, <1>6 DEF RequestOf, state_for_outcome

\* The request a client sends is one of these.
LEMMA ReceivedRequest ==
    ASSUME Base, NEW c \in Connection, Client(c)
    PROVE  \/ \E x \in Publisher, w \in Worker : Register(c, x, w)
           \/ \E request \in RequestType :
                 /\ Receive(c, request)
                 /\ request.kind = "revoke" => request.state = "REVOKED"
           \/ Disconnect(c)
<1>1. ASSUME NEW id \in Identity, NEW p \in Path, NEW bound \in KnownEpochs,
             NEW expected \in Expectations(p),
             Receive(c, RequestOf("revoke", id, p, "REVOKED", expected, bound))
      PROVE  \E request \in RequestType :
                 /\ Receive(c, request)
                 /\ request.kind = "revoke" => request.state = "REVOKED"
  BY <1>1, RequestTypes
<1>2. ASSUME NEW id \in Identity, NEW p \in Path, NEW bound \in KnownEpochs,
             NEW expected \in Expectations(p), NEW outcome \in Publishes,
             Receive(c, RequestOf("publish", id, p, outcome, expected, bound))
      PROVE  \E request \in RequestType :
                 /\ Receive(c, request)
                 /\ request.kind = "revoke" => request.state = "REVOKED"
  <2>1. RequestOf("publish", id, p, outcome, expected, bound).kind = "publish"
    BY DEF RequestOf
  <2>2. QED  BY <1>2, <2>1, RequestTypes
<1>3. ASSUME NEW id \in Identity, NEW p \in Path, NEW bound \in KnownEpochs,
             NEW outcome \in Publishes,
             Receive(c, AsReplay(RequestOf("publish", id, p, outcome, Runtime!NoExpectation,
                                           bound)))
      PROVE  \E request \in RequestType :
                 /\ Receive(c, request)
                 /\ request.kind = "revoke" => request.state = "REVOKED"
  <2>1. AsReplay(RequestOf("publish", id, p, outcome, Runtime!NoExpectation, bound)).kind
            = "publish"
    BY DEF RequestOf, AsReplay
  <2>2. Runtime!NoExpectation \in Expectations(p)
    BY DEF Expectations
  <2>3. QED  BY <1>3, <2>1, <2>2, RequestTypes
<1>4. QED  BY <1>1, <1>2, <1>3 DEF Client

LEMMA AnswerTypes ==
    ASSUME Base, NEW c \in Connection, Request(c) \in RequestType,
           authority'[Request(c).path] \in Runtime!Authority
    PROVE  AnswerOf(c) \in AnswerType
BY AuthorityIs DEF AnswerOf, AnswerType, RequestType

\* Only the connection of the thread changes, and it keeps its type.
OnlyActor(c) ==
    /\ \A d \in Connection : d # c => connections'[d] = connections[d] /\ asked'[d] = asked[d]
    /\ connections'[c] \in ConnectionType
    /\ connections' = [d \in Connection |-> connections'[d]]

LEMMA SetIsActor ==
    ASSUME TypeOK, NEW c \in Connection, NEW fields, Set(c, fields), FieldsOK(fields),
           \A d \in Connection : d # c => asked'[d] = asked[d]
    PROVE  OnlyActor(c)
BY SetConnection, SetType DEF OnlyActor

LEMMA AskedStep ==
    ASSUME TypeOK, NEW c \in Connection,
           \/ UNCHANGED asked
           \/ Runtime!Decline(c)
           \/ \E state, w : Runtime!Decide(c, state, w)
           \/ \E p, expected : Runtime!Ask(c, p, expected)
    PROVE  \A d \in Connection : d # c => asked'[d] = asked[d]
BY DEF Runtime!Decline, Runtime!Decide, Runtime!Ask, TypeOK, Runtime!TypeOK

\* A request is done: it is refused, or accepted and still to be written.
LEMMA DoneStep ==
    ASSUME Base, Running, NEW c \in Connection,
           \/ Refuse(c) \/ RejectCommit(c) \/ RejectRevoke(c) \/ Write(c)
           \/ Commit(c) \/ ReplayCommit(c) \/ Revoke(c)
    PROVE  OnlyActor(c)
<1>1. TypeOK
  BY DEF Base
<1>2. \A d \in Connection : d # c => asked'[d] = asked[d]
  <2>1. CASE Refuse(c) \/ RejectRevoke(c) \/ Write(c)
    BY <2>1 DEF Refuse, RejectRevoke, Write, runtime
  <2>2. CASE RejectCommit(c) \/ ReplayCommit(c)
    BY <1>1, <2>2, AskedStep DEF RejectCommit, ReplayCommit
  <2>3. CASE Commit(c)
    BY <1>1, <2>3, AskedStep DEF Commit
  <2>4. CASE Revoke(c)
    BY <2>4 DEF Revoke, Runtime!Revoke, runtime
  <2>5. QED  BY <2>1, <2>2, <2>3, <2>4
<1>3. CASE Answer(c)
  BY <1>1, <1>2, <1>3, AnswerConnection DEF OnlyActor
<1>4. CASE Persist(c) /\ At(c, "commit")
  <2>1. Request(c) \in RequestType /\ Request(c).path \in Path
    BY <1>4 DEF Base, RequestsStand, RequestStands, At, RequestType
  <2>2. authority'[Request(c).path] \in Runtime!Authority
    BY <1>1, <2>1, RecordStep, TypeFacts DEF Keeps, Withdraws, Stores
  <2>3. AnswerOf(c) \in AnswerType
    BY <2>1, <2>2, AnswerTypes DEF Base
  <2>4. Set(c, [pc |-> "export", request |-> NoRequest, answer |-> AnswerOf(c)])
    BY <1>4 DEF Persist, AnswerOf
  <2> HIDE DEF AnswerOf
  <2>5. FieldsOK([pc |-> "export", request |-> NoRequest, answer |-> AnswerOf(c)])
    BY <2>3 DEF FieldsOK
  <2>6. QED  BY <1>1, <1>2, <2>4, <2>5, SetIsActor
<1>5. QED
  BY <1>3, <1>4 DEF Refuse, RejectCommit, RejectRevoke, Write, Commit, ReplayCommit, Revoke

LEMMA ClientStep ==
    ASSUME Base, NEW c \in Connection, Client(c)
    PROVE  OnlyActor(c)
<1>1. TypeOK /\ connections[c] \in ConnectionType
  BY TypeFacts DEF Base
<1>2. asked' = asked
  BY ClientIs DEF runtime
<1>3. ASSUME NEW x \in Publisher, NEW w \in Worker, Register(c, x, w) PROVE OnlyActor(c)
  <2>1. Set(c, [workers |-> connections[c].workers \cup {w}])
    BY <1>3 DEF Register
  <2>2. FieldsOK([workers |-> connections[c].workers \cup {w}])
    BY <1>1 DEF FieldsOK, ConnectionType
  <2>3. QED  BY <1>1, <1>2, <2>1, <2>2, SetIsActor
<1>4. ASSUME NEW request \in RequestType, Receive(c, request) PROVE OnlyActor(c)
  <2>1. Set(c, [pc |-> "registered", request |-> request])
    BY <1>4 DEF Receive
  <2>2. FieldsOK([pc |-> "registered", request |-> request])
    BY DEF FieldsOK
  <2>3. QED  BY <1>1, <1>2, <2>1, <2>2, SetIsActor
<1>5. CASE Disconnect(c)
  <2>1. Set(c, [socket |-> "closed"])
    BY <1>5 DEF Disconnect
  <2>2. FieldsOK([socket |-> "closed"])
    BY DEF FieldsOK
  <2>3. QED  BY <1>1, <1>2, <2>1, <2>2, SetIsActor
<1>6. QED  BY <1>3, <1>4, <1>5, ReceivedRequest

LEMMA ExportedType ==
    ASSUME Base, status # "down"
    PROVE  [epoch |-> epoch, authority |-> authority, digest |-> digest, fenced |-> {}] \in Image
<1>1. /\ epoch \in 1..MaxEpoch /\ authority \in [Path -> Runtime!Authority]
      /\ digest \in [Path -> {NoDigest} \cup (AuthorityState \X (1..MaxEpoch))]
  BY DEF Base, DownIsEmpty, TypeOK, Runtime!TypeOK
<1>2. QED  BY <1>1 DEF Image

LEMMA HandlerStep ==
    ASSUME Base, NEW c \in Connection,
           \/ AcceptPublication(c) \/ AcceptRevocation(c) \/ Fence(c) \/ Leave(c)
           \/ \E w \in Identity : Withdraw(c, w)
           \/ Export(c) \/ Gather(c)
    PROVE  OnlyActor(c)
<1>1. TypeOK /\ connections[c] \in ConnectionType
  BY TypeFacts DEF Base
<1>2. CASE AcceptPublication(c) \/ AcceptRevocation(c)
  <2>1. \A d \in Connection : d # c => asked'[d] = asked[d]
    BY <1>1, <1>2, AskedStep DEF AcceptPublication, AcceptRevocation, runtime
  <2>2. Set(c, [pc |-> "commit"])
    BY <1>2 DEF AcceptPublication, AcceptRevocation
  <2>3. FieldsOK([pc |-> "commit"])
    BY DEF FieldsOK
  <2>4. QED  BY <1>1, <2>1, <2>2, <2>3, SetIsActor
<1>3. CASE Fence(c)
  <2>1. Set(c, [pc |-> "withdraw", lost |-> Identities(LostWith(c)), workers |-> {}]) /\ asked' = asked
    BY <1>3 DEF Fence, runtime
  <2>2. Identities(LostWith(c)) \in SUBSET Identity
    BY <1>1 DEF TypeOK, LostWith, Identities, Identity, ConnectionType
  <2>3. FieldsOK([pc |-> "withdraw", lost |-> Identities(LostWith(c)), workers |-> {}])
    BY <2>2 DEF FieldsOK
  <2>4. QED  BY <1>1, <2>1, <2>3, SetIsActor
<1>4. CASE Leave(c)
  <2>1. Set(c, [socket |-> "finished", workers |-> {}]) /\ asked' = asked
    BY <1>4 DEF Leave, runtime
  <2>2. FieldsOK([socket |-> "finished", workers |-> {}])
    BY DEF FieldsOK
  <2>3. QED  BY <1>1, <2>1, <2>2, SetIsActor
<1>5. ASSUME NEW w \in Identity, Withdraw(c, w) PROVE OnlyActor(c)
  <2> DEFINE fields == [lost |-> connections[c].lost \ {w},
                        pc |-> IF connections[c].lost = {w} THEN "export" ELSE "withdraw"]
  <2>1. Set(c, fields) /\ asked' = asked
    BY <1>5 DEF Withdraw, Runtime!Invalidate
  <2>2. FieldsOK(fields)
    BY <1>1 DEF FieldsOK, ConnectionType
  <2> HIDE DEF fields
  <2>3. QED  BY <1>1, <2>1, <2>2, SetIsActor
<1>6. CASE Export(c)
  <2> DEFINE image == [epoch |-> epoch, authority |-> authority, digest |-> digest, fenced |-> {}]
  <2>1. image \in Image
    BY <1>6, ExportedType DEF Export, At
  <2>2. Set(c, [pc |-> "gather", image |-> image]) /\ asked' = asked
    BY <1>6 DEF Export, runtime
  <2> HIDE DEF image
  <2>3. FieldsOK([pc |-> "gather", image |-> image])
    BY <2>1 DEF FieldsOK
  <2>4. QED  BY <1>1, <2>2, <2>3, SetIsActor
<1>7. CASE Gather(c)
  <2> DEFINE known == fenced \cup {w \in Worker : Registered(w)}
             image == [connections[c].image EXCEPT !.fenced = known]
  <2>1. connections[c].image \in Image
    BY <1>1, <1>7 DEF Gather, At, Base, RequestsStand, RequestStands, ConnectionType
  <2>2. known \in SUBSET Worker
    BY <1>1 DEF TypeOK
  <2>3. Set(c, [pc |-> "write", image |-> image]) /\ asked' = asked
    BY <1>7 DEF Gather, runtime
  <2> HIDE DEF known
  <2>4. image \in Image
    BY <2>1, <2>2 DEF Image
  <2> HIDE DEF image
  <2>5. FieldsOK([pc |-> "write", image |-> image])
    BY <2>4 DEF FieldsOK
  <2>6. QED  BY <1>1, <2>3, <2>5, SetIsActor
<1>8. QED  BY <1>2, <1>3, <1>4, <1>5, <1>6, <1>7

LEMMA ActorStep ==
    ASSUME Base, Running, NEW c \in Connection, Acts(c)
    PROVE  OnlyActor(c)
<1>1. TypeOK
  BY DEF Base
<1>2. CASE Handle(c)
  BY <1>2, DoneStep, HandlerStep DEF Handle
<1>3. CASE Client(c)
  BY <1>3, ClientStep
<1>4. CASE Accept(c)
  <2>1. Set(c, [socket |-> "open"]) /\ asked' = asked
    BY <1>4 DEF Accept, runtime
  <2>2. FieldsOK([socket |-> "open"])
    BY DEF FieldsOK
  <2>3. QED  BY <1>1, <2>1, <2>2, SetIsActor
<1>5. CASE Reap(c)
  <2>1. connections' = [connections EXCEPT ![c] = Free] /\ asked' = asked
    BY <1>5 DEF Reap, runtime
  <2>2. connections \in [Connection -> ConnectionType]
    BY <1>1 DEF TypeOK
  <2> HIDE DEF Free
  <2>3. QED  BY <2>1, <2>2, FreeType DEF OnlyActor
<1>6. QED  BY <1>2, <1>3, <1>4, <1>5 DEF Acts

\* Each record keeps its type, each digest its decision.
LEMMA RecordTypes ==
    ASSUME Base, Running \/ UNCHANGED vars, NEW p \in Path
    PROVE  /\ authority'[p] \in Runtime!Authority
           /\ digest'[p] \in {NoDigest} \cup (AuthorityState \X (1..MaxEpoch))
<1>1. /\ authority[p] \in Runtime!Authority
      /\ digest[p] \in {NoDigest} \cup (AuthorityState \X (1..MaxEpoch))
  BY TypeFacts DEF Base
<1>2. CASE Keeps(p)
  BY <1>1, <1>2 DEF Keeps
<1>3. CASE Withdraws(p)
  <2>1. digest[p] # NoDigest
    BY <1>3 DEF Withdraws, Runtime!Decided, Base, Sealed
  <2>2. digest[p][2] \in 1..MaxEpoch
    BY <1>1, <2>1
  <2>3. authority'[p].state \in AuthorityState
    BY <1>3 DEF Withdraws, AuthorityState
  <2>4. QED  BY <1>3, <2>2, <2>3 DEF Withdraws
<1>4. ASSUME NEW c \in Connection, Stores(p, c)
      PROVE  /\ authority'[p] \in Runtime!Authority
             /\ digest'[p] \in AuthorityState \X (1..MaxEpoch)
  <2>1. Request(c).state \in AuthorityState /\ epoch \in 1..MaxEpoch
    BY <1>4 DEF Stores, Commit, At, Base, RequestsStand, RequestStands, RequestType, DownIsEmpty
  <2>2. QED  BY <1>4, <2>1 DEF Stores
<1>5. QED  BY <1>2, <1>3, <1>4, RecordStep

\* A thread asks for the path of its request, and what it expects of it.
LEMMA AskedTypes ==
    ASSUME Base, NEW c \in Connection, Acts(c)
    PROVE  asked' \in [Connection -> {Runtime!NoQuestion} \cup
                           (Path \X ({Runtime!NoExpectation} \cup (0..MaxGeneration)))]
<1>1. asked \in [Connection -> {Runtime!NoQuestion} \cup
                    (Path \X ({Runtime!NoExpectation} \cup (0..MaxGeneration)))]
  BY DEF Base, TypeOK, Runtime!TypeOK
<1>2. CASE UNCHANGED asked
  BY <1>1, <1>2
<1>3. CASE Commit(c) \/ ReplayCommit(c) \/ RejectCommit(c)
  <2>1. asked' = [asked EXCEPT ![c] = Runtime!NoQuestion]
    BY <1>3 DEF Commit, ReplayCommit, RejectCommit, Runtime!Decide, Runtime!Decline
  <2>2. QED  BY <1>1, <2>1
<1>4. CASE AcceptPublication(c)
  <2>1. Request(c) \in RequestType
    BY <1>4 DEF AcceptPublication, At, Base, RequestsStand, RequestStands
  <2>2. asked' = [asked EXCEPT ![c] = <<Request(c).path, Request(c).expected>>]
    BY <1>4 DEF AcceptPublication, Runtime!Ask
  <2>3. QED  BY <1>1, <2>1, <2>2 DEF RequestType
<1>5. CASE Handle(c) /\ ~(Commit(c) \/ ReplayCommit(c) \/ RejectCommit(c) \/ AcceptPublication(c))
  <2>1. UNCHANGED asked
    BY <1>5 DEF Handle, Refuse, AcceptRevocation, Revoke, RejectRevoke, Fence, Leave, Withdraw,
                Export, Gather, Write, runtime, Runtime!Revoke, Runtime!Invalidate
  <2>2. QED  BY <1>2, <2>1
<1>6. CASE Client(c) \/ Accept(c) \/ Reap(c)
  BY <1>2, <1>6, ClientIs DEF Accept, Reap, runtime
<1>7. QED  BY <1>3, <1>4, <1>5, <1>6 DEF Acts

LEMMA RuntimeTypes ==
    ASSUME Base, Running
    PROVE  /\ Runtime!TypeOK'
           /\ digest' \in [Path -> {NoDigest} \cup (AuthorityState \X (1..MaxEpoch))]
<1>1. /\ authority \in [Path -> Runtime!Authority]
      /\ digest \in [Path -> {NoDigest} \cup (AuthorityState \X (1..MaxEpoch))]
      /\ asked \in [Connection -> {Runtime!NoQuestion} \cup
                       (Path \X ({Runtime!NoExpectation} \cup (0..MaxGeneration)))]
  BY DEF Base, TypeOK, Runtime!TypeOK
<1>3. ASSUME NEW c \in Connection, Handle(c)
      PROVE  authority' = [p \in Path |-> authority'[p]] /\ digest' = [p \in Path |-> digest'[p]]
  <2>1. CASE Commit(c)
    BY <1>1, <2>1 DEF Commit, Runtime!Decide
  <2>2. CASE Revoke(c)
    BY <1>1, <2>2 DEF Revoke, Runtime!Revoke, Resealed, runtime
  <2>3. CASE \E w \in Identity : Withdraw(c, w)
    BY <2>3 DEF Withdraw, Runtime!Invalidate, Resealed
  <2>4. CASE \/ Refuse(c) \/ AcceptPublication(c) \/ AcceptRevocation(c) \/ ReplayCommit(c)
             \/ RejectCommit(c) \/ RejectRevoke(c) \/ Fence(c) \/ Leave(c)
             \/ Export(c) \/ Gather(c) \/ Write(c)
    BY <1>1, <2>4
       DEF Refuse, AcceptPublication, AcceptRevocation, ReplayCommit, RejectCommit, RejectRevoke,
           Fence, Leave, Export, Gather, Write, runtime, Runtime!Ask, Runtime!Decline
  <2>5. QED  BY <1>3, <2>1, <2>2, <2>3, <2>4 DEF Handle
<1>4. /\ authority' \in [Path -> Runtime!Authority]
      /\ digest' \in [Path -> {NoDigest} \cup (AuthorityState \X (1..MaxEpoch))]
  <2>1. CASE \E c \in Connection : Handle(c)
    BY <1>3, <2>1, RecordTypes
  <2>2. ASSUME NEW c \in Connection, Client(c) \/ Accept(c) \/ Reap(c)
        PROVE  authority' = authority /\ digest' = digest
    BY <2>2, ClientIs DEF Accept, Reap, runtime
  <2>3. CASE authority' = authority /\ digest' = digest
    BY <1>1, <2>3
  <2>4. CASE Stop
    BY <2>3, <2>4 DEF Stop, runtime
  <2>5. QED  BY <2>1, <2>2, <2>3, <2>4, RunningIs DEF Acts
<1>5. asked' \in [Connection -> {Runtime!NoQuestion} \cup
                      (Path \X ({Runtime!NoExpectation} \cup (0..MaxGeneration)))]
  <2>1. CASE Stop
    BY <1>1, <2>1 DEF Stop, runtime
  <2>2. QED  BY <2>1, AskedTypes, RunningIs
<1>6. QED  BY <1>4, <1>5 DEF Runtime!TypeOK

AnsweredType == [epoch : 0..MaxEpoch, decision : [Path -> (0..MaxGeneration) \X AuthorityState],
                 revoked : SUBSET Path]

LEMMA ToldType ==
    ASSUME TypeOK, NEW answer \in {NoAnswer} \cup AnswerType
    PROVE  Told(answer) \in AnsweredType
<1>1. answered \in AnsweredType /\ epoch \in 0..MaxEpoch
  BY DEF TypeOK, AnsweredType
<1>2. CASE answer = NoAnswer
  BY <1>1, <1>2 DEF Told
<1>3. CASE answer # NoAnswer
  <2>1. answer \in AnswerType
    BY <1>3
  <2> DEFINE decision == [answered.decision EXCEPT ![answer.path] =
                  IF answer.generation > @[1] THEN <<answer.generation, answer.state>> ELSE @]
             revoked == IF answer.kind = "revoke" THEN answered.revoked \cup {answer.path}
                        ELSE answered.revoked
  <2>2. Told(answer) = [epoch |-> epoch, decision |-> decision, revoked |-> revoked]
    BY <1>3 DEF Told
  <2>3. answered.decision \in [Path -> (0..MaxGeneration) \X AuthorityState]
    BY <1>1 DEF AnsweredType
  <2>4. decision \in [Path -> (0..MaxGeneration) \X AuthorityState]
    BY <2>1, <2>3 DEF AnswerType
  <2>5. revoked \in SUBSET Path
    BY <1>1, <2>1 DEF AnsweredType, AnswerType
  <2> HIDE DEF decision, revoked
  <2>6. QED  BY <1>1, <2>2, <2>4, <2>5 DEF AnsweredType
<1>4. QED  BY <1>2, <1>3

LEMMA WriteTypes ==
    ASSUME Base, NEW c \in Connection, Write(c)
    PROVE  store' \in {NoImage} \cup Image /\ answered' \in AnsweredType /\ lapsed' \in BOOLEAN
<1>1. TypeOK /\ connections[c] \in ConnectionType
  BY TypeFacts DEF Base
<1>2. store \in {NoImage} \cup Image /\ lapsed \in BOOLEAN
  BY <1>1 DEF TypeOK
<1>3. connections[c].image \in {NoImage} \cup Image
  BY <1>1 DEF ConnectionType
<1>4. connections[c].answer \in {NoAnswer} \cup AnswerType
  BY <1>1 DEF ConnectionType
<1>5. answered' = Told(connections[c].answer)
  BY DEF Write
<1>6. answered' \in AnsweredType
  BY <1>1, <1>4, <1>5, ToldType
<1>7. Older(connections[c].image) \in BOOLEAN
  BY DEF Older
<1>8. store' \in {store, connections[c].image} /\ lapsed' \in BOOLEAN
  BY <1>2, <1>7 DEF Write
<1>9. QED  BY <1>2, <1>3, <1>6, <1>8

LEMMA RegistryTypes ==
    ASSUME Base, Running
    PROVE  /\ workers' \in [Worker -> Connection \cup {NoConnection}]
           /\ publishers' \in [Worker -> Publisher]
           /\ fenced' \in SUBSET Worker
<1> DEFINE Typed == /\ workers' \in [Worker -> Connection \cup {NoConnection}]
                    /\ publishers' \in [Worker -> Publisher]
                    /\ fenced' \in SUBSET Worker
<1>1. /\ workers \in [Worker -> Connection \cup {NoConnection}]
      /\ publishers \in [Worker -> Publisher]
      /\ fenced \in SUBSET Worker
  BY DEF Base, TypeOK
<1>2. CASE UNCHANGED registry
  BY <1>1, <1>2 DEF registry
<1>3. ASSUME NEW c \in Connection, NEW x \in Publisher, NEW w \in Worker, Register(c, x, w)
      PROVE  Typed
  BY <1>1, <1>3 DEF Register
<1>4. ASSUME NEW c \in Connection, Fence(c)
      PROVE  Typed
  <2>1. LostWith(c) \in SUBSET Worker
    BY TypeFacts DEF Base, LostWith, ConnectionType
  <2>2. \E added \in SUBSET LostWith(c) : fenced' = fenced \cup added
    BY <1>4 DEF Fence
  <2>3. Forget(LostWith(c))
    BY <1>4 DEF Fence
  <2>4. QED  BY <1>1, <2>1, <2>2, <2>3, ConstantFacts DEF Forget
<1>5. ASSUME NEW c \in Connection, Handle(c), ~Fence(c) PROVE UNCHANGED registry
  BY <1>5 DEF Handle, Refuse, AcceptPublication, AcceptRevocation, Commit, ReplayCommit,
              RejectCommit, Revoke, RejectRevoke, Leave, Withdraw, Export, Gather, Write
<1>6. ASSUME NEW c \in Connection, Client(c) \/ Accept(c) \/ Reap(c)
      PROVE  UNCHANGED registry \/ \E x \in Publisher, w \in Worker : Register(c, x, w)
  BY <1>6, ClientIs DEF Receive, Disconnect, Accept, Reap
<1>7. CASE Stop
  BY <1>2, <1>7 DEF Stop
<1>8. QED  BY <1>2, <1>3, <1>4, <1>5, <1>6, <1>7, RunningIs DEF Acts

LEMMA DiskStays ==
    ASSUME Running, ~ \E c \in Connection : Write(c)
    PROVE  UNCHANGED disk
<1>1. ASSUME NEW c \in Connection, Handle(c) PROVE UNCHANGED disk
  BY <1>1 DEF Handle, Refuse, AcceptPublication, AcceptRevocation, Commit, ReplayCommit,
              RejectCommit, Revoke, RejectRevoke, Fence, Leave, Withdraw, Export, Gather
<1>2. ASSUME NEW c \in Connection, Client(c) \/ Accept(c) \/ Reap(c) PROVE UNCHANGED disk
  BY <1>2, ClientIs DEF Accept, Reap
<1>3. QED  BY <1>1, <1>2, RunningIs DEF Acts, Stop

LEMMA ConnectionTypes ==
    ASSUME Base, Running
    PROVE  connections' \in [Connection -> ConnectionType]
<1>1. TypeOK
  BY DEF Base
<1>2. CASE Stop
  <2>1. ASSUME NEW c \in Connection
        PROVE  [connections[c] EXCEPT !.socket = IF @ = "open" THEN "closed" ELSE @]
                 \in ConnectionType
    BY <1>1, TypeFacts DEF ConnectionType
  <2>2. QED  BY <1>2, <2>1 DEF Stop
<1>3. ASSUME NEW c \in Connection, Acts(c)
      PROVE  connections' \in [Connection -> ConnectionType]
  BY <1>1, <1>3, ActorStep, TypeFacts DEF OnlyActor
<1>4. QED  BY <1>2, <1>3, RunningIs

LEMMA RunningTypes ==
    ASSUME Base, Running
    PROVE  TypeOK'
<1>1. TypeOK
  BY DEF Base
<1>2. store' \in {NoImage} \cup Image /\ answered' \in AnsweredType /\ lapsed' \in BOOLEAN
  <2>1. CASE UNCHANGED disk
    BY <1>1, <2>1 DEF TypeOK, disk, AnsweredType
  <2>2. QED  BY <2>1, DiskStays, WriteTypes
<1>3. epoch' \in 0..MaxEpoch
  BY <1>1, ProcessStays DEF TypeOK
<1>4. status' \in {"down", "running", "stopping"}
  BY <1>1, ProcessStays DEF TypeOK
<1>5. QED
  BY <1>2, <1>3, <1>4, RuntimeTypes, RegistryTypes, ConnectionTypes DEF TypeOK, AnsweredType

-----------------------------------------------------------------------------
(* The other parts of the invariant, while a process runs.                 *)

LEMMA SealedStep ==
    ASSUME Base, Running
    PROVE  Sealed(authority', digest', epoch)
<1> SUFFICES ASSUME NEW p \in Path
             PROVE
                /\ authority'[p].generation = 0 => authority'[p].state = "UNKNOWN" /\ ~authority'[p].revoked
                /\ authority'[p].generation # 0 => digest'[p] # NoDigest
                /\ digest'[p] # NoDigest => digest'[p][2] <= epoch
                /\ authority'[p].state \in AuthorizingState =>
                      digest'[p] # NoDigest /\ digest'[p] = <<authority'[p].state, epoch>>
                /\ digest'[p] # NoDigest /\ digest'[p][2] = epoch /\ digest'[p][1] \in AuthorizingState
                      => authority'[p].state = digest'[p][1]
  BY DEF Sealed
<1>1. authority[p].generation \in Nat /\ epoch \in Nat
  BY TypeFacts DEF Base
<1>2. CASE Keeps(p)
  BY <1>2 DEF Keeps, Base, Sealed
<1>3. CASE Withdraws(p)
  <2>1. digest[p] # NoDigest /\ digest[p][2] <= epoch
    BY <1>3 DEF Withdraws, Runtime!Decided, Base, Sealed
  <2>2. authority'[p].generation # 0 /\ authority'[p].state \notin AuthorizingState
    BY <1>1, <1>3 DEF Withdraws, AuthorizingState
  <2>3. /\ digest'[p] = <<authority'[p].state, digest[p][2]>> /\ digest'[p] # NoDigest
        /\ digest'[p][1] = authority'[p].state /\ digest'[p][2] = digest[p][2]
    BY <1>3 DEF Withdraws, NoDigest
  <2>4. QED  BY <2>1, <2>2, <2>3
<1>4. ASSUME NEW c \in Connection, Stores(p, c)
      PROVE  /\ authority'[p].generation # 0
             /\ digest'[p] = <<authority'[p].state, epoch>> /\ digest'[p] # NoDigest
             /\ digest'[p][1] = authority'[p].state /\ digest'[p][2] = epoch
  BY <1>1, <1>4 DEF Stores, NoDigest
<1>5. QED  BY <1>1, <1>2, <1>3, <1>4, RecordStep

\* An image is of this process: it is kept, or taken of the records as they are.
LEMMA ImageStep ==
    ASSUME Base, Running, NEW d \in Connection, connections'[d].image # NoImage
    PROVE  \/ /\ connections[d].image # NoImage
              /\ connections'[d].image.epoch = connections[d].image.epoch
              /\ connections'[d].image.authority = connections[d].image.authority
              /\ connections'[d].image.digest = connections[d].image.digest
           \/ /\ connections'[d].image.epoch = epoch
              /\ connections'[d].image.authority = authority
              /\ connections'[d].image.digest = digest
<1>1. TypeOK /\ connections[d] \in ConnectionType
  BY TypeFacts DEF Base
<1>2. CASE connections'[d].image = connections[d].image
  BY <1>2
<1>3. CASE Answer(d)
  <2>1. connections'[d] = Rested(d)
    BY <1>1, <1>3, AnswerConnection
  <2>2. QED  BY <2>1 DEF Rested
<1>4. CASE Persist(d)
  <2>1. Set(d, [pc |-> "export", request |-> NoRequest, answer |-> AnswerOf(d)])
    BY <1>4 DEF Persist, AnswerOf
  <2> HIDE DEF AnswerOf
  <2>2. connections'[d].image = connections[d].image
    BY <1>1, <2>1, SetKeepsImage
  <2>3. QED  BY <1>2, <2>2
<1>5. ASSUME NEW fields, Set(d, fields), "image" \notin DOMAIN fields
      PROVE  connections'[d].image = connections[d].image
  BY <1>1, <1>5, SetKeepsImage
<1>6. CASE Export(d)
  <2> DEFINE image == [epoch |-> epoch, authority |-> authority, digest |-> digest, fenced |-> {}]
  <2>1. Set(d, [pc |-> "gather", image |-> image])
    BY <1>6 DEF Export
  <2> HIDE DEF image
  <2>2. connections'[d].image = image
    BY <1>1, <2>1, SetGivesImage
  <2>3. QED  BY <2>2 DEF image
<1>7. CASE Gather(d)
  <2> DEFINE image == [connections[d].image EXCEPT
                          !.fenced = fenced \cup {w \in Worker : Registered(w)}]
  <2>1. connections[d].image \in Image /\ connections[d].image # NoImage
    BY <1>1, <1>7 DEF Gather, At, Base, RequestsStand, RequestStands, ConnectionType
  <2>2. Set(d, [pc |-> "write", image |-> image])
    BY <1>7 DEF Gather
  <2>3. /\ image.epoch = connections[d].image.epoch
        /\ image.authority = connections[d].image.authority
        /\ image.digest = connections[d].image.digest
    BY <2>1 DEF Image
  <2> HIDE DEF image
  <2>4. connections'[d].image = image
    BY <1>1, <2>2, SetGivesImage
  <2>5. QED  BY <2>1, <2>3, <2>4
<1>8. CASE Reap(d)
  BY <1>1, <1>8 DEF Reap, TypeOK, Free
<1>9. CASE Stop
  <2>1. connections'[d] = [connections[d] EXCEPT !.socket = IF @ = "open" THEN "closed" ELSE @]
    BY <1>9 DEF Stop
  <2>2. connections'[d].image = connections[d].image
    BY <1>1, <2>1 DEF ConnectionType
  <2>3. QED  BY <1>2, <2>2
<1>10. ASSUME NEW c \in Connection, Acts(c), c # d
       PROVE  connections'[d] = connections[d]
  BY <1>10, ActorStep DEF OnlyActor
<1>11. CASE Handle(d)
  <2>1. CASE AcceptPublication(d) \/ AcceptRevocation(d)
    <3>1. Set(d, [pc |-> "commit"])
      BY <2>1 DEF AcceptPublication, AcceptRevocation
    <3>2. QED  BY <1>2, <1>5, <3>1
  <2>2. CASE Fence(d) \/ Leave(d) \/ \E w \in Identity : Withdraw(d, w)
    <3>1. CASE Fence(d)
      <4>1. Set(d, [pc |-> "withdraw", lost |-> Identities(LostWith(d)), workers |-> {}])
        BY <3>1 DEF Fence
      <4>2. QED  BY <1>2, <1>5, <4>1
    <3>2. CASE Leave(d)
      <4>1. Set(d, [socket |-> "finished", workers |-> {}])
        BY <3>2 DEF Leave
      <4>2. QED  BY <1>2, <1>5, <4>1
    <3>3. ASSUME NEW w \in Identity, Withdraw(d, w)
          PROVE  connections'[d].image = connections[d].image
      <4>1. Set(d, [lost |-> connections[d].lost \ {w},
                    pc |-> IF connections[d].lost = {w} THEN "export" ELSE "withdraw"])
        BY <3>3 DEF Withdraw
      <4>2. QED  BY <1>5, <4>1
    <3>4. QED  BY <1>2, <2>2, <3>1, <3>2, <3>3
  <2>3. \/ Answer(d) \/ Persist(d)
        \/ AcceptPublication(d) \/ AcceptRevocation(d) \/ Fence(d) \/ Leave(d)
        \/ \E w \in Identity : Withdraw(d, w)
        \/ Export(d) \/ Gather(d)
    BY <1>11 DEF Handle, Refuse, RejectCommit, RejectRevoke, Write, Commit, ReplayCommit, Revoke
  <2>4. QED  BY <1>3, <1>4, <1>6, <1>7, <2>1, <2>2, <2>3
<1>12. CASE Client(d) \/ Accept(d)
  <2>1. ASSUME NEW x \in Publisher, NEW w \in Worker, Register(d, x, w)
        PROVE  connections'[d].image = connections[d].image
    <3>1. Set(d, [workers |-> connections[d].workers \cup {w}])
      BY <2>1 DEF Register
    <3>2. QED  BY <1>5, <3>1
  <2>2. ASSUME NEW request \in RequestType, Receive(d, request)
        PROVE  connections'[d].image = connections[d].image
    <3>1. Set(d, [pc |-> "registered", request |-> request])
      BY <2>2 DEF Receive
    <3>2. QED  BY <1>5, <3>1
  <2>3. CASE Disconnect(d) \/ Accept(d)
    <3>1. Set(d, [socket |-> "closed"]) \/ Set(d, [socket |-> "open"])
      BY <2>3 DEF Disconnect, Accept
    <3>2. QED  BY <1>2, <1>5, <3>1
  <2>4. QED  BY <1>2, <1>12, <2>1, <2>2, <2>3, ReceivedRequest
<1>13. QED  BY <1>2, <1>8, <1>9, <1>10, <1>11, <1>12, RunningIs DEF Acts

LEMMA ImagesSealedStep ==
    ASSUME Base, Running
    PROVE  ImagesSealed'
<1>1. ASSUME NEW c \in Connection, connections'[c].image # NoImage
      PROVE  /\ connections'[c].image.epoch = epoch
             /\ Sealed(connections'[c].image.authority, connections'[c].image.digest, epoch)
  BY <1>1, ImageStep DEF Base, ImagesSealed
<1>2. ASSUME store' # NoImage
      PROVE  /\ Sealed(store'.authority, store'.digest, store'.epoch)
             /\ store'.epoch <= epoch
  <2>1. CASE store' = store
    BY <1>2, <2>1, ProcessStays DEF Base, ImagesSealed
  <2>2. ASSUME NEW c \in Connection, Write(c), store' = connections[c].image
        PROVE  /\ Sealed(store'.authority, store'.digest, store'.epoch)
               /\ store'.epoch <= epoch
    BY <1>2, <2>2, TypeFacts DEF Base, ImagesSealed
  <2>3. CASE \E c \in Connection : Write(c)
    BY <2>1, <2>2, <2>3 DEF Write
  <2>4. QED  BY <2>1, <2>3, DiskStays DEF disk
<1>3. epoch' = epoch /\ status' # "down"
  BY ProcessStays
<1>4. ASSUME NEW c \in Connection, (connections[c].image # NoImage)'
      PROVE  /\ (connections[c].image.epoch = epoch)'
             /\ Sealed(connections[c].image.authority, connections[c].image.digest, epoch)'
  BY <1>1, <1>3, <1>4 DEF Sealed
<1>5. ASSUME (store # NoImage)'
      PROVE  Sealed(store.authority, store.digest, store.epoch)' /\ (store.epoch <= epoch)'
  BY <1>2, <1>3, <1>5 DEF Sealed
<1>6. QED  BY <1>4, <1>5 DEF ImagesSealed

\* What a step leaves of a thread's place, its request and its image.
LEMMA SetThread ==
    ASSUME TypeOK, NEW c \in Connection, NEW fields, Set(c, fields)
    PROVE  /\ connections'[c].pc =
                IF "pc" \in DOMAIN fields THEN fields["pc"] ELSE connections[c].pc
           /\ connections'[c].request =
                IF "request" \in DOMAIN fields THEN fields["request"] ELSE connections[c].request
           /\ connections'[c].image =
                IF "image" \in DOMAIN fields THEN fields["image"] ELSE connections[c].image
<1>1. "pc" \in DOMAIN Free /\ "request" \in DOMAIN Free /\ "image" \in DOMAIN Free
  BY DEF Free
<1>2. connections'[c].pc = IF "pc" \in DOMAIN fields THEN fields["pc"] ELSE connections[c].pc
  BY <1>1, SetField
<1>3. connections'[c].request =
        IF "request" \in DOMAIN fields THEN fields["request"] ELSE connections[c].request
  BY <1>1, SetField
<1>4. connections'[c].image =
        IF "image" \in DOMAIN fields THEN fields["image"] ELSE connections[c].image
  BY <1>1, SetField
<1>5. QED  BY <1>2, <1>3, <1>4

LEMMA StandsWhenKept ==
    ASSUME Base, NEW d \in Connection, epoch' = epoch, asked'[d] = asked[d],
           connections'[d].pc = connections[d].pc,
           connections'[d].request = connections[d].request,
           connections'[d].image = connections[d].image
    PROVE  RequestStands(d)'
BY DEF Base, RequestsStand, RequestStands, Request

\* It is past its checks, at a step that needs neither a request nor an image.
LEMMA StandsAtRest ==
    ASSUME NEW d \in Connection,
           connections'[d].pc \in {"receive", "withdraw", "export"}
    PROVE  RequestStands(d)'
BY DEF RequestStands

LEMMA StandsWhenAccepted ==
    ASSUME Base, NEW d \in Connection, epoch' = epoch,
           AcceptPublication(d) \/ AcceptRevocation(d)
    PROVE  RequestStands(d)'
<1>1. TypeOK
  BY DEF Base
<1>2. Set(d, [pc |-> "commit"])
  BY DEF AcceptPublication, AcceptRevocation
<1>3. /\ connections'[d].pc = "commit" /\ connections'[d].request = connections[d].request
  BY <1>1, <1>2, SetThread
<1>4. /\ Request(d) \in RequestType /\ Request(d).epoch = epoch
      /\ Request(d).kind = "revoke" => Request(d).state = "REVOKED"
  BY DEF AcceptPublication, AcceptRevocation, At, Refused, Base, RequestsStand, RequestStands
<1>5. Request(d).kind = "publish" =>
          asked'[d] # Runtime!NoQuestion /\ asked'[d][1] = Request(d).path
  <2>1. CASE AcceptRevocation(d)
    BY <2>1 DEF AcceptRevocation
  <2>2. CASE AcceptPublication(d)
    <3>1. asked'[d] = <<Request(d).path, Request(d).expected>>
      BY <1>1, <2>2 DEF AcceptPublication, Runtime!Ask, TypeOK, Runtime!TypeOK
    <3>2. QED  BY <3>1 DEF Runtime!NoQuestion
  <2>3. QED  BY <2>1, <2>2
<1>6. QED  BY <1>3, <1>4, <1>5 DEF RequestStands, Request

LEMMA StandsWhenReceived ==
    ASSUME Base, NEW d \in Connection, epoch' = epoch, Client(d) \/ Accept(d)
    PROVE  RequestStands(d)'
<1>1. TypeOK
  BY DEF Base
<1>2. asked' = asked
  BY ClientIs DEF Accept, runtime
<1>3. ASSUME NEW x \in Publisher, NEW w \in Worker, Register(d, x, w) PROVE RequestStands(d)'
  <2>1. Set(d, [workers |-> connections[d].workers \cup {w}])
    BY <1>3 DEF Register
  <2>2. QED  BY <1>1, <1>2, <2>1, SetThread, StandsWhenKept
<1>4. ASSUME NEW request \in RequestType, Receive(d, request),
             request.kind = "revoke" => request.state = "REVOKED"
      PROVE  RequestStands(d)'
  <2>1. Set(d, [pc |-> "registered", request |-> request])
    BY <1>4 DEF Receive
  <2>2. connections'[d].pc = "registered" /\ connections'[d].request = request
    BY <1>1, <2>1, SetThread
  <2>3. QED  BY <1>4, <2>2 DEF RequestStands, Request
<1>5. CASE Disconnect(d)
  <2>1. Set(d, [socket |-> "closed"])
    BY <1>5 DEF Disconnect
  <2>2. QED  BY <1>1, <1>2, <2>1, SetThread, StandsWhenKept
<1>6. CASE Accept(d)
  <2>1. Set(d, [socket |-> "open"])
    BY <1>6 DEF Accept
  <2>2. QED  BY <1>1, <1>2, <2>1, SetThread, StandsWhenKept
<1>7. QED  BY <1>3, <1>4, <1>5, <1>6, ReceivedRequest

LEMMA StandsWhenHandled ==
    ASSUME Base, Running, NEW d \in Connection, Handle(d)
    PROVE  RequestStands(d)'
<1>1. TypeOK /\ epoch' = epoch
  BY ProcessStays DEF Base
<1>2. CASE Answer(d)
  <2>1. Set(d, [pc |-> "receive", request |-> NoRequest, image |-> NoImage, answer |-> NoAnswer])
    BY <1>2 DEF Answer
  <2>2. connections'[d].pc = "receive"
    BY <1>1, <2>1, SetThread
  <2>3. QED  BY <2>2, StandsAtRest
<1>3. CASE Persist(d)
  <2>1. Set(d, [pc |-> "export", request |-> NoRequest, answer |-> AnswerOf(d)])
    BY <1>3 DEF Persist, AnswerOf
  <2> HIDE DEF AnswerOf
  <2>2. connections'[d].pc = "export"
    BY <1>1, <2>1, SetThread
  <2>3. QED  BY <2>2, StandsAtRest
<1>4. CASE AcceptPublication(d) \/ AcceptRevocation(d)
  BY <1>1, <1>4, StandsWhenAccepted
<1>5. CASE Fence(d)
  <2>1. Set(d, [pc |-> "withdraw", lost |-> Identities(LostWith(d)), workers |-> {}])
    BY <1>5 DEF Fence
  <2> HIDE DEF LostWith
  <2>2. connections'[d].pc = "withdraw"
    BY <1>1, <2>1, SetThread
  <2>3. QED  BY <2>2, StandsAtRest
<1>6. CASE Leave(d)
  <2>1. Set(d, [socket |-> "finished", workers |-> {}]) /\ asked' = asked
    BY <1>6 DEF Leave, runtime
  <2>2. QED  BY <1>1, <2>1, SetThread, StandsWhenKept
<1>7. ASSUME NEW w \in Identity, Withdraw(d, w) PROVE RequestStands(d)'
  <2> DEFINE next == IF connections[d].lost = {w} THEN "export" ELSE "withdraw"
  <2>1. Set(d, [lost |-> connections[d].lost \ {w}, pc |-> next])
    BY <1>7 DEF Withdraw
  <2>2. next \in {"export", "withdraw"}
    OBVIOUS
  <2> HIDE DEF next
  <2>3. connections'[d].pc = next
    BY <1>1, <2>1, SetThread
  <2>4. QED  BY <2>2, <2>3, StandsAtRest
<1>8. CASE Export(d)
  <2> DEFINE image == [epoch |-> epoch, authority |-> authority, digest |-> digest, fenced |-> {}]
  <2>1. Set(d, [pc |-> "gather", image |-> image]) /\ image # NoImage
    BY <1>8 DEF Export, NoImage
  <2> HIDE DEF image
  <2>2. connections'[d].pc = "gather" /\ connections'[d].image = image
    BY <1>1, <2>1, SetThread
  <2>3. QED  BY <2>1, <2>2 DEF RequestStands
<1>9. CASE Gather(d)
  <2> DEFINE known == fenced \cup {w \in Worker : Registered(w)}
             image == [connections[d].image EXCEPT !.fenced = known]
  <2>1. connections[d].image \in Image
    BY <1>1, <1>9, TypeFacts
       DEF Gather, At, Base, RequestsStand, RequestStands, ConnectionType
  <2>2. Set(d, [pc |-> "write", image |-> image])
    BY <1>9 DEF Gather
  <2> HIDE DEF known
  <2>3. image # NoImage
    BY <2>1 DEF Image, NoImage
  <2> HIDE DEF image
  <2>4. connections'[d].pc = "write" /\ connections'[d].image = image
    BY <1>1, <2>2, SetThread
  <2>5. QED  BY <2>3, <2>4 DEF RequestStands
<1>10. QED
  BY <1>2, <1>3, <1>4, <1>5, <1>6, <1>7, <1>8, <1>9
     DEF Handle, Refuse, RejectCommit, RejectRevoke, Write, Commit, ReplayCommit, Revoke

LEMMA RequestsStandStep ==
    ASSUME Base, Running
    PROVE  RequestsStand'
<1>1. TypeOK /\ epoch' = epoch
  BY ProcessStays DEF Base
<1> SUFFICES ASSUME NEW d \in Connection PROVE RequestStands(d)'
  BY DEF RequestsStand
<1>2. ASSUME NEW c \in Connection, Acts(c), c # d PROVE RequestStands(d)'
  <2>1. connections'[d] = connections[d] /\ asked'[d] = asked[d]
    BY <1>2, ActorStep DEF OnlyActor
  <2>2. QED  BY <1>1, <2>1, StandsWhenKept
<1>3. CASE Reap(d)
  <2>1. connections'[d] = Free
    BY <1>1, <1>3 DEF Reap, TypeOK
  <2>2. connections'[d].pc = "receive"
    BY <2>1 DEF Free
  <2>3. QED  BY <2>2, StandsAtRest
<1>4. CASE Stop
  <2>1. connections'[d] = [connections[d] EXCEPT !.socket = IF @ = "open" THEN "closed" ELSE @]
    BY <1>4 DEF Stop
  <2>2. /\ connections'[d].pc = connections[d].pc
        /\ connections'[d].request = connections[d].request
        /\ connections'[d].image = connections[d].image
    BY <1>1, <2>1, TypeFacts DEF ConnectionType
  <2>3. QED  BY <1>1, <1>4, <2>2, StandsWhenKept DEF Stop, runtime
<1>5. CASE Acts(d)
  BY <1>1, <1>3, <1>5, StandsWhenHandled, StandsWhenReceived DEF Acts
<1>6. QED  BY <1>2, <1>4, <1>5, RunningIs

-----------------------------------------------------------------------------
(* The invariant through a crash and a start.                              *)

LEMMA CrashBase ==
    ASSUME Base, Crash
    PROVE  Base'
<1>1. TypeOK
  BY DEF Base
<1>2. ASSUME NEW c \in Connection
      PROVE  connections'[c] = Free /\ connections'[c].pc = "receive"
             /\ connections'[c].image = NoImage
  <2>1. connections'[c] = Free
    BY DEF Crash
  <2>2. QED  BY <2>1 DEF Free
<1>3. ASSUME NEW p \in Path
      PROVE  /\ authority'[p] = Runtime!Undecided
             /\ authority'[p].generation = 0 /\ authority'[p].state = "UNKNOWN"
             /\ ~authority'[p].revoked
             /\ digest'[p] = NoDigest
  BY DEF Crash, Runtime!Undecided
<1>4. TypeOK'
  <2>1. Runtime!TypeOK'
    BY UndecidedType DEF Crash, Runtime!TypeOK
  <2>2. connections' \in [Connection -> ConnectionType]
    BY FreeType DEF Crash
  <2>3. epoch' \in 0..MaxEpoch
    BY ConstantFacts DEF Crash
  <2>4. digest' \in [Path -> {NoDigest} \cup (AuthorityState \X (1..MaxEpoch))]
    BY DEF Crash
  <2>5. /\ workers' \in [Worker -> Connection \cup {NoConnection}] /\ fenced' \in SUBSET Worker
        /\ publishers' \in [Worker -> Publisher] /\ status' = "down"
    BY ConstantFacts DEF Crash
  <2>6. UNCHANGED disk
    BY DEF Crash
  <2>7. QED  BY <1>1, <2>1, <2>2, <2>3, <2>4, <2>5, <2>6 DEF TypeOK, disk
<1>5. DownIsEmpty'
  BY <1>2 DEF DownIsEmpty, Crash, Registered
<1>6. RequestsStand'
  BY <1>2, StandsAtRest DEF RequestsStand
<1>7. Sealed(authority', digest', epoch')
  BY <1>3 DEF Sealed, AuthorizingState
<1>8. ImagesSealed'
  <2>1. status' = "down" /\ store' = store
    BY DEF Crash, disk
  <2>2. store # NoImage => Sealed(store.authority, store.digest, store.epoch)
    BY DEF Base, ImagesSealed
  <2>3. QED  BY <1>2, <2>1, <2>2 DEF ImagesSealed, Sealed
<1>9. QED  BY <1>4, <1>5, <1>6, <1>7, <1>8 DEF Base, Sealed

\* A process that starts owns an epoch after that of the image it recovers.
LEMMA StartEpoch ==
    ASSUME Base, Start
    PROVE  /\ epoch' \in 1..MaxEpoch
           /\ store # NoImage => store.epoch \in Nat /\ epoch' > store.epoch
<1> DEFINE recovered == IF store = NoImage THEN 0 ELSE store.epoch
<1>1. store # NoImage => store.epoch \in 1..MaxEpoch
  BY DEF Base, TypeOK, Image
<1>2. recovered \in Nat /\ recovered < MaxEpoch
  BY <1>1, ConstantFacts DEF Start, Recoverable
<1>3. PICK override \in Override :
          (override = 0 \/ override > recovered) /\ epoch' = NextEpoch(recovered, override)
  BY DEF Start
<1>4. override \in 0..MaxEpoch
  BY <1>3, CoordinatorAssumption
<1> HIDE DEF recovered
<1>5. epoch' \in 1..MaxEpoch /\ epoch' > recovered
  BY <1>2, <1>3, <1>4, ConstantFacts DEF NextEpoch
<1>6. QED  BY <1>1, <1>5, ConstantFacts DEF recovered

LEMMA RecoveredIs ==
    ASSUME NEW a \in Runtime!Authority, HadAuthority(a) => a.generation < MaxGeneration
    PROVE  /\ Recovered(a) \in Runtime!Authority
           /\ Recovered(a).generation >= a.generation
           /\ Recovered(a).generation = a.generation => Recovered(a) = a
           /\ Recovered(a).revoked = a.revoked
           /\ Recovered(a).worker = a.worker
           /\ a.generation = 0 => Recovered(a) = a
           /\ a.generation # 0 => Recovered(a).state \notin AuthorizingState
<1>1. a.generation \in 0..MaxGeneration /\ a.generation \in Nat
  BY AuthorityIs, ConstantFacts
<1>2. CASE HadAuthority(a)
  <2>1. "REVALIDATION_REQUIRED" \in AuthorityState /\ a.generation # MaxGeneration
    BY <1>1, <1>2, ConstantFacts DEF AuthorityState
  <2> DEFINE n == Runtime!Advanced(a, "REVALIDATION_REQUIRED")
  <2>2. /\ n \in Runtime!Authority
        /\ n.generation = a.generation + 1 /\ n.state = "REVALIDATION_REQUIRED"
        /\ n.revoked = a.revoked /\ n.worker = a.worker
    BY <2>1, AdvancedIs
  <2> HIDE DEF n
  <2>3. Recovered(a) = n
    BY <1>2 DEF Recovered, n
  <2>4. a.generation # 0
    BY <1>2 DEF HadAuthority
  <2>5. QED  BY <1>1, <2>2, <2>3, <2>4 DEF AuthorizingState
<1>3. CASE ~HadAuthority(a)
  BY <1>1, <1>3 DEF Recovered, HadAuthority, RecoveredState
<1>4. QED  BY <1>2, <1>3

\* What is recovered, and from which record.
LEMMA StartRecords ==
    ASSUME Base, Start, NEW p \in Path
    PROVE  /\ store = NoImage => authority'[p] = authority[p] /\ digest'[p] = digest[p]
           /\ store # NoImage =>
                 /\ store.authority[p] \in Runtime!Authority
                 /\ HadAuthority(store.authority[p]) =>
                       store.authority[p].generation < MaxGeneration
                 /\ authority'[p] = Recovered(store.authority[p])
                 /\ digest'[p] = store.digest[p]
                 /\ digest'[p] \in {NoDigest} \cup (AuthorityState \X (1..MaxEpoch))
<1>1. store # NoImage => store \in Image
  BY DEF Base, TypeOK
<1>2. QED  BY <1>1 DEF Start, Recoverable, Image

LEMMA StartBase ==
    ASSUME Base, Start
    PROVE  Base'
<1>1. TypeOK /\ status = "down" /\ status' = "running"
  BY DEF Base, Start
<1>2. /\ connections' = connections /\ asked' = asked /\ workers' = workers
      /\ publishers' = publishers /\ UNCHANGED disk
  BY DEF Start
<1>3. ASSUME NEW c \in Connection
      PROVE  connections'[c].pc = "receive" /\ connections'[c].image = NoImage
  <2>1. connections'[c] = Free
    BY <1>1, <1>2 DEF Base, DownIsEmpty
  <2>2. QED  BY <2>1 DEF Free
<1>4. TypeOK'
  <2>1. authority' \in [Path -> Runtime!Authority]
    <3>1. CASE store = NoImage
      BY <1>1, <3>1 DEF Start, TypeOK, Runtime!TypeOK
    <3>2. CASE store # NoImage
      BY <3>2, StartRecords, RecoveredIs DEF Start
    <3>3. QED  BY <3>1, <3>2
  <2>2. digest' \in [Path -> {NoDigest} \cup (AuthorityState \X (1..MaxEpoch))]
    BY <1>1 DEF Start, TypeOK, Image
  <2>3. fenced' \in SUBSET Worker
    BY <1>1 DEF Start, TypeOK, Image
  <2>4. epoch' \in 0..MaxEpoch
    BY StartEpoch, ConstantFacts
  <2>5. Runtime!TypeOK'
    BY <1>1, <1>2, <2>1 DEF TypeOK, Runtime!TypeOK
  <2>6. QED  BY <1>1, <1>2, <2>2, <2>3, <2>4, <2>5 DEF TypeOK, disk
<1>5. DownIsEmpty'
  BY <1>1, StartEpoch DEF DownIsEmpty
<1>6. RequestsStand'
  BY <1>3, StandsAtRest DEF RequestsStand
<1>7. Sealed(authority', digest', epoch')
  <2> SUFFICES ASSUME NEW p \in Path
               PROVE
                  /\ authority'[p].generation = 0 => authority'[p].state = "UNKNOWN" /\ ~authority'[p].revoked
                  /\ authority'[p].generation # 0 => digest'[p] # NoDigest
                  /\ digest'[p] # NoDigest => digest'[p][2] <= epoch'
                  /\ authority'[p].state \in AuthorizingState =>
                        digest'[p] # NoDigest /\ digest'[p] = <<authority'[p].state, epoch'>>
                  /\ digest'[p] # NoDigest /\ digest'[p][2] = epoch' /\ digest'[p][1] \in AuthorizingState
                        => authority'[p].state = digest'[p][1]
    BY DEF Sealed
  <2>1. epoch = 0 /\ epoch' \in Nat /\ epoch' > 0
    BY <1>1, StartEpoch, ConstantFacts DEF Base, DownIsEmpty
  <2>2. CASE store = NoImage
    <3>1. authority'[p] = authority[p] /\ digest'[p] = digest[p]
      BY <2>2, StartRecords
    <3>2. digest[p] = NoDigest
      <4>1. digest[p] # NoDigest => digest[p][2] \in 1..MaxEpoch
        BY <1>1, TypeFacts
      <4>2. digest[p] # NoDigest => digest[p][2] <= 0
        BY <2>1 DEF Base, Sealed
      <4>3. QED  BY <4>1, <4>2
    <3>3. QED  BY <3>1, <3>2 DEF Base, Sealed
  <2>3. CASE store # NoImage
    <3>1. Sealed(store.authority, store.digest, store.epoch)
      BY <2>3 DEF Base, ImagesSealed
    <3> DEFINE a == store.authority[p]
    <3>2. /\ authority'[p] = Recovered(a) /\ digest'[p] = store.digest[p]
          /\ Recovered(a).generation >= a.generation
          /\ a.generation = 0 => Recovered(a) = a
          /\ a.generation # 0 => Recovered(a).state \notin AuthorizingState
          /\ a.generation \in Nat /\ Recovered(a).generation \in Nat
          /\ digest'[p] \in {NoDigest} \cup (AuthorityState \X (1..MaxEpoch))
      BY <2>3, StartRecords, RecoveredIs, AuthorityIs, ConstantFacts
    <3>3. epoch' > store.epoch /\ store.epoch \in Nat
      BY <2>3, StartEpoch
    <3>4. digest'[p] # NoDigest => digest'[p][2] \in Nat /\ digest'[p][2] <= store.epoch
      <4>1. digest'[p] # NoDigest => digest'[p][2] \in Nat
        BY <3>2, ConstantFacts
      <4>2. QED  BY <3>1, <3>2, <4>1 DEF Sealed
    <3>5. authority'[p].state \notin AuthorizingState
      BY <3>1, <3>2 DEF Sealed, AuthorizingState
    <3>6. authority'[p].generation = 0 =>
              a.generation = 0 /\ authority'[p].state = "UNKNOWN" /\ ~authority'[p].revoked
      BY <3>1, <3>2 DEF Sealed
    <3>7. authority'[p].generation # 0 => digest'[p] # NoDigest
      <4>1. authority'[p].generation # 0 => a.generation # 0
        BY <3>2
      <4>2. QED  BY <3>1, <3>2, <4>1 DEF Sealed
    <3>8. QED  BY <2>1, <3>3, <3>4, <3>5, <3>6, <3>7
  <2>4. QED  BY <2>2, <2>3
<1>8. ImagesSealed'
  <2>1. store # NoImage =>
            Sealed(store.authority, store.digest, store.epoch) /\ store.epoch <= epoch'
    BY StartEpoch, ConstantFacts DEF Base, ImagesSealed
  <2>2. QED  BY <1>2, <1>3, <2>1 DEF ImagesSealed, Sealed, disk
<1>9. QED  BY <1>4, <1>5, <1>6, <1>7, <1>8 DEF Base, Sealed

LEMMA InitBase == Init => Base
<1> SUFFICES ASSUME Init PROVE Base
  OBVIOUS
<1>1. ASSUME NEW c \in Connection
      PROVE  connections[c] = Free /\ connections[c].pc = "receive"
             /\ connections[c].image = NoImage
  BY DEF Init, Free
<1>2. ASSUME NEW p \in Path
      PROVE  /\ authority[p].generation = 0 /\ authority[p].state = "UNKNOWN"
             /\ ~authority[p].revoked
             /\ digest[p] = NoDigest
  BY DEF Init, Runtime!Init, Runtime!Undecided
<1>3. TypeOK
  <2>1. Runtime!TypeOK
    BY UndecidedType DEF Init, Runtime!Init, Runtime!TypeOK
  <2>2. connections \in [Connection -> ConnectionType]
    BY FreeType DEF Init
  <2>3. 0 \in 0..MaxEpoch /\ 0 \in 0..MaxGeneration /\ "UNKNOWN" \in AuthorityState
    BY ConstantFacts DEF AuthorityState
  <2>4. answered \in [epoch : 0..MaxEpoch,
                      decision : [Path -> (0..MaxGeneration) \X AuthorityState],
                      revoked : SUBSET Path]
    BY <2>3 DEF Init
  <2>5. digest \in [Path -> {NoDigest} \cup (AuthorityState \X (1..MaxEpoch))]
    BY DEF Init
  <2>6. publishers \in [Worker -> Publisher]
    BY ConstantFacts DEF Init
  <2>7. QED  BY <2>1, <2>2, <2>3, <2>4, <2>5, <2>6 DEF Init, TypeOK
<1>4. DownIsEmpty
  BY <1>1 DEF Init, DownIsEmpty, Registered
<1>5. RequestsStand
  BY <1>1 DEF RequestsStand, RequestStands
<1>6. Sealed(authority, digest, epoch)
  BY <1>2 DEF Sealed, AuthorizingState
<1>7. ImagesSealed
  BY <1>1 DEF ImagesSealed, Init
<1>8. QED  BY <1>3, <1>4, <1>5, <1>6, <1>7 DEF Base

LEMMA NextBase == Base /\ [Next]_vars => Base'
<1> SUFFICES ASSUME Base, [Next]_vars PROVE Base'
  OBVIOUS
<1>1. CASE Running
  <2>1. DownIsEmpty'
    BY <1>1, ProcessStays DEF Base, DownIsEmpty
  <2>2. Sealed(authority', digest', epoch')
    BY <1>1, SealedStep, ProcessStays
  <2>3. QED
    BY <1>1, <2>1, <2>2, RunningTypes, RequestsStandStep, ImagesSealedStep DEF Base, Sealed
<1>2. CASE Crash
  BY <1>2, CrashBase
<1>3. CASE Start
  BY <1>3, StartBase
<1>4. CASE UNCHANGED vars
  <2>1. UNCHANGED <<runtime, process, registry, connections, disk>>
    BY <1>4 DEF vars
  <2>2. TypeOK'
    BY <2>1 DEF Base, TypeOK, Runtime!TypeOK, runtime, process, registry, disk
  <2>3. DownIsEmpty'
    BY <2>1 DEF Base, DownIsEmpty, Registered, process, registry
  <2>4. RequestsStand'
    BY <2>1 DEF Base, RequestsStand, RequestStands, Request, runtime, process
  <2>5. /\ authority' = authority /\ digest' = digest /\ status' = status /\ epoch' = epoch
        /\ connections' = connections /\ store' = store
    BY <2>1 DEF runtime, process, disk
  <2>6. Sealed(authority, digest, epoch)'
    BY <2>5 DEF Base, Sealed
  <2>7. ASSUME NEW c \in Connection, (connections[c].image # NoImage)'
        PROVE  /\ (connections[c].image.epoch = epoch)'
               /\ Sealed(connections[c].image.authority, connections[c].image.digest, epoch)'
    BY <2>5, <2>7 DEF Base, ImagesSealed, Sealed
  <2>8. ASSUME (store # NoImage)'
        PROVE  /\ Sealed(store.authority, store.digest, store.epoch)'
               /\ (status # "down" => store.epoch <= epoch)'
    BY <2>5, <2>8 DEF Base, ImagesSealed, Sealed
  <2>9. QED  BY <2>2, <2>3, <2>4, <2>6, <2>7, <2>8 DEF Base, ImagesSealed
<1>5. QED  BY <1>1, <1>2, <1>3, <1>4 DEF Running

LEMMA SpecBase == Spec => []Base
BY InitBase, NextBase, PTL DEF Spec

\* Every thread, record, image and answer keeps its type, through crashes and restarts.
THEOREM CoordinatorTypeCorrect == Spec => []TypeOK
<1>1. Base => TypeOK
  BY DEF Base
<1>2. QED  BY <1>1, SpecBase, PTL

\* Live authority was decided by this process under its epoch: import_state() restores
\* none, and the epochs of before are refused.
THEOREM LiveIsAlwaysOfThisEpoch == Spec => []LiveIsOfThisEpoch
<1>1. Base => LiveIsOfThisEpoch
  BY DEF Base, Sealed, LiveIsOfThisEpoch, Live
<1>2. QED  BY <1>1, SpecBase, PTL

\* publish_decision() takes a publication for a replay by the authority digest alone: what
\* it then answers as accepted is the state the path is in.
THEOREM AcceptedIsAlwaysAuthority == Spec => AcceptedIsAuthority
<1>1. ASSUME Base, [Next]_vars, NEW c \in Connection,
             At(c, "commit"), connections'[c].pc = "export",
             Request(c).state \in AuthorizingState
      PROVE  authority'[Request(c).path].state = Request(c).state
  <2>1. TypeOK /\ connections[c].pc = "commit"
    BY <1>1 DEF Base, At
  <2>2. /\ Request(c) \in RequestType /\ Request(c).path \in Path /\ Request(c).epoch = epoch
        /\ Request(c).kind = "revoke" => Request(c).state = "REVOKED"
    BY <1>1, <2>1 DEF Base, RequestsStand, RequestStands, RequestType
  <2>3. Request(c).kind # "revoke"
    BY <1>1, <2>2 DEF AuthorizingState
  <2>4. CASE Commit(c)
    <3>1. asked[c] # Runtime!NoQuestion /\ asked[c][1] = Request(c).path
      <4>1. Request(c).kind = "publish" /\ RequestStands(c)
        BY <1>1, <2>4 DEF Commit, Base, RequestsStand
      <4>2. QED  BY <2>1, <4>1 DEF RequestStands
    <3>2. authority' = [authority EXCEPT ![Request(c).path] =
              [Runtime!Advanced(@, Request(c).state) EXCEPT !.worker = Sender(Request(c))]]
      BY <2>4, <3>1 DEF Commit, Runtime!Decide
    <3>3. ~Runtime!Exhausted(Request(c).path)
      BY <2>4, <3>1 DEF Commit, Runtime!Decide
    <3> DEFINE n == Runtime!Advanced(authority[Request(c).path], Request(c).state)
    <3>4. n \in Runtime!Authority /\ n.state = Request(c).state
      BY <2>1, <2>2, <3>3, TypeFacts, AdvancedIs DEF Runtime!Exhausted, RequestType
    <3>5. authority'[Request(c).path] = [n EXCEPT !.worker = Sender(Request(c))]
      BY <2>1, <2>2, <3>2 DEF TypeOK, Runtime!TypeOK
    <3> HIDE DEF n
    <3>6. QED  BY <3>4, <3>5, AuthorityIs
  <2>5. CASE ReplayCommit(c)
    <3>1. /\ digest[Request(c).path] = <<Request(c).state, epoch>>
          /\ authority' = authority
      BY <2>2, <2>5 DEF ReplayCommit, Replayed, DecisionDigest, Runtime!Decline
    <3>2. /\ digest[Request(c).path] # NoDigest
          /\ digest[Request(c).path][1] = Request(c).state
          /\ digest[Request(c).path][2] = epoch
      BY <3>1 DEF NoDigest
    <3>3. QED  BY <1>1, <2>2, <3>1, <3>2 DEF Base, Sealed
  <2>6. Commit(c) \/ ReplayCommit(c)
    <3>1. connections'[c].pc # connections[c].pc
      BY <1>1, <2>1
    <3>2. CASE Crash
      BY <1>1, <3>2 DEF Crash, Free
    <3>3. CASE Start \/ UNCHANGED vars
      BY <3>1, <3>3 DEF Start, vars
    <3>4. CASE Stop
      <4>1. connections'[c] = [connections[c] EXCEPT !.socket = IF @ = "open" THEN "closed" ELSE @]
        BY <3>4 DEF Stop
      <4>2. connections'[c].pc = connections[c].pc
        BY <2>1, <4>1, TypeFacts DEF ConnectionType
      <4>3. QED  BY <3>1, <4>2
    <3>5. CASE Running
      <4>1. ASSUME NEW d \in Connection, Acts(d), d # c PROVE FALSE
        BY <1>1, <3>1, <3>5, <4>1, ActorStep DEF OnlyActor
      <4>2. CASE Handle(c)
        <5>1. CASE Answer(c)
          <6>1. Set(c, [pc |-> "receive", request |-> NoRequest, image |-> NoImage,
                        answer |-> NoAnswer])
            BY <5>1 DEF Answer
          <6>2. connections'[c].pc = "receive"
            BY <2>1, <6>1, SetThread
          <6>3. QED  BY <1>1, <6>2
        <5>2. \/ Commit(c) \/ ReplayCommit(c) \/ RejectCommit(c) \/ Revoke(c) \/ RejectRevoke(c)
          BY <2>1, <4>2 DEF Handle, Refuse, AcceptPublication, AcceptRevocation, Fence, Leave,
                            Withdraw, Export, Gather, Write, At
        <5>3. QED  BY <2>3, <5>1, <5>2 DEF RejectCommit, Revoke, RejectRevoke
      <4>3. CASE Client(c)
        <5>1. CASE Disconnect(c)
          <6>1. Set(c, [socket |-> "closed"])
            BY <5>1 DEF Disconnect
          <6>2. QED  BY <2>1, <3>1, <6>1, SetThread
        <5>2. QED  BY <2>1, <4>3, <5>1 DEF Client, Register, Receive, Receives, At
      <4>4. CASE Accept(c)
        <5>1. connections[c] = Free
          BY <4>4 DEF Accept
        <5>2. QED  BY <2>1, <5>1 DEF Free
      <4>5. CASE Reap(c)
        <5>1. connections'[c] = Free
          BY <2>1, <4>5 DEF Reap, TypeOK
        <5>2. QED  BY <1>1, <5>1 DEF Free
      <4>6. QED  BY <3>4, <3>5, <4>1, <4>2, <4>3, <4>4, <4>5, RunningIs DEF Acts
    <3>6. QED  BY <1>1, <3>2, <3>3, <3>5 DEF Running
  <2>7. QED  BY <2>4, <2>5, <2>6
<1>2. Base /\ [Next]_vars =>
        [\A c \in Connection :
            /\ At(c, "commit") /\ connections'[c].pc = "export"
            /\ Request(c).state \in AuthorizingState
            => authority'[Request(c).path].state = Request(c).state]_vars
  BY <1>1
<1>3. QED  BY <1>2, SpecBase, PTL DEF Spec, AcceptedIsAuthority
-----------------------------------------------------------------------------
(* What was answered, what is on disk, and what is recorded.               *)

\* The records of y are those of x, or come after them.
Precedes(x, y) ==
    \A p \in Path :
        /\ x[p].generation <= y[p].generation
        /\ x[p].revoked => y[p].revoked
        /\ x[p].generation = y[p].generation =>
              x[p].state = y[p].state /\ x[p].revoked = y[p].revoked

\* The same, as far as the generations of x are not ahead of those of y.
Agree(x, y) ==
    \A p \in Path :
        x[p].generation <= y[p].generation =>
            /\ x[p].revoked => y[p].revoked
            /\ x[p].generation = y[p].generation => x[p].state = y[p].state

Records == [Path -> Runtime!Authority]

\* The records on disk, and those the threads are about to put there.
Copy(a) ==
    \/ store # NoImage /\ a = store.authority
    \/ \E c \in Connection :
          connections[c].image # NoImage /\ a = connections[c].image.authority

CopiesAgree ==
    /\ \A a \in Records, b \in Records : Copy(a) /\ Copy(b) => Agree(a, b)
    /\ status # "down" => \A a \in Records : Copy(a) => Precedes(a, authority)

AnswerIn(n, a) ==
    /\ n.generation <= a[n.path].generation
    /\ n.generation = a[n.path].generation => n.state = a[n.path].state
    /\ n.kind = "revoke" => a[n.path].revoked

\* An answer that is not given yet is in the records, and in the image taken for it.
AnswerStands(c) ==
    connections[c].answer # NoAnswer =>
        /\ AnswerIn(connections[c].answer, authority)
        /\ connections[c].pc \in {"gather", "write"} =>
              AnswerIn(connections[c].answer, connections[c].image.authority)

AnswersStand == \A c \in Connection : AnswerStands(c)

DecisionIn(p, image) ==
    /\ answered.decision[p][1] <= image.authority[p].generation
    /\ answered.decision[p][1] = image.authority[p].generation =>
          answered.decision[p][2] = image.authority[p].state
    /\ p \in answered.revoked => image.authority[p].revoked

\* What was answered is on disk, unless a write failed or was overtaken.
AnsweredIsStored ==
    ~lapsed =>
        /\ store = NoImage =>
              /\ answered.epoch = 0 /\ answered.revoked = {}
              /\ \A p \in Path : answered.decision[p] = <<0, "UNKNOWN">>
        /\ store # NoImage =>
              answered.epoch <= store.epoch /\ \A p \in Path : DecisionIn(p, store)

DurableInv == Base /\ CopiesAgree /\ AnswersStand /\ AnsweredIsStored

LEMMA RecordsFacts ==
    ASSUME NEW a \in Records, NEW p \in Path
    PROVE  a[p].generation \in Nat /\ a[p].revoked \in BOOLEAN
<1>1. a[p].generation \in 0..MaxGeneration /\ a[p].revoked \in BOOLEAN
  BY AuthorityIs DEF Records
<1>2. QED  BY <1>1, ConstantFacts

LEMMA PrecedesTransitive ==
    ASSUME NEW a \in Records, NEW b \in Records, NEW d \in Records,
           Precedes(a, b), Precedes(b, d)
    PROVE  Precedes(a, d)
BY RecordsFacts DEF Precedes

LEMMA PrecedesAgrees ==
    ASSUME NEW a \in Records, NEW b \in Records, Precedes(a, b)
    PROVE  Agree(a, b) /\ Agree(b, a)
BY RecordsFacts DEF Precedes, Agree

LEMMA AuthorityRecords ==
    ASSUME Base
    PROVE  authority \in Records
BY DEF Base, TypeOK, Runtime!TypeOK, Records

\* Each step of a process leaves each record or brings a later one.
LEMMA RunningPrecedes ==
    ASSUME Base, Running
    PROVE  Precedes(authority, authority')
<1> SUFFICES ASSUME NEW p \in Path
             PROVE  /\ authority[p].generation <= authority'[p].generation
                    /\ authority[p].revoked => authority'[p].revoked
                    /\ authority[p].generation = authority'[p].generation =>
                          /\ authority[p].state = authority'[p].state
                          /\ authority[p].revoked = authority'[p].revoked
  BY DEF Precedes
<1>1. authority[p].generation \in Nat
  BY TypeFacts DEF Base
<1>2. CASE Keeps(p)
  BY <1>1, <1>2 DEF Keeps
<1>3. CASE Withdraws(p)
  BY <1>1, <1>3 DEF Withdraws
<1>4. ASSUME NEW c \in Connection, Stores(p, c)
      PROVE  /\ authority'[p].generation = authority[p].generation + 1
             /\ authority[p].revoked => authority'[p].revoked
  BY <1>4 DEF Stores
<1>5. CASE \E c \in Connection : Stores(p, c)
  BY <1>1, <1>4, <1>5
<1>6. QED  BY <1>2, <1>3, <1>5, RecordStep

LEMMA CopiesStep ==
    ASSUME Base, Running, NEW a \in Records, Copy(a)'
    PROVE  Copy(a) \/ a = authority
<1>1. ASSUME NEW c \in Connection, connections'[c].image # NoImage,
             a = connections'[c].image.authority
      PROVE  Copy(a) \/ a = authority
  BY <1>1, ImageStep DEF Copy
<1>2. ASSUME store' # NoImage, a = store'.authority PROVE Copy(a)
  <2>1. CASE store' = store
    BY <1>2, <2>1 DEF Copy
  <2>2. ASSUME NEW c \in Connection, Write(c), store' = connections[c].image PROVE Copy(a)
    BY <1>2, <2>2 DEF Copy
  <2>3. QED  BY <2>1, <2>2, DiskStays DEF Write, disk
<1>3. QED  BY <1>1, <1>2 DEF Copy

LEMMA CopiesAgreeStep ==
    ASSUME Base, CopiesAgree, Running
    PROVE  CopiesAgree'
<1>1. status # "down" /\ authority \in Records /\ authority' \in Records
  BY ProcessStays, AuthorityRecords, RuntimeTypes DEF Runtime!TypeOK, Records
<1>2. ASSUME NEW a \in Records, Copy(a)' PROVE Precedes(a, authority)
  <2>1. CASE Copy(a)
    BY <1>1, <2>1 DEF CopiesAgree
  <2>2. CASE a = authority
    BY <2>2, RecordsFacts DEF Precedes
  <2>3. QED  BY <1>2, <2>1, <2>2, CopiesStep
<1>3. ASSUME NEW a \in Records, NEW b \in Records, Copy(a)', Copy(b)'
      PROVE  Agree(a, b)
  <2>1. CASE Copy(a) /\ Copy(b)
    BY <2>1 DEF CopiesAgree
  <2>2. CASE a = authority
    BY <1>1, <1>2, <1>3, <2>2, PrecedesAgrees
  <2>3. CASE b = authority
    BY <1>1, <1>2, <1>3, <2>3, PrecedesAgrees
  <2>4. QED  BY <1>3, <2>1, <2>2, <2>3, CopiesStep
<1>4. ASSUME NEW a \in Records, Copy(a)' PROVE Precedes(a, authority')
  BY <1>1, <1>2, <1>4, RunningPrecedes, PrecedesTransitive
<1>5. QED  BY <1>3, <1>4 DEF CopiesAgree, Precedes, Agree

\* An answer that is in some records is in later ones.
LEMMA AnswerKept ==
    ASSUME NEW a \in Records, NEW b \in Records, Precedes(a, b), NEW n \in AnswerType,
           AnswerIn(n, a)
    PROVE  AnswerIn(n, b)
<1>1. n.path \in Path /\ n.generation \in Nat
  BY ConstantFacts DEF AnswerType
<1>2. QED  BY <1>1, RecordsFacts DEF AnswerIn, Precedes

LEMMA SetAnswer ==
    ASSUME TypeOK, NEW c \in Connection, NEW fields, Set(c, fields)
    PROVE  connections'[c].answer =
                IF "answer" \in DOMAIN fields THEN fields["answer"] ELSE connections[c].answer
<1>1. "answer" \in DOMAIN Free
  BY DEF Free
<1>2. QED  BY <1>1, SetField

\* It is kept by the steps between its request and its answer.
LEMMA AnswerStandsWhenKept ==
    ASSUME Base, AnswersStand, Running, NEW d \in Connection,
           connections'[d].answer = connections[d].answer,
           \/ connections'[d].pc \notin {"gather", "write"}
           \/ /\ connections'[d].pc = connections[d].pc
              /\ connections'[d].image = connections[d].image
           \/ connections'[d].image.authority = authority
           \/ /\ connections[d].pc \in {"gather", "write"}
              /\ connections'[d].image.authority = connections[d].image.authority
    PROVE  AnswerStands(d)'
<1> SUFFICES ASSUME connections[d].answer # NoAnswer
             PROVE  /\ AnswerIn(connections[d].answer, authority')
                    /\ connections'[d].pc \in {"gather", "write"} =>
                          AnswerIn(connections[d].answer, connections'[d].image.authority)
  BY DEF AnswerStands, AnswerIn
<1> DEFINE n == connections[d].answer
<1>1. n \in AnswerType
  BY TypeFacts DEF Base, ConnectionType
<1>2. AnswerStands(d)
  BY DEF AnswersStand
<1>3. AnswerIn(n, authority)
  BY <1>2 DEF AnswerStands
<1>4. authority \in Records /\ authority' \in Records /\ Precedes(authority, authority')
  BY AuthorityRecords, RuntimeTypes, RunningPrecedes DEF Runtime!TypeOK, Records
<1>5. AnswerIn(n, authority')
  BY <1>1, <1>3, <1>4, AnswerKept
<1> HIDE DEF n
<1>6. connections'[d].pc \in {"gather", "write"} => AnswerIn(n, connections'[d].image.authority)
  <2>1. connections[d].pc \in {"gather", "write"} => AnswerIn(n, connections[d].image.authority)
    BY <1>2 DEF AnswerStands, n
  <2>2. CASE connections'[d].image.authority = authority
    BY <1>3, <2>2
  <2>3. CASE /\ connections[d].pc \in {"gather", "write"}
             /\ connections'[d].image.authority = connections[d].image.authority
    BY <2>1, <2>3
  <2>4. CASE /\ connections'[d].pc = connections[d].pc
             /\ connections'[d].image = connections[d].image
    BY <2>1, <2>4
  <2>5. QED  BY <2>2, <2>3, <2>4
<1>7. QED  BY <1>5, <1>6 DEF n

\* What a request that is done has left in the records is what it answers.
LEMMA DoneIsAnswered ==
    ASSUME Base, NEW c \in Connection, Commit(c) \/ ReplayCommit(c) \/ Revoke(c)
    PROVE  /\ Request(c).path \in Path /\ Request(c).kind \in {"publish", "revoke"}
           /\ Request(c).kind = "revoke" => authority'[Request(c).path].revoked
<1>1. TypeOK
  BY DEF Base
<1>2. Request(c) \in RequestType
  BY DEF Base, RequestsStand, RequestStands, Commit, ReplayCommit, Revoke, At
<1>3. Request(c).path \in Path /\ Request(c).kind \in {"publish", "revoke"}
  BY <1>2 DEF RequestType
<1>4. CASE Commit(c) \/ ReplayCommit(c)
  <2>1. Request(c).kind = "publish"
    BY <1>4 DEF Commit, ReplayCommit
  <2>2. QED  BY <1>3, <2>1
<1>5. CASE Revoke(c)
  <2>1. ASSUME Runtime!Revoke(Request(c).path), Resealed
        PROVE  authority'[Request(c).path].revoked
    BY <1>1, <1>3, <2>1, RevokeStep
  <2>2. ASSUME Revoked(Request(c).path), UNCHANGED runtime
        PROVE  authority'[Request(c).path].revoked
    BY <2>2 DEF Revoked, runtime
  <2>3. \/ Runtime!Revoke(Request(c).path) /\ Resealed
        \/ Revoked(Request(c).path) /\ UNCHANGED runtime
    BY <1>5 DEF Revoke
  <2>4. authority'[Request(c).path].revoked
    BY <2>1, <2>2, <2>3
  <2>5. QED  BY <1>3, <2>4
<1>6. QED  BY <1>4, <1>5

LEMMA AnswerStandsWhenHandled ==
    ASSUME Base, AnswersStand, Running, NEW d \in Connection, Handle(d)
    PROVE  AnswerStands(d)'
<1>1. TypeOK
  BY DEF Base
<1>2. CASE Answer(d)
  <2>1. Set(d, [pc |-> "receive", request |-> NoRequest, image |-> NoImage, answer |-> NoAnswer])
    BY <1>2 DEF Answer
  <2>2. connections'[d].answer = NoAnswer
    BY <1>1, <2>1, SetAnswer
  <2>3. QED  BY <2>2 DEF AnswerStands
<1>3. CASE Commit(d) \/ ReplayCommit(d) \/ Revoke(d)
  <2>1. Set(d, [pc |-> "export", request |-> NoRequest, answer |-> AnswerOf(d)])
    BY <1>3 DEF Commit, ReplayCommit, Revoke, Persist, AnswerOf
  <2>2. /\ AnswerOf(d).path = Request(d).path /\ AnswerOf(d).kind = Request(d).kind
        /\ AnswerOf(d).generation = authority'[Request(d).path].generation
        /\ AnswerOf(d).state = authority'[Request(d).path].state
    BY DEF AnswerOf
  <2> HIDE DEF AnswerOf
  <2>3. connections'[d].pc = "export" /\ connections'[d].answer = AnswerOf(d)
    BY <1>1, <2>1, SetThread, SetAnswer
  <2>4. authority' \in Records
    BY RuntimeTypes DEF Runtime!TypeOK, Records
  <2>5. Request(d).path \in Path
        /\ (Request(d).kind = "revoke" => authority'[Request(d).path].revoked)
    BY <1>3, DoneIsAnswered
  <2>6. AnswerIn(AnswerOf(d), authority')
    BY <2>2, <2>4, <2>5, RecordsFacts DEF AnswerIn
  <2>7. QED  BY <2>3, <2>6 DEF AnswerStands, AnswerIn
<1>4. CASE AcceptPublication(d) \/ AcceptRevocation(d)
  <2>1. Set(d, [pc |-> "commit"])
    BY <1>4 DEF AcceptPublication, AcceptRevocation
  <2>2. QED  BY <1>1, <2>1, SetThread, SetAnswer, AnswerStandsWhenKept
<1>5. CASE Fence(d)
  <2>1. Set(d, [pc |-> "withdraw", lost |-> Identities(LostWith(d)), workers |-> {}])
    BY <1>5 DEF Fence
  <2> HIDE DEF LostWith
  <2>2. QED  BY <1>1, <2>1, SetThread, SetAnswer, AnswerStandsWhenKept
<1>6. CASE Leave(d)
  <2>1. Set(d, [socket |-> "finished", workers |-> {}])
    BY <1>6 DEF Leave
  <2>2. QED  BY <1>1, <2>1, SetThread, SetAnswer, AnswerStandsWhenKept
<1>7. ASSUME NEW w \in Identity, Withdraw(d, w) PROVE AnswerStands(d)'
  <2> DEFINE next == IF connections[d].lost = {w} THEN "export" ELSE "withdraw"
  <2>1. Set(d, [lost |-> connections[d].lost \ {w}, pc |-> next])
    BY <1>7 DEF Withdraw
  <2>2. next \in {"export", "withdraw"}
    OBVIOUS
  <2> HIDE DEF next
  <2>3. connections'[d].pc = next /\ connections'[d].answer = connections[d].answer
    BY <1>1, <2>1, SetThread, SetAnswer
  <2>4. QED  BY <2>2, <2>3, AnswerStandsWhenKept
<1>8. CASE Export(d)
  <2> DEFINE image == [epoch |-> epoch, authority |-> authority, digest |-> digest, fenced |-> {}]
  <2>1. Set(d, [pc |-> "gather", image |-> image]) /\ image.authority = authority
    BY <1>8 DEF Export
  <2> HIDE DEF image
  <2>2. connections'[d].image = image /\ connections'[d].answer = connections[d].answer
    BY <1>1, <2>1, SetThread, SetAnswer
  <2>3. QED  BY <2>1, <2>2, AnswerStandsWhenKept
<1>9. CASE Gather(d)
  <2> DEFINE image == [connections[d].image EXCEPT
                          !.fenced = fenced \cup {w \in Worker : Registered(w)}]
  <2>1. connections[d].image \in Image /\ connections[d].pc = "gather"
    BY <1>1, <1>9, TypeFacts
       DEF Gather, At, Base, RequestsStand, RequestStands, ConnectionType
  <2>2. Set(d, [pc |-> "write", image |-> image])
    BY <1>9 DEF Gather
  <2>3. image.authority = connections[d].image.authority
    BY <2>1 DEF Image
  <2> HIDE DEF image
  <2>4. connections'[d].image = image /\ connections'[d].answer = connections[d].answer
    BY <1>1, <2>2, SetThread, SetAnswer
  <2>5. QED  BY <2>1, <2>3, <2>4, AnswerStandsWhenKept
<1>10. QED
  BY <1>2, <1>3, <1>4, <1>5, <1>6, <1>7, <1>8, <1>9
     DEF Handle, Refuse, RejectCommit, RejectRevoke, Write

LEMMA AnswersStandStep ==
    ASSUME Base, AnswersStand, Running
    PROVE  AnswersStand'
<1>1. TypeOK
  BY DEF Base
<1> SUFFICES ASSUME NEW d \in Connection PROVE AnswerStands(d)'
  BY DEF AnswersStand
<1>2. ASSUME NEW c \in Connection, Acts(c), c # d PROVE AnswerStands(d)'
  <2>1. connections'[d] = connections[d]
    BY <1>2, ActorStep DEF OnlyActor
  <2>2. QED  BY <2>1, AnswerStandsWhenKept
<1>3. CASE Reap(d)
  <2>1. connections'[d] = Free
    BY <1>1, <1>3 DEF Reap, TypeOK
  <2>2. connections'[d].answer = NoAnswer
    BY <2>1 DEF Free
  <2>3. QED  BY <2>2 DEF AnswerStands
<1>4. CASE Stop
  <2>1. connections'[d] = [connections[d] EXCEPT !.socket = IF @ = "open" THEN "closed" ELSE @]
    BY <1>4 DEF Stop
  <2>2. /\ connections'[d].pc = connections[d].pc
        /\ connections'[d].answer = connections[d].answer
        /\ connections'[d].image = connections[d].image
    BY <1>1, <2>1, TypeFacts DEF ConnectionType
  <2>3. QED  BY <2>2, AnswerStandsWhenKept
<1>5. CASE Client(d) \/ Accept(d)
  <2>1. ASSUME NEW fields, Set(d, fields), "answer" \notin DOMAIN fields,
               "image" \notin DOMAIN fields,
               "pc" \notin DOMAIN fields \/ fields["pc"] = "registered"
        PROVE  AnswerStands(d)'
    <3>1. /\ connections'[d].answer = connections[d].answer
          /\ connections'[d].image = connections[d].image
          /\ connections'[d].pc \in {connections[d].pc, "registered"}
      BY <1>1, <2>1, SetThread, SetAnswer
    <3>2. QED  BY <3>1, AnswerStandsWhenKept
  <2>2. ASSUME NEW x \in Publisher, NEW w \in Worker, Register(d, x, w) PROVE AnswerStands(d)'
    <3>1. Set(d, [workers |-> connections[d].workers \cup {w}])
      BY <2>2 DEF Register
    <3>2. QED  BY <2>1, <3>1
  <2>3. ASSUME NEW request \in RequestType, Receive(d, request) PROVE AnswerStands(d)'
    <3>1. Set(d, [pc |-> "registered", request |-> request])
      BY <2>3 DEF Receive
    <3>2. QED  BY <2>1, <3>1
  <2>4. CASE Disconnect(d) \/ Accept(d)
    <3>1. Set(d, [socket |-> "closed"]) \/ Set(d, [socket |-> "open"])
      BY <2>4 DEF Disconnect, Accept
    <3>2. QED  BY <2>1, <3>1
  <2>5. QED  BY <1>5, <2>2, <2>3, <2>4, ReceivedRequest
<1>6. CASE Handle(d)
  BY <1>6, AnswerStandsWhenHandled
<1>7. QED  BY <1>2, <1>3, <1>4, <1>5, <1>6, RunningIs DEF Acts

\* A write that is not overtaken keeps what was on disk.
LEMMA WrittenKeepsAnswered ==
    ASSUME DurableInv, NEW c \in Connection, Write(c), ~lapsed', NEW p \in Path
    PROVE  LET image == connections[c].image IN
           /\ image \in Image
           /\ store' = image /\ image.epoch = epoch
           /\ answered.epoch <= epoch
           /\ DecisionIn(p, image)
<1> DEFINE image == connections[c].image
<1>1. Base /\ TypeOK /\ ~lapsed /\ store' = image /\ ~Older(image)
  BY DEF DurableInv, Base, Write
<1>2. image \in Image /\ image # NoImage
  BY <1>1, TypeFacts DEF Write, At, Base, RequestsStand, RequestStands, ConnectionType
<1>3. image.epoch = epoch /\ Sealed(image.authority, image.digest, epoch)
  BY <1>1, <1>2 DEF Base, ImagesSealed
<1>4. image.authority \in Records /\ epoch \in Nat
  BY <1>1, <1>2, TypeFacts DEF Image, Records
<1>5. Copy(image.authority)
  BY <1>2 DEF Copy
<1>6. answered.decision[p][1] \in Nat /\ answered.epoch \in Nat
  <2>1. answered.decision[p] \in (0..MaxGeneration) \X AuthorityState /\ answered.epoch \in 0..MaxEpoch
    BY <1>1 DEF TypeOK
  <2>2. QED  BY <2>1, ConstantFacts
<1> HIDE DEF image
<1>7. CASE store = NoImage
  <2>1. answered.epoch = 0 /\ answered.decision[p] = <<0, "UNKNOWN">> /\ answered.revoked = {}
    BY <1>1, <1>7 DEF DurableInv, AnsweredIsStored
  <2>2. image.authority[p].generation = 0 => image.authority[p].state = "UNKNOWN"
    BY <1>3 DEF Sealed
  <2>3. image.authority[p].generation \in Nat
    BY <1>4, RecordsFacts
  <2>4. DecisionIn(p, image)
    BY <2>1, <2>2, <2>3 DEF DecisionIn
  <2>5. QED  BY <1>1, <1>2, <1>3, <1>4, <2>1, <2>4 DEF image
<1>8. CASE store # NoImage
  <2>1. answered.epoch <= store.epoch /\ DecisionIn(p, store)
    BY <1>1, <1>8 DEF DurableInv, AnsweredIsStored
  <2>2. store \in Image /\ store.epoch \in Nat /\ store.authority \in Records
    <3>1. store \in Image
      BY <1>1, <1>8 DEF TypeOK
    <3>2. QED  BY <3>1, ConstantFacts DEF Image, Records
  <2>3. store.epoch <= epoch
    BY <1>1, <1>8 DEF Base, ImagesSealed, Write, At
  <2>4. Agree(store.authority, image.authority)
    BY <1>4, <1>5, <1>8, <2>2 DEF DurableInv, CopiesAgree, Copy
  <2>5. store.authority[p].generation \in Nat /\ image.authority[p].generation \in Nat
    BY <1>4, <2>2, RecordsFacts
  <2>6. store.authority[p].generation <= image.authority[p].generation
    BY <1>1, <1>8, <2>5 DEF Older
  <2>7. DecisionIn(p, image)
    BY <1>6, <2>1, <2>4, <2>5, <2>6 DEF DecisionIn, Agree
  <2>8. QED  BY <1>1, <1>2, <1>3, <1>4, <1>6, <2>1, <2>2, <2>3, <2>7 DEF image
<1>9. QED  BY <1>7, <1>8

LEMMA AnsweredIsStoredStep ==
    ASSUME DurableInv, NEW c \in Connection, Write(c), ~lapsed'
    PROVE  AnsweredIsStored'
<1> DEFINE image == connections[c].image
           n == connections[c].answer
<1>1. TypeOK /\ answered' = Told(n) /\ n \in {NoAnswer} \cup AnswerType
  BY TypeFacts DEF DurableInv, Base, Write, ConnectionType
<1>2. PICK q \in Path : TRUE
  BY CoordinatorAssumption
<1>3. /\ image \in Image /\ store' = image /\ image.epoch = epoch /\ answered.epoch <= epoch
      /\ \A p \in Path : DecisionIn(p, image)
  BY WrittenKeepsAnswered, <1>2
<1>4. image # NoImage /\ epoch \in Nat
  BY <1>1, <1>3, TypeFacts DEF Image, NoImage
<1>5. n # NoAnswer => AnswerIn(n, image.authority)
  BY DEF DurableInv, AnswersStand, AnswerStands, Write, At
<1> HIDE DEF image, n
<1>6. answered'.epoch <= epoch
  BY <1>1, <1>3, <1>4 DEF Told
<1>7. ASSUME NEW p \in Path
      PROVE  /\ answered'.decision[p][1] <= image.authority[p].generation
             /\ answered'.decision[p][1] = image.authority[p].generation =>
                   answered'.decision[p][2] = image.authority[p].state
             /\ p \in answered'.revoked => image.authority[p].revoked
  <2>1. DecisionIn(p, image)
    BY <1>3
  <2>2. CASE n = NoAnswer
    BY <1>1, <2>1, <2>2 DEF Told, DecisionIn
  <2>3. CASE n # NoAnswer
    <3>1. n \in AnswerType /\ AnswerIn(n, image.authority)
      BY <1>1, <1>5, <2>3
    <3>2. answered'.revoked \subseteq answered.revoked \cup (IF n.kind = "revoke" THEN {n.path} ELSE {})
      BY <1>1, <2>3 DEF Told
    <3>3. answered'.decision[p] \in {answered.decision[p]}
             \cup (IF n.path = p THEN {<<n.generation, n.state>>} ELSE {})
      <4>1. answered.decision \in [Path -> (0..MaxGeneration) \X AuthorityState]
        BY <1>1 DEF TypeOK
      <4>2. answered'.decision = [answered.decision EXCEPT ![n.path] =
                IF n.generation > @[1] THEN <<n.generation, n.state>> ELSE @]
        BY <1>1, <2>3 DEF Told
      <4>3. QED  BY <4>1, <4>2
    <3>4. CASE answered'.decision[p] = answered.decision[p]
      BY <2>1, <3>1, <3>2, <3>4 DEF DecisionIn, AnswerIn
    <3>5. CASE answered'.decision[p] # answered.decision[p]
      <4>1. n.path = p /\ answered'.decision[p][1] = n.generation
            /\ answered'.decision[p][2] = n.state
        BY <3>3, <3>5
      <4>2. QED  BY <2>1, <3>1, <3>2, <4>1 DEF DecisionIn, AnswerIn
    <3>6. QED  BY <3>4, <3>5
  <2>4. QED  BY <2>2, <2>3
<1>8. QED  BY <1>3, <1>4, <1>6, <1>7 DEF AnsweredIsStored, DecisionIn

LEMMA InitDurable == Init => DurableInv
<1> SUFFICES ASSUME Init PROVE DurableInv
  OBVIOUS
<1>1. ASSUME NEW c \in Connection
      PROVE  connections[c].answer = NoAnswer /\ connections[c].image = NoImage
  BY DEF Init, Free
<1>2. store = NoImage /\ status = "down"
  BY DEF Init
<1>3. CopiesAgree
  BY <1>1, <1>2 DEF CopiesAgree, Copy
<1>4. AnswersStand
  BY <1>1 DEF AnswersStand, AnswerStands
<1>5. AnsweredIsStored
  BY <1>2 DEF AnsweredIsStored, Init
<1>6. QED  BY <1>3, <1>4, <1>5, InitBase DEF DurableInv

LEMMA CrashDurable ==
    ASSUME DurableInv, Crash
    PROVE  CopiesAgree' /\ AnswersStand'
<1>1. ASSUME NEW c \in Connection
      PROVE  connections'[c].answer = NoAnswer /\ connections'[c].image = NoImage
  <2>1. connections'[c] = Free
    BY DEF Crash
  <2>2. QED  BY <2>1 DEF Free
<1>2. store' = store /\ status' = "down"
  BY DEF Crash, disk
<1>3. ASSUME NEW a, Copy(a)' PROVE Copy(a)
  BY <1>1, <1>2, <1>3 DEF Copy
<1>4. CopiesAgree'
  BY <1>2, <1>3 DEF DurableInv, CopiesAgree, Agree
<1>5. QED  BY <1>1, <1>4 DEF AnswersStand, AnswerStands

LEMMA StartDurable ==
    ASSUME DurableInv, Start
    PROVE  CopiesAgree' /\ AnswersStand'
<1>1. ASSUME NEW c \in Connection
      PROVE  /\ connections'[c].answer = NoAnswer /\ connections'[c].image = NoImage
             /\ connections[c].image = NoImage
  <2>1. connections'[c] = Free /\ connections[c] = Free
    BY DEF Start, DurableInv, Base, DownIsEmpty
  <2>2. QED  BY <2>1 DEF Free
<1>2. store' = store
  BY DEF Start, disk
<1>3. ASSUME NEW a, Copy(a)' PROVE Copy(a) /\ store # NoImage /\ a = store.authority
  BY <1>1, <1>2, <1>3 DEF Copy
<1>4. ASSUME NEW a, Copy(a)' PROVE Precedes(a, authority')
  <2> SUFFICES ASSUME NEW p \in Path
               PROVE  /\ a[p].generation <= authority'[p].generation
                      /\ a[p].revoked => authority'[p].revoked
                      /\ a[p].generation = authority'[p].generation =>
                            /\ a[p].state = authority'[p].state
                            /\ a[p].revoked = authority'[p].revoked
    BY DEF Precedes
  <2>1. store # NoImage /\ a = store.authority
    BY <1>3, <1>4
  <2>2. /\ a[p] \in Runtime!Authority
        /\ HadAuthority(a[p]) => a[p].generation < MaxGeneration
        /\ authority'[p] = Recovered(a[p])
    BY <2>1, StartRecords DEF DurableInv
  <2>3. /\ Recovered(a[p]).generation >= a[p].generation
        /\ Recovered(a[p]).generation = a[p].generation => Recovered(a[p]) = a[p]
        /\ Recovered(a[p]).revoked = a[p].revoked
        /\ Recovered(a[p]) \in Runtime!Authority
    BY <2>2, RecoveredIs
  <2>4. a[p].generation \in Nat /\ Recovered(a[p]).generation \in Nat
    BY <2>2, <2>3, AuthorityIs, ConstantFacts
  <2>5. QED  BY <2>2, <2>3, <2>4
<1>5. CopiesAgree'
  BY <1>3, <1>4 DEF DurableInv, CopiesAgree, Agree, Precedes
<1>6. QED  BY <1>1, <1>5 DEF AnswersStand, AnswerStands

LEMMA NextDurable == DurableInv /\ [Next]_vars => DurableInv'
<1> SUFFICES ASSUME DurableInv, [Next]_vars PROVE DurableInv'
  OBVIOUS
<1>1. Base /\ Base'
  BY NextBase DEF DurableInv
<1>2. CASE UNCHANGED vars
  <2>1. UNCHANGED <<store, answered, lapsed, connections, authority, status>>
    BY <1>2 DEF vars, disk, runtime, process
  <2>2. CopiesAgree'
    BY <2>1 DEF DurableInv, CopiesAgree, Copy, Agree, Precedes
  <2>3. AnswersStand'
    BY <2>1 DEF DurableInv, AnswersStand, AnswerStands, AnswerIn
  <2>4. AnsweredIsStored'
    BY <2>1 DEF DurableInv, AnsweredIsStored, DecisionIn
  <2>5. QED  BY <1>1, <2>2, <2>3, <2>4 DEF DurableInv
<1>3. CopiesAgree' /\ AnswersStand'
  <2>1. CASE Running
    BY <1>1, <2>1, CopiesAgreeStep, AnswersStandStep DEF DurableInv
  <2>2. QED  BY <1>2, <2>1, CrashDurable, StartDurable DEF Running, DurableInv
<1>4. AnsweredIsStored'
  <2>1. CASE \E c \in Connection : Write(c)
    <3>1. lapsed' \/ AnsweredIsStored'
      BY <2>1, AnsweredIsStoredStep
    <3>2. QED  BY <3>1 DEF AnsweredIsStored
  <2>2. CASE UNCHANGED disk
    BY <2>2 DEF DurableInv, AnsweredIsStored, DecisionIn, disk
  <2>3. QED  BY <1>2, <2>1, <2>2, DiskStays DEF Running, Crash, Start, DurableInv
<1>5. QED  BY <1>1, <1>3, <1>4 DEF DurableInv

LEMMA SpecDurable == Spec => []DurableInv
BY InitDurable, NextDurable, PTL DEF Spec

\* What a caller was told is still so after every restart, unless a write failed or an
\* older image overtook a newer one: persist() exports after the change it answers for.
THEOREM AnsweredAlwaysSurvives == Spec => []AnsweredSurvives
<1>1. DurableInv => AnsweredSurvives
  <2> SUFFICES ASSUME DurableInv, status # "down", ~lapsed, NEW p \in Path
               PROVE  /\ authority[p].generation >= answered.decision[p][1]
                      /\ authority[p].generation = answered.decision[p][1] =>
                            authority[p].state = answered.decision[p][2]
                      /\ p \in answered.revoked => Revoked(p)
    BY DEF AnsweredSurvives
  <2>1. Base /\ TypeOK /\ authority \in Records /\ authority[p].generation \in Nat
    BY AuthorityRecords, RecordsFacts DEF DurableInv, Base
  <2>2. answered.decision[p][1] \in Nat
    <3>1. answered.decision[p] \in (0..MaxGeneration) \X AuthorityState
      BY <2>1 DEF TypeOK
    <3>2. QED  BY <3>1, ConstantFacts
  <2>3. CASE store = NoImage
    <3>1. answered.decision[p] = <<0, "UNKNOWN">> /\ answered.revoked = {}
      BY <2>3 DEF DurableInv, AnsweredIsStored
    <3>2. authority[p].generation = 0 => authority[p].state = "UNKNOWN"
      BY <2>1 DEF Base, Sealed
    <3>3. QED  BY <2>1, <3>1, <3>2
  <2>4. CASE store # NoImage
    <3>1. DecisionIn(p, store)
      BY <2>4 DEF DurableInv, AnsweredIsStored
    <3>2. store.authority \in Records
      BY <2>1, <2>4 DEF TypeOK, Image, Records
    <3>3. Precedes(store.authority, authority)
      BY <2>4, <3>2 DEF DurableInv, CopiesAgree, Copy
    <3>4. store.authority[p].generation \in Nat
      BY <3>2, RecordsFacts
    <3>5. QED  BY <2>1, <2>2, <3>1, <3>3, <3>4 DEF DecisionIn, Precedes, Revoked
  <2>5. QED  BY <2>3, <2>4
<1>2. QED  BY <1>1, SpecDurable, PTL

\* A process that starts takes an epoch that no answer of an earlier one carries, unless a
\* write failed: recover_or_initialize() goes past the epoch of the image.
THEOREM AnsweredEpochIsAlwaysPast == Spec => AnsweredEpochIsPast
<1>1. ASSUME DurableInv, [Next]_vars, status = "down", status' = "running", ~lapsed
      PROVE  epoch' > answered.epoch
  <2>1. Base /\ TypeOK
    BY <1>1 DEF DurableInv, Base
  <2>2. Start
    <3>1. CASE UNCHANGED vars
      BY <1>1, <3>1 DEF vars, process
    <3>2. CASE Crash
      BY <1>1, <3>2 DEF Crash
    <3>3. CASE Running
      BY <1>1, <2>1, <3>3, ProcessStays
    <3>4. QED  BY <1>1, <3>1, <3>2, <3>3 DEF Running
  <2>3. epoch' \in Nat /\ epoch' >= 1
    BY <2>1, <2>2, StartEpoch, ConstantFacts
  <2>4. answered.epoch \in Nat
    <3>1. answered.epoch \in 0..MaxEpoch
      BY <2>1 DEF TypeOK
    <3>2. QED  BY <3>1, ConstantFacts
  <2>5. CASE store = NoImage
    BY <1>1, <2>3, <2>5 DEF DurableInv, AnsweredIsStored
  <2>6. CASE store # NoImage
    <3>1. answered.epoch <= store.epoch
      BY <1>1, <2>6 DEF DurableInv, AnsweredIsStored
    <3>2. store.epoch \in Nat /\ epoch' > store.epoch
      BY <2>1, <2>2, <2>6, StartEpoch
    <3>3. QED  BY <2>3, <2>4, <3>1, <3>2
  <2>7. QED  BY <2>5, <2>6
<1>2. DurableInv /\ [Next]_vars =>
        [status = "down" /\ status' = "running" /\ ~lapsed => epoch' > answered.epoch]_vars
  BY <1>1
<1>3. QED  BY <1>2, SpecDurable, PTL DEF Spec, AnsweredEpochIsPast
-----------------------------------------------------------------------------
(* Who holds live authority, when a worker is served by one connection and *)
(* keeps to one publisher.                                                 *)

\* The worker boots that use connection c.
Boots(c) == {w \in Worker : \E x \in Publisher : <<x, w>> \in Speaks[c]}

Apart == \A c, d \in Connection : c # d => Boots(c) \cap Boots(d) = {}

\* Who speaks on some connection.
Speakers == UNION {Speaks[c] : c \in Connection}

\* A worker boot registers and publishes for the same publisher always.
OneName == \A x, y \in Publisher, w \in Worker :
              <<x, w>> \in Speakers /\ <<y, w>> \in Speakers => x = y

\* A registered worker is one its connection will look for when it is lost.
RegistrationStands(w) ==
    Registered(w) =>
        /\ w \in connections[workers[w]].workers
        /\ connections[workers[w]].socket \in {"open", "closed"}
        /\ w \notin fenced

ConnectionStands(c) ==
    /\ connections[c].workers \subseteq Boots(c)
    /\ connections[c].socket = "finished" => connections[c].pc = "receive"
    /\ connections[c].pc = "commit" => workers[Request(c).worker] = c

\* What is registered, and what is asked for, is of someone who speaks.
NamesStand ==
    /\ \A w \in Worker : Registered(w) => <<publishers[w], w>> \in Speakers
    /\ \A c \in Connection :
          connections[c].pc \in {"registered", "commit"} => Sender(Request(c)) \in Speakers

\* An identity is registered as such, or its boot is about to be withdrawn under it.
Held(id) ==
    \/ Registered(id[2]) /\ publishers[id[2]] = id[1] /\ id[2] \notin fenced
    \/ \E c \in Connection : At(c, "withdraw") /\ id \in connections[c].lost

LiveIsHeldByName ==
    \A p \in Path : Live(p) /\ ~Runtime!Exhausted(p) => Held(authority[p].worker)

RegistryInv ==
    /\ Base
    /\ \A w \in Worker : RegistrationStands(w)
    /\ \A c \in Connection : ConnectionStands(c)

HeldInv == RegistryInv /\ NamesStand /\ LiveIsHeldByName

LEMMA SetRegistration ==
    ASSUME TypeOK, NEW c \in Connection, NEW fields, Set(c, fields)
    PROVE  /\ connections'[c].socket =
                IF "socket" \in DOMAIN fields THEN fields["socket"] ELSE connections[c].socket
           /\ connections'[c].workers =
                IF "workers" \in DOMAIN fields THEN fields["workers"] ELSE connections[c].workers
           /\ connections'[c].lost =
                IF "lost" \in DOMAIN fields THEN fields["lost"] ELSE connections[c].lost
<1>1. "socket" \in DOMAIN Free /\ "workers" \in DOMAIN Free /\ "lost" \in DOMAIN Free
  BY DEF Free
<1>2. connections'[c].socket =
        IF "socket" \in DOMAIN fields THEN fields["socket"] ELSE connections[c].socket
  BY <1>1, SetField
<1>3. connections'[c].workers =
        IF "workers" \in DOMAIN fields THEN fields["workers"] ELSE connections[c].workers
  BY <1>1, SetField
<1>4. connections'[c].lost =
        IF "lost" \in DOMAIN fields THEN fields["lost"] ELSE connections[c].lost
  BY <1>1, SetField
<1>5. QED  BY <1>2, <1>3, <1>4

\* The steps of a thread, or of its client, that leave the registry alone.
Works(c) ==
    \/ AcceptPublication(c) \/ AcceptRevocation(c)
    \/ Refuse(c) \/ RejectCommit(c) \/ RejectRevoke(c) \/ Write(c)
    \/ Commit(c) \/ ReplayCommit(c) \/ Revoke(c)
    \/ \E id \in Identity : Withdraw(c, id)
    \/ Export(c) \/ Gather(c)

\* They are steps of a thread with a request or lost workers, and keep its connection.
LEMMA WorkStep ==
    ASSUME Base, NEW c \in Connection, Works(c)
    PROVE  /\ UNCHANGED registry
           /\ connections[c].pc # "receive"
           /\ connections'[c].workers = connections[c].workers
           /\ connections'[c].socket = connections[c].socket
           /\ connections'[c].pc # "registered"
           /\ connections'[c].pc = "commit" =>
                 AcceptPublication(c) \/ AcceptRevocation(c)
<1>1. TypeOK
  BY DEF Base
<1>2. UNCHANGED registry /\ connections[c].pc # "receive"
  BY DEF Works, AcceptPublication, AcceptRevocation, Refuse, RejectCommit, RejectRevoke, Write,
         Commit, ReplayCommit, Revoke, Withdraw, Export, Gather, At
<1>3. ASSUME NEW fields, Set(c, fields), "workers" \notin DOMAIN fields,
             "socket" \notin DOMAIN fields, "pc" \in DOMAIN fields
      PROVE  /\ connections'[c].workers = connections[c].workers
             /\ connections'[c].socket = connections[c].socket
             /\ connections'[c].pc = fields["pc"]
  BY <1>1, <1>3, SetRegistration, SetThread
<1>4. CASE AcceptPublication(c) \/ AcceptRevocation(c)
  <2>1. Set(c, [pc |-> "commit"])
    BY <1>4 DEF AcceptPublication, AcceptRevocation
  <2>2. QED  BY <1>2, <1>3, <1>4, <2>1
<1>5. CASE Answer(c)
  <2>1. Set(c, [pc |-> "receive", request |-> NoRequest, image |-> NoImage, answer |-> NoAnswer])
    BY <1>5 DEF Answer
  <2>2. QED  BY <1>2, <1>3, <2>1
<1>6. CASE Persist(c)
  <2>1. Set(c, [pc |-> "export", request |-> NoRequest, answer |-> AnswerOf(c)])
    BY <1>6 DEF Persist, AnswerOf
  <2> HIDE DEF AnswerOf
  <2>2. QED  BY <1>2, <1>3, <2>1
<1>7. ASSUME NEW id \in Identity, Withdraw(c, id)
      PROVE  /\ connections'[c].workers = connections[c].workers
             /\ connections'[c].socket = connections[c].socket
             /\ connections'[c].pc \notin {"registered", "commit"}
  <2> DEFINE next == IF connections[c].lost = {id} THEN "export" ELSE "withdraw"
  <2>1. Set(c, [lost |-> connections[c].lost \ {id}, pc |-> next]) /\ next \notin {"registered", "commit"}
    BY <1>7 DEF Withdraw
  <2> HIDE DEF next
  <2>2. QED  BY <1>3, <2>1
<1>8. CASE Export(c)
  <2> DEFINE image == [epoch |-> epoch, authority |-> authority, digest |-> digest, fenced |-> {}]
  <2>1. Set(c, [pc |-> "gather", image |-> image])
    BY <1>8 DEF Export
  <2> HIDE DEF image
  <2>2. QED  BY <1>2, <1>3, <2>1
<1>9. CASE Gather(c)
  <2> DEFINE image == [connections[c].image EXCEPT
                          !.fenced = fenced \cup {w \in Worker : Registered(w)}]
  <2>1. Set(c, [pc |-> "write", image |-> image])
    BY <1>9 DEF Gather
  <2> HIDE DEF image
  <2>2. QED  BY <1>2, <1>3, <2>1
<1>10. QED
  BY <1>2, <1>4, <1>5, <1>6, <1>7, <1>8, <1>9
     DEF Works, Refuse, RejectCommit, RejectRevoke, Write, Commit, ReplayCommit, Revoke

\* The requests of a client, and the loss of its connection.
LEMMA ReceiveStep ==
    ASSUME Base, NEW c \in Connection, NEW request, Receive(c, request)
    PROVE  /\ UNCHANGED registry /\ connections[c].socket = "open"
           /\ connections'[c].workers = connections[c].workers
           /\ connections'[c].socket = "open" /\ connections'[c].pc = "registered"
           /\ connections[c].pc = "receive"
           /\ connections'[c].request = request /\ Sender(request) \in Speaks[c]
<1>1. Set(c, [pc |-> "registered", request |-> request]) /\ connections[c].socket = "open"
  BY DEF Receive, Receives
<1>2. QED  BY <1>1, SetRegistration, SetThread DEF Base, Receive, Receives, At

LEMMA ClosedStep ==
    ASSUME Base, NEW c \in Connection, Disconnect(c)
    PROVE  /\ UNCHANGED registry /\ connections[c].socket = "open"
           /\ connections'[c].workers = connections[c].workers
           /\ connections'[c].lost = connections[c].lost
           /\ connections'[c].socket = "closed" /\ connections'[c].pc = connections[c].pc
           /\ connections'[c].request = connections[c].request
<1>1. Set(c, [socket |-> "closed"]) /\ connections[c].socket = "open"
  BY DEF Disconnect
<1>2. QED  BY <1>1, SetRegistration, SetThread DEF Base, Disconnect

LEMMA StopStep ==
    ASSUME Base, Stop, NEW c \in Connection
    PROVE  /\ UNCHANGED registry
           /\ connections'[c].workers = connections[c].workers
           /\ connections'[c].lost = connections[c].lost
           /\ connections'[c].pc = connections[c].pc
           /\ connections'[c].request = connections[c].request
           /\ connections'[c].socket = IF connections[c].socket = "open" THEN "closed"
                                       ELSE connections[c].socket
<1>1. connections'[c] = [connections[c] EXCEPT !.socket = IF @ = "open" THEN "closed" ELSE @]
  BY DEF Stop
<1>2. connections[c] \in ConnectionType
  BY TypeFacts DEF Base
<1>3. QED  BY <1>1, <1>2 DEF ConnectionType, Stop

LEMMA FenceStep ==
    ASSUME Base, NEW c \in Connection, Fence(c)
    PROVE  /\ workers' = [w \in Worker |-> IF w \in LostWith(c) THEN NoConnection ELSE workers[w]]
           /\ publishers' = [w \in Worker |-> IF w \in LostWith(c) THEN AnyPublisher
                                              ELSE publishers[w]]
           /\ \E added \in SUBSET LostWith(c) : fenced' = fenced \cup added
           /\ connections[c].pc = "receive" /\ connections[c].socket = "closed"
           /\ connections'[c].workers = {} /\ connections'[c].socket = "closed"
           /\ connections'[c].pc = "withdraw" /\ connections'[c].lost = Identities(LostWith(c))
<1>1. Set(c, [pc |-> "withdraw", lost |-> Identities(LostWith(c)), workers |-> {}])
  BY DEF Fence
<1>2. TypeOK /\ connections[c].socket = "closed" /\ connections[c].pc = "receive"
  BY DEF Base, Fence, At
<1>3. /\ workers' = [w \in Worker |-> IF w \in LostWith(c) THEN NoConnection ELSE workers[w]]
      /\ publishers' = [w \in Worker |-> IF w \in LostWith(c) THEN AnyPublisher
                                         ELSE publishers[w]]
  BY DEF Fence, Forget
<1>4. \E added \in SUBSET LostWith(c) : fenced' = fenced \cup added
  BY DEF Fence
<1> HIDE DEF LostWith
<1>5. QED  BY <1>1, <1>2, <1>3, <1>4, SetRegistration, SetThread

LEMMA LeaveStep ==
    ASSUME Base, NEW c \in Connection, Leave(c)
    PROVE  /\ UNCHANGED registry /\ LostWith(c) = {}
           /\ connections'[c].workers = {} /\ connections'[c].socket = "finished"
           /\ connections'[c].pc = "receive" /\ connections[c].pc = "receive"
<1>1. Set(c, [socket |-> "finished", workers |-> {}])
  BY DEF Leave
<1>2. QED  BY <1>1, SetRegistration, SetThread DEF Base, Leave, At

LEMMA RegisterStep ==
    ASSUME Base, NEW c \in Connection, NEW x \in Publisher, NEW w \in Worker, Register(c, x, w)
    PROVE  /\ workers' = [workers EXCEPT ![w] = c] /\ fenced' = fenced
           /\ publishers' = [publishers EXCEPT ![w] = x] /\ <<x, w>> \in Speaks[c]
           /\ w \notin fenced /\ w \in Boots(c)
           /\ connections[c].pc = "receive" /\ connections'[c].pc = "receive"
           /\ connections'[c].workers = connections[c].workers \cup {w}
           /\ connections'[c].socket = "open"
<1>1. Set(c, [workers |-> connections[c].workers \cup {w}])
  BY DEF Register
<1>2. /\ connections'[c].workers = connections[c].workers \cup {w}
      /\ connections'[c].socket = connections[c].socket
      /\ connections'[c].pc = connections[c].pc
  BY <1>1, SetRegistration, SetThread DEF Base
<1>3. QED  BY <1>2 DEF Register, Receives, At, CanRegister, Boots

\* A slot that is taken or given back.
LEMMA SlotStep ==
    ASSUME Base, NEW c \in Connection, Accept(c) \/ Reap(c)
    PROVE  /\ UNCHANGED registry
           /\ connections[c].socket \in {"free", "finished"}
           /\ Accept(c) => connections[c].pc = "receive"
           /\ connections'[c].workers = {} /\ connections'[c].pc = "receive"
           /\ connections'[c].socket \in {"free", "open"}
<1>1. TypeOK /\ UNCHANGED registry
  BY DEF Base, Accept, Reap
<1>2. CASE Accept(c)
  <2>1. Set(c, [socket |-> "open"]) /\ connections[c] = Free
    BY <1>2 DEF Accept
  <2>2. connections[c].socket = "free" /\ connections[c].pc = "receive" /\ connections[c].workers = {}
    BY <2>1 DEF Free
  <2>3. connections'[c].socket = "open" /\ connections'[c].pc = connections[c].pc
        /\ connections'[c].workers = connections[c].workers
    BY <1>1, <2>1, SetRegistration, SetThread
  <2>4. QED  BY <1>1, <2>2, <2>3
<1>3. CASE Reap(c)
  <2>1. connections'[c] = Free /\ connections[c].socket = "finished"
    BY <1>1, <1>3 DEF Reap, TypeOK
  <2>2. connections'[c].socket = "free" /\ connections'[c].pc = "receive"
        /\ connections'[c].workers = {}
    BY <2>1 DEF Free
  <2>3. connections[c] # Free
    BY <2>1 DEF Free
  <2>4. QED  BY <1>1, <2>1, <2>2, <2>3 DEF Accept
<1>4. QED  BY <1>2, <1>3

\* The steps of a process, by what they do to the registry.
LEMMA RegistryStep ==
    ASSUME Base, NEW c \in Connection, Acts(c)
    PROVE  \/ Works(c) \/ Fence(c) \/ Leave(c) \/ Accept(c) \/ Reap(c) \/ Disconnect(c)
           \/ \E x \in Publisher, w \in Worker : Register(c, x, w)
           \/ \E request \in RequestType : Receive(c, request)
<1>1. CASE Client(c)
  BY <1>1, ReceivedRequest
<1>2. QED  BY <1>1 DEF Acts, Handle, Works

LEMMA RegistrationStep ==
    ASSUME RegistryInv, Running, NEW w \in Worker
    PROVE  RegistrationStands(w)'
<1>1. Base /\ workers \in [Worker -> Connection \cup {NoConnection}] /\ RegistrationStands(w)
  BY DEF RegistryInv, Base, TypeOK
<1> SUFFICES ASSUME workers'[w] # NoConnection
             PROVE  /\ w \in connections'[workers'[w]].workers
                    /\ connections'[workers'[w]].socket \in {"open", "closed"}
                    /\ w \notin fenced'
  BY DEF RegistrationStands, Registered
<1> DEFINE d == workers[w]
<1>2. ASSUME workers'[w] = d
      PROVE  /\ d \in Connection /\ w \in connections[d].workers
             /\ connections[d].socket \in {"open", "closed"} /\ w \notin fenced
  BY <1>1, <1>2 DEF RegistrationStands, Registered
<1>3. CASE Stop
  <2>1. workers'[w] = d /\ fenced' = fenced
    BY <1>1, <1>3, StopStep DEF Stop, registry
  <2>2. QED  BY <1>1, <1>2, <1>3, <2>1, StopStep
<1>4. ASSUME NEW c \in Connection, Acts(c), workers'[w] = d, fenced' = fenced, d # c
      PROVE  /\ w \in connections'[d].workers
             /\ connections'[d].socket \in {"open", "closed"} /\ w \notin fenced'
  BY <1>1, <1>2, <1>4, ActorStep DEF OnlyActor
<1>5. ASSUME NEW c \in Connection, Acts(c),
             UNCHANGED registry,
             d = c => /\ connections'[c].workers = connections[c].workers
                      /\ connections'[c].socket \in {connections[c].socket, "closed"}
      PROVE  /\ w \in connections'[workers'[w]].workers
             /\ connections'[workers'[w]].socket \in {"open", "closed"}
             /\ w \notin fenced'
  <2>1. workers'[w] = d /\ fenced' = fenced
    BY <1>5 DEF registry
  <2>2. CASE d = c
    BY <1>2, <1>5, <2>1, <2>2
  <2>3. CASE d # c
    BY <1>4, <1>5, <2>1, <2>3
  <2>4. QED  BY <2>2, <2>3
<1>6. ASSUME NEW c \in Connection, Acts(c), Works(c) \/ Disconnect(c)
                                          \/ \E request \in RequestType : Receive(c, request)
      PROVE  /\ w \in connections'[workers'[w]].workers
             /\ connections'[workers'[w]].socket \in {"open", "closed"}
             /\ w \notin fenced'
  <2>1. /\ UNCHANGED registry
        /\ connections'[c].workers = connections[c].workers
        /\ connections'[c].socket \in {connections[c].socket, "closed"}
    BY <1>1, <1>6, WorkStep, ClosedStep, ReceiveStep
  <2>2. QED  BY <1>5, <1>6, <2>1
<1>7. ASSUME NEW c \in Connection, Acts(c), Leave(c) \/ Accept(c) \/ Reap(c)
      PROVE  /\ w \in connections'[workers'[w]].workers
             /\ connections'[workers'[w]].socket \in {"open", "closed"}
             /\ w \notin fenced'
  <2>1. UNCHANGED registry
    BY <1>1, <1>7, LeaveStep, SlotStep
  <2>2. workers'[w] = d
    BY <2>1 DEF registry
  <2>3. d # c
    <3>1. CASE Leave(c)
      <4>1. w \notin connections[c].workers \/ ~Registered(w)
        BY <1>1, <3>1, LeaveStep, <1>2 DEF LostWith
      <4>2. QED  BY <1>2, <2>2, <4>1 DEF Registered
    <3>2. CASE Accept(c) \/ Reap(c)
      <4>1. connections[c].socket \in {"free", "finished"}
        BY <1>1, <3>2, SlotStep
      <4>2. QED  BY <1>2, <2>2, <4>1
    <3>3. QED  BY <1>7, <3>1, <3>2
  <2>4. QED  BY <1>5, <1>7, <2>1, <2>3
<1>8. ASSUME NEW c \in Connection, Acts(c), Fence(c)
      PROVE  /\ w \in connections'[workers'[w]].workers
             /\ connections'[workers'[w]].socket \in {"open", "closed"}
             /\ w \notin fenced'
  <2>1. w \notin LostWith(c) /\ workers'[w] = d
    BY <1>1, <1>8, FenceStep
  <2>2. d # c
    BY <1>2, <2>1 DEF LostWith, Registered
  <2>3. w \notin fenced'
    BY <1>1, <1>2, <1>8, <2>1, FenceStep
  <2>4. connections'[d] = connections[d]
    BY <1>1, <1>2, <1>8, <2>1, <2>2, ActorStep DEF OnlyActor
  <2>5. QED  BY <1>2, <2>1, <2>3, <2>4
<1>9. ASSUME NEW c \in Connection, Acts(c), NEW x \in Publisher, NEW v \in Worker, Register(c, x, v)
      PROVE  /\ w \in connections'[workers'[w]].workers
             /\ connections'[workers'[w]].socket \in {"open", "closed"}
             /\ w \notin fenced'
  <2>1. /\ workers' = [workers EXCEPT ![v] = c] /\ fenced' = fenced
        /\ v \notin fenced
        /\ connections'[c].workers = connections[c].workers \cup {v}
        /\ connections'[c].socket = "open"
    BY <1>1, <1>9, RegisterStep
  <2>2. CASE w = v
    BY <1>1, <2>1, <2>2
  <2>3. CASE w # v
    <3>1. workers'[w] = d
      BY <1>1, <2>1, <2>3
    <3>2. CASE d = c
      BY <1>2, <2>1, <3>1, <3>2
    <3>3. CASE d # c
      BY <1>4, <1>9, <2>1, <3>1, <3>3
    <3>4. QED  BY <3>2, <3>3
  <2>4. QED  BY <2>2, <2>3
<1>10. QED
  BY <1>1, <1>3, <1>6, <1>7, <1>8, <1>9, RegistryStep, RunningIs

LEMMA ConnectionStep ==
    ASSUME Apart, RegistryInv, Running, NEW d \in Connection
    PROVE  ConnectionStands(d)'
<1>1. /\ Base /\ workers \in [Worker -> Connection \cup {NoConnection}] /\ ConnectionStands(d)
      /\ NoConnection \notin Connection
  BY CoordinatorAssumption DEF RegistryInv, Base, TypeOK
<1>2. ASSUME connections[d].pc = "commit"
      PROVE  /\ Request(d).worker \in Worker /\ workers[Request(d).worker] = d
             /\ Request(d).worker \in connections[d].workers /\ Request(d).worker \in Boots(d)
             /\ Registered(Request(d).worker)
  <2>1. Request(d).worker \in Worker
    BY <1>1, <1>2 DEF Base, RequestsStand, RequestStands, RequestType
  <2>2. workers[Request(d).worker] = d
    BY <1>1, <1>2 DEF ConnectionStands
  <2>3. Registered(Request(d).worker)
    BY <1>1, <2>2 DEF Registered
  <2>4. Request(d).worker \in connections[d].workers
    BY <2>1, <2>2, <2>3 DEF RegistryInv, RegistrationStands
  <2>5. QED  BY <1>1, <2>1, <2>2, <2>3, <2>4 DEF ConnectionStands
<1>3. CASE Stop
  <2>1. /\ connections'[d].workers = connections[d].workers
        /\ connections'[d].pc = connections[d].pc
        /\ connections'[d].request = connections[d].request
        /\ connections'[d].socket = "finished" => connections[d].socket = "finished"
        /\ workers' = workers
    BY <1>1, <1>3, StopStep DEF registry
  <2>2. QED  BY <1>1, <2>1 DEF ConnectionStands, Request
<1>4. ASSUME NEW c \in Connection, Acts(c), c # d
      PROVE  ConnectionStands(d)'
  <2>1. connections'[d] = connections[d]
    BY <1>1, <1>4, ActorStep DEF OnlyActor
  <2>2. ASSUME connections[d].pc = "commit"
        PROVE  workers'[Request(d).worker] = d
    <3>1. CASE UNCHANGED registry
      BY <1>2, <2>2, <3>1 DEF registry
    <3>2. CASE Fence(c)
      <4>1. connections[c].workers \subseteq Boots(c)
        BY DEF RegistryInv, ConnectionStands
      <4>2. Request(d).worker \notin connections[c].workers
        BY <1>2, <1>4, <2>2, <4>1 DEF Apart
      <4>3. Request(d).worker \notin LostWith(c)
        BY <4>2 DEF LostWith
      <4>4. QED  BY <1>1, <1>2, <2>2, <3>2, <4>3, FenceStep
    <3>3. ASSUME NEW x \in Publisher, NEW w \in Worker, Register(c, x, w)
          PROVE  workers'[Request(d).worker] = d
      <4>1. w \in Boots(c) /\ workers' = [workers EXCEPT ![w] = c]
        BY <1>1, <3>3, RegisterStep
      <4>2. w # Request(d).worker
        BY <1>2, <1>4, <2>2, <4>1 DEF Apart
      <4>3. QED  BY <1>1, <1>2, <2>2, <4>1, <4>2
    <3>4. QED
      BY <1>1, <1>4, <3>1, <3>2, <3>3, RegistryStep, WorkStep, LeaveStep, SlotStep, ClosedStep,
         ReceiveStep
  <2>3. QED  BY <1>1, <2>1, <2>2 DEF ConnectionStands, Request
<1>5. CASE Works(d)
  <2>1. /\ connections[d].pc # "receive" /\ UNCHANGED registry
        /\ connections'[d].workers = connections[d].workers
        /\ connections'[d].socket = connections[d].socket
        /\ connections'[d].pc = "commit" => AcceptPublication(d) \/ AcceptRevocation(d)
    BY <1>1, <1>5, WorkStep
  <2>2. ASSUME AcceptPublication(d) \/ AcceptRevocation(d)
        PROVE  workers'[connections'[d].request.worker] = d
    <3>1. Set(d, [pc |-> "commit"]) /\ workers[Request(d).worker] = d
      BY <2>2 DEF AcceptPublication, AcceptRevocation, Refused, RegisteredHere
    <3>2. connections'[d].request = connections[d].request
      BY <1>1, <3>1, SetThread DEF Base
    <3>3. QED  BY <2>1, <3>1, <3>2 DEF Request, registry
  <2>3. QED  BY <1>1, <2>1, <2>2 DEF ConnectionStands, Request
<1>6. CASE Disconnect(d)
  BY <1>1, <1>6, ClosedStep DEF ConnectionStands, Request, registry
<1>7. CASE Fence(d)
  <2>1. connections'[d].workers = {} /\ connections'[d].socket = "closed"
        /\ connections'[d].pc = "withdraw"
    BY <1>1, <1>7, FenceStep
  <2>2. QED  BY <2>1 DEF ConnectionStands
<1>8. CASE Leave(d) \/ Accept(d) \/ Reap(d)
  <2>1. connections'[d].workers = {} /\ connections'[d].pc = "receive"
    BY <1>1, <1>8, LeaveStep, SlotStep
  <2>2. QED  BY <2>1 DEF ConnectionStands
<1>9. CASE \E x \in Publisher, w \in Worker : Register(d, x, w)
  <2>1. PICK x \in Publisher, w \in Worker : Register(d, x, w)
    BY <1>9
  <2>2. /\ connections'[d].workers = connections[d].workers \cup {w} /\ w \in Boots(d)
        /\ connections'[d].socket = "open" /\ connections'[d].pc = "receive"
    BY <1>1, <2>1, RegisterStep
  <2>3. QED  BY <1>1, <2>2 DEF ConnectionStands
<1>10. CASE \E request \in RequestType : Receive(d, request)
  <2>1. /\ connections'[d].workers = connections[d].workers
        /\ connections'[d].socket = "open" /\ connections'[d].pc = "registered"
    BY <1>1, <1>10, ReceiveStep
  <2>2. QED  BY <1>1, <2>1 DEF ConnectionStands
<1>11. QED
  BY <1>1, <1>3, <1>4, <1>5, <1>6, <1>7, <1>8, <1>9, <1>10, RegistryStep, RunningIs

LEMMA NamesStep ==
    ASSUME RegistryInv, NamesStand, Running
    PROVE  NamesStand'
<1>1. /\ Base /\ workers \in [Worker -> Connection \cup {NoConnection}]
      /\ publishers \in [Worker -> Publisher]
  BY DEF RegistryInv, Base, TypeOK
<1>2. ASSUME NEW w \in Worker, workers'[w] # NoConnection
      PROVE  <<publishers'[w], w>> \in Speakers
  <2>1. CASE UNCHANGED registry
    BY <1>2, <2>1 DEF NamesStand, Registered, registry
  <2>2. ASSUME NEW c \in Connection, Fence(c) PROVE <<publishers'[w], w>> \in Speakers
    <3>1. w \notin LostWith(c) /\ publishers'[w] = publishers[w] /\ workers'[w] = workers[w]
      BY <1>1, <1>2, <2>2, FenceStep
    <3>2. QED  BY <1>2, <3>1 DEF NamesStand, Registered
  <2>3. ASSUME NEW c \in Connection, NEW x \in Publisher, NEW v \in Worker, Register(c, x, v)
        PROVE  <<publishers'[w], w>> \in Speakers
    <3>1. /\ publishers' = [publishers EXCEPT ![v] = x] /\ workers' = [workers EXCEPT ![v] = c]
          /\ <<x, v>> \in Speaks[c]
      BY <1>1, <2>3, RegisterStep
    <3>2. CASE w = v
      BY <1>1, <3>1, <3>2 DEF Speakers
    <3>3. CASE w # v
      BY <1>1, <1>2, <3>1, <3>3 DEF NamesStand, Registered
    <3>4. QED  BY <3>2, <3>3
  <2>4. QED
    BY <1>1, <2>1, <2>2, <2>3, RegistryStep, RunningIs, WorkStep, LeaveStep, SlotStep, ClosedStep,
       ReceiveStep DEF registry, Stop
<1>3. ASSUME NEW d \in Connection, connections'[d].pc \in {"registered", "commit"}
      PROVE  Sender(connections'[d].request) \in Speakers
  <2>1. ASSUME connections[d].pc \in {"registered", "commit"},
               connections'[d].request = connections[d].request
        PROVE  Sender(connections'[d].request) \in Speakers
    BY <2>1 DEF NamesStand, Request, Sender
  <2>2. CASE Stop
    BY <1>1, <1>3, <2>1, <2>2, StopStep
  <2>3. CASE \E c \in Connection : Acts(c) /\ c # d
    <3>1. connections'[d] = connections[d]
      BY <1>1, <2>3, ActorStep DEF OnlyActor
    <3>2. QED  BY <1>3, <2>1, <3>1
  <2>4. CASE Works(d)
    <3>1. AcceptPublication(d) \/ AcceptRevocation(d)
      BY <1>1, <1>3, <2>4, WorkStep
    <3>2. Set(d, [pc |-> "commit"]) /\ connections[d].pc = "registered"
      BY <3>1 DEF AcceptPublication, AcceptRevocation, At
    <3>3. connections'[d].request = connections[d].request
      BY <1>1, <3>2, SetThread DEF Base
    <3>4. QED  BY <2>1, <3>2, <3>3
  <2>5. CASE Disconnect(d)
    BY <1>1, <1>3, <2>1, <2>5, ClosedStep
  <2>6. CASE \E request \in RequestType : Receive(d, request)
    <3>1. Sender(connections'[d].request) \in Speaks[d]
      BY <1>1, <2>6, ReceiveStep
    <3>2. QED  BY <3>1 DEF Speakers
  <2>7. CASE Fence(d) \/ Leave(d) \/ Accept(d) \/ Reap(d)
             \/ \E x \in Publisher, w \in Worker : Register(d, x, w)
    BY <1>1, <1>3, <2>7, FenceStep, LeaveStep, SlotStep, RegisterStep
  <2>8. QED  BY <1>1, <2>2, <2>3, <2>4, <2>5, <2>6, <2>7, RegistryStep, RunningIs
<1>4. QED  BY <1>2, <1>3 DEF NamesStand, Registered, Request, Sender

\* Live authority has its holder when a process steps.
LEMMA HeldStep ==
    ASSUME OneName, RegistryInv, NamesStand, Running, NEW p \in Path, NEW x \in Publisher,
           NEW w \in Worker, Held(<<x, w>>), Keeps(p), Live(p), ~Runtime!Exhausted(p),
           authority[p].worker = <<x, w>>
    PROVE  Held(<<x, w>>)'
<1>1. Base /\ status # "down" /\ status' # "down"
      /\ workers \in [Worker -> Connection \cup {NoConnection}]
      /\ publishers \in [Worker -> Publisher]
  BY ProcessStays DEF RegistryInv, Base, TypeOK
<1>2. RegistrationStands(w)'
  BY RegistrationStep
<1>3. ASSUME NEW d \in Connection, connections'[d].pc = "withdraw",
             <<x, w>> \in connections'[d].lost
      PROVE  Held(<<x, w>>)'
  BY <1>1, <1>3 DEF Held, At
<1>4. CASE Registered(w) /\ publishers[w] = x
  <2>1. CASE UNCHANGED registry
    <3>1. workers'[w] # NoConnection /\ publishers'[w] = x
      BY <1>4, <2>1 DEF Registered, registry
    <3>2. QED  BY <1>2, <3>1 DEF RegistrationStands, Registered, Held
  <2>2. ASSUME NEW c \in Connection, Fence(c) PROVE Held(<<x, w>>)'
    <3>1. CASE w \in LostWith(c)
      <4>1. <<x, w>> \in Identities(LostWith(c))
        BY <1>4, <3>1 DEF Identities
      <4>2. connections'[c].pc = "withdraw" /\ <<x, w>> \in connections'[c].lost
        BY <1>1, <2>2, <4>1, FenceStep
      <4>3. QED  BY <1>3, <4>2
    <3>2. CASE w \notin LostWith(c)
      <4>1. workers'[w] = workers[w] /\ publishers'[w] = publishers[w]
        BY <1>1, <2>2, <3>2, FenceStep
      <4>2. QED  BY <1>2, <1>4, <4>1 DEF RegistrationStands, Registered, Held
    <3>3. QED  BY <3>1, <3>2
  <2>3. ASSUME NEW c \in Connection, NEW y \in Publisher, NEW v \in Worker, Register(c, y, v)
        PROVE  Held(<<x, w>>)'
    <3>1. /\ workers' = [workers EXCEPT ![v] = c] /\ publishers' = [publishers EXCEPT ![v] = y]
          /\ <<y, v>> \in Speakers /\ <<x, w>> \in Speakers /\ NoConnection \notin Connection
      BY <1>1, <1>4, <2>3, RegisterStep, CoordinatorAssumption DEF Speakers, NamesStand
    <3>2. v = w => y = x
      BY <3>1 DEF OneName
    <3>3. workers'[w] # NoConnection /\ publishers'[w] = x
      BY <1>1, <1>4, <3>1, <3>2 DEF Registered
    <3>4. QED  BY <1>2, <3>3 DEF RegistrationStands, Registered, Held
  <2>4. QED
    BY <1>1, <2>1, <2>2, <2>3, RegistryStep, RunningIs, WorkStep, LeaveStep, SlotStep, ClosedStep,
       ReceiveStep DEF registry, Stop
<1>5. CASE \E d \in Connection : At(d, "withdraw") /\ <<x, w>> \in connections[d].lost
  <2>1. PICK d \in Connection : connections[d].pc = "withdraw" /\ <<x, w>> \in connections[d].lost
    BY <1>5 DEF At
  <2>2. CASE Stop
    BY <1>1, <1>3, <2>1, <2>2, StopStep
  <2>3. CASE \E c \in Connection : Acts(c) /\ c # d
    <3>1. connections'[d] = connections[d]
      BY <1>1, <2>3, ActorStep DEF OnlyActor
    <3>2. QED  BY <1>3, <2>1, <3>1
  <2>4. CASE Disconnect(d)
    BY <1>1, <1>3, <2>1, <2>4, ClosedStep
  <2>5. ASSUME NEW id \in Identity, Withdraw(d, id) PROVE Held(<<x, w>>)'
    <3>1. id # <<x, w>>
      <4>1. Runtime!Decided(p) /\ authority[p].generation # MaxGeneration
        BY <1>1 DEF Runtime!Decided, Runtime!Exhausted, Live, AuthorizingState, Base, Sealed
      <4>2. id = <<x, w>> => authority'[p].state = "REVALIDATION_REQUIRED"
        BY <1>1, <2>5, <4>1, WithdrawStep DEF Base
      <4>3. authority[p].state # "REVALIDATION_REQUIRED"
        BY DEF Live, AuthorizingState
      <4>4. QED  BY <4>2, <4>3 DEF Keeps
    <3> DEFINE next == IF connections[d].lost = {id} THEN "export" ELSE "withdraw"
    <3>2. Set(d, [lost |-> connections[d].lost \ {id}, pc |-> next]) /\ next = "withdraw"
      BY <2>1, <2>5, <3>1 DEF Withdraw
    <3> HIDE DEF next
    <3>3. connections'[d].pc = "withdraw" /\ connections'[d].lost = connections[d].lost \ {id}
      BY <1>1, <3>2, SetThread, SetRegistration DEF Base
    <3>4. QED  BY <1>3, <2>1, <3>1, <3>3
  <2>6. ASSUME Acts(d), ~Disconnect(d), ~ \E id \in Identity : Withdraw(d, id) PROVE FALSE
    <3>1. CASE Works(d)
      BY <2>1, <2>6, <3>1
         DEF Works, AcceptPublication, AcceptRevocation, Refuse, RejectCommit, RejectRevoke,
             Write, Commit, ReplayCommit, Revoke, Export, Gather, At
    <3>2. CASE Fence(d) \/ Leave(d)
      BY <1>1, <2>1, <3>2, FenceStep, LeaveStep
    <3>3. CASE Accept(d)
      BY <1>1, <2>1, <3>3, SlotStep
    <3>4. CASE Reap(d)
      BY <2>1, <3>4 DEF Reap, RegistryInv, ConnectionStands
    <3>5. CASE \/ \E y \in Publisher, v \in Worker : Register(d, y, v)
               \/ \E request \in RequestType : Receive(d, request)
      BY <1>1, <2>1, <3>5, RegisterStep, ReceiveStep
    <3>6. QED  BY <1>1, <2>6, <3>1, <3>2, <3>3, <3>4, <3>5, RegistryStep
  <2>7. QED  BY <2>2, <2>3, <2>4, <2>5, <2>6, RunningIs
<1>6. QED  BY <1>4, <1>5 DEF Held

LEMMA LiveIsHeldStep ==
    ASSUME OneName, HeldInv, Running
    PROVE  LiveIsHeldByName'
<1>1. /\ Base /\ RegistryInv /\ NamesStand /\ NoConnection \notin Connection
      /\ publishers \in [Worker -> Publisher]
  BY CoordinatorAssumption DEF HeldInv, RegistryInv, Base, TypeOK
<1> SUFFICES ASSUME NEW p \in Path, NEW id, id = authority'[p].worker,
                    authority'[p].state \in AuthorizingState,
                    authority'[p].generation # MaxGeneration
             PROVE  Held(id)'
  BY DEF LiveIsHeldByName, Live, Runtime!Exhausted
<1>2. CASE Keeps(p)
  <2>1. authority[p].worker = id /\ id \in Identity
    BY <1>1, <1>2, TypeFacts, AuthorityIs DEF Base, Keeps
  <2>2. Live(p) /\ ~Runtime!Exhausted(p)
    BY <1>2 DEF Keeps, Live, Runtime!Exhausted
  <2>3. Held(id)
    BY <2>1, <2>2 DEF HeldInv, LiveIsHeldByName
  <2>4. PICK x \in Publisher, w \in Worker : id = <<x, w>>
    BY <2>1 DEF Identity
  <2>5. QED  BY <1>1, <1>2, <2>1, <2>2, <2>3, <2>4, HeldStep
<1>3. CASE Withdraws(p)
  BY <1>3 DEF Withdraws, AuthorizingState
<1>4. ASSUME NEW c \in Connection, Stores(p, c)
      PROVE  Held(id)'
  <2>1. /\ connections[c].pc = "commit" /\ UNCHANGED registry
        /\ id = <<Request(c).publisher, Request(c).worker>>
    BY <1>4 DEF Stores, Commit, At, Sender
  <2>2. Request(c).publisher \in Publisher /\ Request(c).worker \in Worker
    BY <1>1, <2>1 DEF Base, RequestsStand, RequestStands, RequestType
  <2>3. PICK x \in Publisher, w \in Worker : x = Request(c).publisher /\ w = Request(c).worker
    BY <2>2
  <2>4. workers[w] = c
    BY <1>1, <2>1, <2>3 DEF RegistryInv, ConnectionStands
  <2>5. <<x, w>> \in Speakers
    BY <1>1, <2>1, <2>3 DEF NamesStand, Sender
  <2>6. <<publishers[w], w>> \in Speakers
    BY <1>1, <2>4 DEF NamesStand, Registered
  <2>7. publishers[w] = x
    BY <1>1, <2>5, <2>6 DEF OneName
  <2>8. workers'[w] # NoConnection /\ publishers'[w] = x
    BY <1>1, <2>1, <2>4, <2>7 DEF registry
  <2>9. RegistrationStands(w)'
    BY <1>1, RegistrationStep
  <2>10. id = <<x, w>>
    BY <2>1, <2>3
  <2>11. QED  BY <2>8, <2>9, <2>10 DEF RegistrationStands, Registered, Held
<1>5. QED  BY <1>1, <1>2, <1>3, <1>4, RecordStep

\* No authority is live in a process that has just started, or has ended.
LEMMA NothingLive ==
    ASSUME Base, Crash \/ Start, NEW p \in Path
    PROVE  authority'[p].state \notin AuthorizingState
<1>1. CASE Crash
  BY <1>1 DEF Crash, Runtime!Undecided, AuthorizingState
<1>2. CASE Start
  <2>1. CASE store = NoImage
    <3>1. epoch = 0 /\ authority'[p] = authority[p]
      BY <1>2, <2>1, StartRecords DEF Start, Base, DownIsEmpty
    <3>2. ASSUME authority[p].state \in AuthorizingState PROVE FALSE
      <4>1. digest[p] # NoDigest /\ digest[p] = <<authority[p].state, 0>>
        BY <3>1, <3>2 DEF Base, Sealed
      <4>2. digest[p] \in AuthorityState \X (1..MaxEpoch)
        BY <4>1, TypeFacts DEF Base
      <4>3. QED  BY <4>1, <4>2
    <3>3. QED  BY <3>1, <3>2
  <2>2. CASE store # NoImage
    <3> DEFINE a == store.authority[p]
    <3>1. /\ authority'[p] = Recovered(a)
          /\ a.generation = 0 => Recovered(a) = a
          /\ a.generation # 0 => Recovered(a).state \notin AuthorizingState
      BY <1>2, <2>2, StartRecords, RecoveredIs
    <3>2. a.generation = 0 => a.state = "UNKNOWN"
      BY <2>2 DEF Base, ImagesSealed, Sealed
    <3> HIDE DEF a
    <3>3. QED  BY <3>1, <3>2 DEF AuthorizingState
  <2>3. QED  BY <2>1, <2>2
<1>3. QED  BY <1>1, <1>2

LEMMA InitHeld == Init => HeldInv
<1> SUFFICES ASSUME Init PROVE HeldInv
  OBVIOUS
<1>1. ASSUME NEW c \in Connection
      PROVE  ConnectionStands(c) /\ connections[c].pc = "receive"
  <2>1. connections[c] = Free
    BY DEF Init
  <2>2. connections[c].workers = {} /\ connections[c].socket = "free"
        /\ connections[c].pc = "receive"
    BY <2>1 DEF Free
  <2>3. QED  BY <2>2 DEF ConnectionStands
<1>2. ASSUME NEW w \in Worker PROVE RegistrationStands(w) /\ ~Registered(w)
  BY DEF Init, RegistrationStands, Registered
<1>3. LiveIsHeldByName
  BY DEF Init, LiveIsHeldByName, Live, Runtime!Init, Runtime!Undecided, AuthorizingState
<1>4. NamesStand
  BY <1>1, <1>2 DEF NamesStand
<1>5. QED  BY <1>1, <1>2, <1>3, <1>4, InitBase DEF HeldInv, RegistryInv

\* A process that ends or starts has no connections and no workers.
LEMMA EmptyHeld ==
    ASSUME Base, Crash \/ Start
    PROVE  HeldInv'
<1>1. Base'
  BY NextBase DEF Next
<1>2. ASSUME NEW c \in Connection
      PROVE  ConnectionStands(c)' /\ connections'[c].pc = "receive"
  <2>1. connections'[c] = Free
    BY <1>1 DEF Crash, Start, Base, DownIsEmpty
  <2>2. connections'[c].workers = {} /\ connections'[c].socket = "free"
        /\ connections'[c].pc = "receive"
    BY <2>1 DEF Free
  <2>3. QED  BY <2>2 DEF ConnectionStands
<1>3. ASSUME NEW w \in Worker PROVE RegistrationStands(w)' /\ workers'[w] = NoConnection
  <2>1. workers'[w] = NoConnection
    BY <1>1 DEF Crash, Start, Base, DownIsEmpty, Registered
  <2>2. QED  BY <2>1 DEF RegistrationStands, Registered
<1>4. LiveIsHeldByName'
  BY <1>1, NothingLive DEF LiveIsHeldByName, Live
<1>5. NamesStand'
  BY <1>2, <1>3 DEF NamesStand, Registered
<1>6. QED  BY <1>1, <1>2, <1>3, <1>4, <1>5 DEF HeldInv, RegistryInv

LEMMA NextRegistry == Apart /\ RegistryInv /\ [Next]_vars => RegistryInv'
<1> SUFFICES ASSUME Apart, RegistryInv, [Next]_vars PROVE RegistryInv'
  OBVIOUS
<1>1. Base'
  BY NextBase DEF RegistryInv
<1>2. CASE Running
  BY <1>1, <1>2, RegistrationStep, ConnectionStep DEF RegistryInv
<1>3. CASE Crash \/ Start
  BY <1>3, EmptyHeld DEF RegistryInv, HeldInv
<1>4. CASE UNCHANGED vars
  <2>1. UNCHANGED <<workers, fenced, connections>>
    BY <1>4 DEF vars, registry
  <2>2. (\A w \in Worker : RegistrationStands(w))'
    BY <2>1 DEF RegistryInv, RegistrationStands, Registered
  <2>3. (\A c \in Connection : ConnectionStands(c))'
    BY <2>1 DEF RegistryInv, ConnectionStands, Request
  <2>4. QED  BY <1>1, <2>2, <2>3 DEF RegistryInv
<1>5. QED  BY <1>2, <1>3, <1>4 DEF Running

LEMMA NextHeld == Apart /\ OneName /\ HeldInv /\ [Next]_vars => HeldInv'
<1> SUFFICES ASSUME Apart, OneName, HeldInv, [Next]_vars PROVE HeldInv'
  OBVIOUS
<1>1. RegistryInv'
  BY NextRegistry DEF HeldInv
<1>2. CASE Running
  BY <1>1, <1>2, NamesStep, LiveIsHeldStep DEF HeldInv
<1>3. CASE Crash \/ Start
  BY <1>3, EmptyHeld DEF HeldInv, RegistryInv
<1>4. CASE UNCHANGED vars
  <2>1. UNCHANGED <<authority, workers, publishers, fenced, connections, status>>
    BY <1>4 DEF vars, runtime, process, registry
  <2>2. LiveIsHeldByName'
    BY <2>1 DEF HeldInv, LiveIsHeldByName, Held, Live, Runtime!Exhausted, Registered, At
  <2>3. NamesStand'
    BY <2>1 DEF HeldInv, NamesStand, Registered, Request, Sender
  <2>4. QED  BY <1>1, <2>2, <2>3 DEF HeldInv
<1>5. QED  BY <1>2, <1>3, <1>4 DEF Running

\* When a worker boot speaks on one connection and for one publisher, live authority
\* always has a registered worker, or a thread that is about to withdraw it:
\* fence_connection_workers() misses none.  Without OneName it is false: handle_publish()
\* does not compare the publisher of a request with the registered one.
THEOREM LiveIsAlwaysHeld ==
    ASSUME Apart, OneName
    PROVE  Spec => []LiveIsHeld
<1>1. HeldInv /\ [Next]_vars => HeldInv'
  BY NextHeld
<1>2. HeldInv => LiveIsHeld
  BY DEF HeldInv, LiveIsHeldByName, LiveIsHeld, Held
<1>3. QED  BY <1>1, <1>2, InitHeld, PTL DEF Spec
=============================================================================
