----------------------------- MODULE Coordinator -----------------------------
(***************************************************************************)
(* PathAuthorityCoordinator (distributed.cpp): a thread for each connection*)
(* that registers workers, publishes and revokes for them, fences them when*)
(* the connection is lost, and writes the durable image after each change; *)
(* crash, and restart from that image under the next Fabric Epoch.         *)
(*                                                                         *)
(* Its runtime is AuthorityContract, with each connection's thread as a    *)
(* caller.  Handlers are cut where they leave one lock and take the next.  *)
(* A client has one request under way, sends any request in the names that *)
(* Speaks gives its connection, and may vanish.                            *)
(*                                                                         *)
(* A worker boot registers for a publisher and publishes for one, and the  *)
(* code does not compare the two: both are in the model.                   *)
(***************************************************************************)
EXTENDS AuthorityTypes, Integers, FiniteSets

CONSTANTS
    Path,
    Publisher,      \* publisher ids
    Worker,         \* worker boot ids
    Connection,     \* the slots of the connections map: max_connections of them
    NoConnection,
    Speaks,         \* Speaks[c]: the publishers and boots that requests on c are made for
    MaxWorkers,     \* CoordinatorConfig::max_publishers
    MaxFenced,      \* Limits::max_publishers
    MaxGeneration,  \* the last authority generation (2^64 - 1 in the code)
    MaxEpoch,       \* the last Fabric Epoch (2^64 - 1 in the code)
    Publishes,      \* the outcomes workers publish
    Override        \* the epochs an operator may start it with; 0: none

VARIABLES
    authority,      \* the runtime's records
    asked,          \* and the calls in it
    digest,         \* the decision each record's authority digest is of
    status,         \* the process: "down", "running", "stopping"
    epoch,          \* the Fabric Epoch it owns
    workers,        \* the connection each worker is registered on
    publishers,     \* and the publisher it is registered for
    fenced,         \* the workers that may not register again
    connections,    \* the connections, each with its thread
    store,          \* the image on disk
    answered,       \* what callers were told they can rely on, by all processes
    lapsed          \* a write failed, or put an older image over a newer one

runtime == <<authority, asked, digest>>
process == <<status, epoch>>
registry == <<workers, publishers, fenced>>
disk == <<store, answered, lapsed>>
vars == <<runtime, process, registry, connections, disk>>

\* Who a request is for, who a record is of: the envelope's publisher and worker boot.
Identity == Publisher \X Worker

Runtime == INSTANCE AuthorityContract WITH Caller <- Connection, Worker <- Identity

ASSUME CoordinatorAssumption ==
    /\ Speaks \in [Connection -> SUBSET Identity]
    /\ MaxWorkers \in Nat /\ MaxFenced \in Nat
    /\ MaxGeneration \in Nat \ {0} /\ MaxEpoch \in Nat \ {0}
    /\ Publishes \subseteq {"AUTHORIZED", "CONDITIONALLY_AUTHORIZED", "HARD_FAILURE"}
    /\ Override \subseteq 0..MaxEpoch
    /\ Path # {} /\ Publisher # {} /\ Worker # {} /\ NoConnection \notin Connection

NoRequest == <<>>
NoImage == <<>>
NoAnswer == <<>>
NoDigest == <<>>
AnyPublisher == CHOOSE x \in Publisher : TRUE   \* of a worker that is not registered

Free ==
    [socket |-> "free", pc |-> "receive", request |-> NoRequest, workers |-> {},
     lost |-> {}, image |-> NoImage, answer |-> NoAnswer]

Revoked(p) == authority[p].revoked
Live(p) == authority[p].state \in AuthorizingState
Registered(w) == workers[w] # NoConnection

Set(c, fields) ==
    connections' = [connections EXCEPT ![c] =
        [f \in DOMAIN Free |-> IF f \in DOMAIN fields THEN fields[f] ELSE @[f]]]

At(c, pc) == status # "down" /\ connections[c].pc = pc
Request(c) == connections[c].request

-----------------------------------------------------------------------------
(* Registration.                                                           *)

\* A frame is handled between two others, on a socket that is still open.
Receives(c) == At(c, "receive") /\ connections[c].socket = "open" /\ status = "running"

\* A fenced worker is refused, and any worker when the registry is full.
CanRegister(w) ==
    /\ w \notin fenced
    /\ Cardinality({v \in Worker : Registered(v)}) < MaxWorkers

\* handle_register(): a worker that is registered already moves to this connection, and
\* to this publisher.
Register(c, publisher, w) ==
    /\ Receives(c)
    /\ <<publisher, w>> \in Speaks[c]
    /\ CanRegister(w)
    /\ workers' = [workers EXCEPT ![w] = c]
    /\ publishers' = [publishers EXCEPT ![w] = publisher]
    /\ Set(c, [workers |-> connections[c].workers \cup {w}])
    /\ UNCHANGED <<runtime, process, fenced, disk>>

-----------------------------------------------------------------------------
(* Publication and revocation.                                             *)

RequestOf(kind, id, p, outcome, expected, bound) ==
    [kind |-> kind, publisher |-> id[1], worker |-> id[2], path |-> p, outcome |-> outcome,
     state |-> state_for_outcome(outcome), expected |-> expected, epoch |-> bound]

Sender(request) == <<request.publisher, request.worker>>

\* An epoch from one on that the operator asked for.
Overridden(e) == \E override \in Override : 0 < override /\ override <= e

\* The epochs a client can have heard of: a process that is started again is behind one
\* only if that was asked for and no image tells of it.  The generations it may expect.
KnownEpochs == {e \in 1..MaxEpoch : e <= epoch \/ Overridden(e)}
Expectations(p) == {Runtime!NoExpectation, authority[p].generation}

\* A worker that decides again what it has decided sends a replay of it.
AsReplay(request) == [request EXCEPT !.outcome = "IDEMPOTENT"]

\* handle_publish(), handle_revoke(): a fenced worker is refused, first.
Receive(c, request) ==
    /\ Receives(c)
    /\ Sender(request) \in Speaks[c]
    /\ request.worker \notin fenced
    /\ Set(c, [pc |-> "registered", request |-> request])
    /\ UNCHANGED <<runtime, process, registry, disk>>

Answer(c) ==
    Set(c, [pc |-> "receive", request |-> NoRequest, image |-> NoImage, answer |-> NoAnswer])

\* An accepted request is answered, with the generation it left the path in, when the
\* image is written.
Persist(c) ==
    Set(c, [pc |-> "export", request |-> NoRequest,
            answer |-> [kind |-> Request(c).kind, path |-> Request(c).path,
                        generation |-> authority'[Request(c).path].generation,
                        state |-> authority'[Request(c).path].state]])

\* worker_registered(): whoever it is registered for.
RegisteredHere(c) == workers[Request(c).worker] = c

\* publish_decision(): a state that is not its outcome's is refused, and a path that is
\* revoked or retired.
Unpublishable(request) ==
    \/ request.state # state_for_outcome(request.outcome)
    \/ Runtime!Withdrawn(request.path)

\* A worker of another connection, or an old epoch, is refused.
Refused(c) ==
    \/ ~RegisteredHere(c)
    \/ Request(c).epoch # epoch
    \/ Request(c).kind = "publish" /\ Unpublishable(Request(c))

Refuse(c) ==
    /\ At(c, "registered")
    /\ Refused(c)
    /\ Answer(c)
    /\ UNCHANGED <<runtime, process, registry, disk>>

AcceptPublication(c) ==
    /\ At(c, "registered")
    /\ Request(c).kind = "publish"
    /\ ~Refused(c)
    /\ Runtime!Ask(c, Request(c).path, Request(c).expected)
    /\ Set(c, [pc |-> "commit"])
    /\ UNCHANGED <<digest, process, registry, disk>>

AcceptRevocation(c) ==
    /\ At(c, "registered")
    /\ Request(c).kind = "revoke"
    /\ ~Refused(c)
    /\ Set(c, [pc |-> "commit"])
    /\ UNCHANGED <<runtime, process, registry, disk>>

\* The digest covers state and epoch of the decision.
DecisionDigest(c) == <<Request(c).state, Request(c).epoch>>

Unexpected(c) ==
    Request(c).expected \notin {Runtime!NoExpectation, authority[Request(c).path].generation}

\* commit(): what the record's digest says already is IDEMPOTENT, and leaves the record
\* with the publisher it had.
Replayed(c) == ~Unexpected(c) /\ digest[Request(c).path] = DecisionDigest(c)

Commit(c) ==
    /\ At(c, "commit") /\ Request(c).kind = "publish"
    /\ ~Replayed(c)
    /\ Runtime!Decide(c, Request(c).state, Sender(Request(c)))
    /\ digest' = [digest EXCEPT ![Request(c).path] = DecisionDigest(c)]
    /\ Persist(c)
    /\ UNCHANGED <<process, registry, disk>>

ReplayCommit(c) ==
    /\ At(c, "commit") /\ Request(c).kind = "publish"
    /\ Replayed(c)
    /\ Runtime!Decline(c)
    /\ Persist(c)
    /\ UNCHANGED <<digest, process, registry, disk>>

\* STALE_AUTHORITY, or the generations are used up.
RejectCommit(c) ==
    /\ At(c, "commit") /\ Request(c).kind = "publish"
    /\ Unexpected(c) \/ (~Replayed(c) /\ Runtime!Exhausted(Request(c).path))
    /\ Runtime!Decline(c)
    /\ Answer(c)
    /\ UNCHANGED <<digest, process, registry, disk>>

\* The records that change are sealed again, with the evidence they had.
Resealed ==
    digest' = [p \in Path |-> IF authority'[p] = authority[p] THEN digest[p]
                              ELSE <<authority'[p].state, digest[p][2]>>]

\* revoke(): for another reason once more; for the same one it is IDEMPOTENT.
Revoke(c) ==
    /\ At(c, "commit") /\ Request(c).kind = "revoke"
    /\ ~Unexpected(c)
    /\ \/ Runtime!Revoke(Request(c).path) /\ Resealed
       \/ Revoked(Request(c).path) /\ UNCHANGED runtime
    /\ Persist(c)
    /\ UNCHANGED <<process, registry, disk>>

RejectRevoke(c) ==
    /\ At(c, "commit") /\ Request(c).kind = "revoke"
    /\ LET p == Request(c).path IN
       \/ Unexpected(c)
       \/ ~Runtime!Decided(p)
       \/ Runtime!Exhausted(p)
    /\ Answer(c)
    /\ UNCHANGED <<runtime, process, registry, disk>>

-----------------------------------------------------------------------------
(* The loss of a connection.                                               *)

\* SHUTDOWN, a closed or broken connection, a frame that cannot be read: the thread
\* finishes what it does and fences.
Disconnect(c) ==
    /\ status # "down"
    /\ connections[c].socket = "open"
    /\ Set(c, [socket |-> "closed"])
    /\ UNCHANGED <<runtime, process, registry, disk>>

\* The workers registered on connection c that fence_connection_workers() finds,
\* whichever connection they are registered on by now.
LostWith(c) == {w \in connections[c].workers : Registered(w)}

\* By the entries, not by what they published.
Identities(lost) == {<<publishers[w], w>> : w \in lost}

Forget(lost) ==
    /\ workers' = [w \in Worker |-> IF w \in lost THEN NoConnection ELSE workers[w]]
    /\ publishers' = [w \in Worker |-> IF w \in lost THEN AnyPublisher ELSE publishers[w]]

\* Mutant: a worker that the full fence does not take is not counted as lost.
FenceOrForget(c) ==
    /\ At(c, "receive") /\ connections[c].socket = "closed"
    /\ LostWith(c) # {}
    /\ \E added \in SUBSET LostWith(c) :
          /\ Cardinality(fenced \cup added) <= MaxFenced \/ added = {}
          /\ added # LostWith(c) => Cardinality(fenced \cup added) >= MaxFenced
          /\ fenced' = fenced \cup added
          /\ Set(c, [pc |-> IF added = {} THEN "export" ELSE "withdraw",
                     lost |-> Identities(added), workers |-> {}])
    /\ Forget(LostWith(c))
    /\ UNCHANGED <<runtime, process, disk>>

\* fence_connection_workers(), under the worker lock: a full fence takes no more.
Fence(c) ==
    /\ At(c, "receive") /\ connections[c].socket = "closed"
    /\ LostWith(c) # {}
    /\ \E added \in SUBSET LostWith(c) :
          /\ Cardinality(fenced \cup added) <= MaxFenced \/ added = {}
          /\ added # LostWith(c) => Cardinality(fenced \cup added) >= MaxFenced
          /\ fenced' = fenced \cup added
    /\ Forget(LostWith(c))
    /\ Set(c, [pc |-> "withdraw", lost |-> Identities(LostWith(c)), workers |-> {}])
    /\ UNCHANGED <<runtime, process, disk>>

\* ... then, without it, invalidate_publisher() for each of them: the records of this
\* publisher and this boot.
Withdraw(c, id) ==
    /\ At(c, "withdraw")
    /\ id \in connections[c].lost
    /\ Runtime!Invalidate({p \in Path : Runtime!Decided(p) /\ authority[p].worker = id})
    /\ Resealed
    /\ Set(c, [lost |-> connections[c].lost \ {id},
               pc |-> IF connections[c].lost = {id} THEN "export" ELSE "withdraw"])
    /\ UNCHANGED <<process, registry, disk>>

\* Mutant: a thread that ends does not say so.
LeaveUnfinished(c) ==
    /\ At(c, "receive") /\ connections[c].socket = "closed"
    /\ LostWith(c) = {}
    /\ Set(c, [workers |-> {}])
    /\ UNCHANGED <<runtime, process, registry, disk>>

\* The thread ends, at once or after the image is written.
Leave(c) ==
    /\ At(c, "receive") /\ connections[c].socket = "closed"
    /\ LostWith(c) = {}
    /\ Set(c, [socket |-> "finished", workers |-> {}])
    /\ UNCHANGED <<runtime, process, registry, disk>>

\* accept_loop(): a client is taken while there is a slot ...
Accept(c) ==
    /\ status = "running"
    /\ connections[c] = Free
    /\ Set(c, [socket |-> "open"])
    /\ UNCHANGED <<runtime, process, registry, disk>>

\* ... and the ended threads are joined when it is idle, or has taken a client.
Reap(c) ==
    /\ status # "down"
    /\ connections[c].socket = "finished"
    /\ connections' = [connections EXCEPT ![c] = Free]
    /\ UNCHANGED <<runtime, process, registry, disk>>

-----------------------------------------------------------------------------
(* The durable image.                                                      *)

\* persist(): export_state(), under the runtime's lock ...
Export(c) ==
    /\ At(c, "export")
    /\ Set(c, [pc |-> "gather",
               image |-> [epoch |-> epoch, authority |-> authority, digest |-> digest,
                          fenced |-> {}]])
    /\ UNCHANGED <<runtime, process, registry, disk>>

\* ... every worker known, under the worker lock ...
Gather(c) ==
    /\ At(c, "gather")
    /\ Set(c, [pc |-> "write",
               image |-> [connections[c].image EXCEPT
                             !.fenced = fenced \cup {w \in Worker : Registered(w)}]])
    /\ UNCHANGED <<runtime, process, registry, disk>>

\* What the image says is known by the one on disk.
Older(image) ==
    /\ store # NoImage
    /\ \/ \E p \in Path : image.authority[p].generation < store.authority[p].generation
       \/ ~(store.fenced \subseteq image.fenced)

\* The caller is told: a decision and its generation, a revocation, an epoch.
Told(answer) ==
    IF answer = NoAnswer THEN answered
    ELSE [epoch |-> epoch,
          decision |-> [answered.decision EXCEPT ![answer.path] =
              IF answer.generation > @[1] THEN <<answer.generation, answer.state>> ELSE @],
          revoked |-> IF answer.kind = "revoke" THEN answered.revoked \cup {answer.path}
                      ELSE answered.revoked]

\* ... and write_store(), under no lock, which replaces the file at once.  Its error
\* is dropped (persist_now()), and the request is answered.
Write(c) ==
    /\ At(c, "write")
    /\ \/ store' = connections[c].image /\ lapsed' = (lapsed \/ Older(connections[c].image))
       \/ UNCHANGED store /\ lapsed' = TRUE
    /\ answered' = Told(connections[c].answer)
    /\ Answer(c)
    /\ UNCHANGED <<runtime, process, registry>>

-----------------------------------------------------------------------------
(* The process.                                                            *)

\* stop(): no more clients, and every connection is closed.
Stop ==
    /\ status = "running"
    /\ status' = "stopping"
    /\ connections' = [c \in Connection |->
           [connections[c] EXCEPT !.socket = IF @ = "open" THEN "closed" ELSE @]]
    /\ UNCHANGED <<runtime, epoch, registry, disk>>

\* Everything but the disk is gone; also what the last stop() leaves.
Crash ==
    /\ status # "down"
    /\ status' = "down"
    /\ epoch' = 0
    /\ authority' = [p \in Path |-> Runtime!Undecided]
    /\ asked' = [c \in Connection |-> Runtime!NoQuestion]
    /\ digest' = [p \in Path |-> NoDigest]
    /\ workers' = [w \in Worker |-> NoConnection]
    /\ publishers' = [w \in Worker |-> AnyPublisher]
    /\ fenced' = {}
    /\ connections' = [c \in Connection |-> Free]
    /\ UNCHANGED disk

\* import_state(): what had, or could have, authority must be decided again.
RecoveredState == AuthorizingState \cup {"REVALIDATION_REQUIRED", "STALE", "UNKNOWN"}

HadAuthority(record) == record.generation # 0 /\ record.state \in RecoveredState

\* Mutant: recovery keeps the generation.
RecoveredInPlace(record) ==
    IF HadAuthority(record) THEN [record EXCEPT !.state = "REVALIDATION_REQUIRED"] ELSE record

\* Mutant: what is on disk is current.
RecoveredAsStored(record) == record

\* The authority digest stays as it was.
Recovered(record) ==
    IF HadAuthority(record) THEN Runtime!Advanced(record, "REVALIDATION_REQUIRED") ELSE record

\* Mutant: an image with a record at the last generation is recovered too.
RecoverableExhausted(image) ==
    Cardinality(image.fenced) <= MaxFenced /\ image.epoch < MaxEpoch

\* read_store() and import_state() throw, and the coordinator does not start, when
\* the image holds too many fenced workers or a generation that cannot be advanced.
Recoverable(image) ==
    /\ Cardinality(image.fenced) <= MaxFenced
    /\ \A p \in Path :
          HadAuthority(image.authority[p]) => image.authority[p].generation < MaxGeneration
    /\ image.epoch < MaxEpoch

\* Mutant: the recovered epoch is taken up again.
SameEpoch(recovered, override) ==
    IF override # 0 THEN override ELSE IF recovered = 0 THEN 1 ELSE recovered

\* The epoch after the recovered one, or a later one the operator asks for.
NextEpoch(recovered, override) ==
    IF override = 0 THEN recovered + 1 ELSE override

Start ==
    /\ status = "down"
    /\ status' = "running"
    /\ LET recovered == IF store = NoImage THEN 0 ELSE store.epoch IN
       \E override \in Override :
          /\ override = 0 \/ override > recovered
          /\ epoch' = NextEpoch(recovered, override)
    /\ IF store = NoImage
       THEN UNCHANGED <<authority, digest, fenced>>
       ELSE /\ Recoverable(store)
            /\ authority' = [p \in Path |-> Recovered(store.authority[p])]
            /\ digest' = store.digest
            /\ fenced' = store.fenced
    /\ UNCHANGED <<asked, workers, publishers, connections, disk>>

-----------------------------------------------------------------------------
Init ==
    /\ Runtime!Init
    /\ digest = [p \in Path |-> NoDigest]
    /\ status = "down" /\ epoch = 0
    /\ workers = [w \in Worker |-> NoConnection]
    /\ publishers = [w \in Worker |-> AnyPublisher]
    /\ fenced = {}
    /\ connections = [c \in Connection |-> Free]
    /\ store = NoImage
    /\ answered = [epoch |-> 0, decision |-> [p \in Path |-> <<0, "UNKNOWN">>],
                revoked |-> {}]
    /\ lapsed = FALSE

\* A handler goes on to its next lock.
Handle(c) ==
    \/ Refuse(c)
    \/ AcceptPublication(c) \/ AcceptRevocation(c)
    \/ Commit(c) \/ ReplayCommit(c) \/ RejectCommit(c)
    \/ Revoke(c) \/ RejectRevoke(c)
    \/ Fence(c) \/ Leave(c)
    \/ \E id \in Identity : Withdraw(c, id)
    \/ Export(c) \/ Gather(c) \/ Write(c)

Client(c) ==
    \/ \E publisher \in Publisher, w \in Worker : Register(c, publisher, w)
    \/ \E id \in Identity, p \in Path, bound \in KnownEpochs :
       \/ \E outcome \in Publishes :
             Receive(c, AsReplay(RequestOf("publish", id, p, outcome, Runtime!NoExpectation,
                                           bound)))
       \/ \E expected \in Expectations(p) :
          \/ Receive(c, RequestOf("revoke", id, p, "REVOKED", expected, bound))
          \/ \E outcome \in Publishes :
                Receive(c, RequestOf("publish", id, p, outcome, expected, bound))
    \/ Disconnect(c)

Next ==
    \/ \E c \in Connection : Handle(c) \/ Client(c) \/ Accept(c) \/ Reap(c)
    \/ Stop \/ Crash \/ Start

Spec == Init /\ [][Next]_vars

\* Threads run; clients that vanish do not, and the accept loop is idle, or takes a
\* client, again and again.
FairSpec ==
    /\ Spec
    /\ \A c \in Connection : WF_vars(Handle(c)) /\ SF_vars(Reap(c))

-----------------------------------------------------------------------------
(* Safety.                                                                 *)

Image == [epoch : 1..MaxEpoch, authority : [Path -> Runtime!Authority],
          digest : [Path -> {NoDigest} \cup (AuthorityState \X (1..MaxEpoch))],
          fenced : SUBSET Worker]

RequestType == [kind : {"publish", "revoke"}, publisher : Publisher, worker : Worker,
                path : Path, outcome : EvaluationOutcome, state : AuthorityState,
                expected : {Runtime!NoExpectation} \cup (0..MaxGeneration),
                epoch : 0..MaxEpoch]

AnswerType == [kind : {"publish", "revoke"}, path : Path, generation : 0..MaxGeneration,
               state : AuthorityState]

ConnectionType ==
    [socket : {"free", "open", "closed", "finished"},
     pc : {"receive", "registered", "commit", "withdraw", "export", "gather", "write"},
     request : {NoRequest} \cup RequestType, workers : SUBSET Worker,
     lost : SUBSET Identity,
     image : {NoImage} \cup Image, answer : {NoAnswer} \cup AnswerType]

\* The type invariant.
TypeOK ==
    /\ Runtime!TypeOK
    /\ digest \in [Path -> {NoDigest} \cup (AuthorityState \X (1..MaxEpoch))]
    /\ status \in {"down", "running", "stopping"}
    /\ epoch \in 0..MaxEpoch
    /\ workers \in [Worker -> Connection \cup {NoConnection}]
    /\ publishers \in [Worker -> Publisher]
    /\ fenced \in SUBSET Worker
    /\ connections \in [Connection -> ConnectionType]
    /\ store \in {NoImage} \cup Image
    /\ answered \in [epoch : 0..MaxEpoch,
                     decision : [Path -> (0..MaxGeneration) \X AuthorityState],
                     revoked : SUBSET Path]
    /\ lapsed \in BOOLEAN

\* Live authority is held by a worker that is registered and not fenced, or that some
\* thread has found lost, under the publisher it decided for, and is about to withdraw the
\* authority of: "every path it published becomes REVALIDATION_REQUIRED" when a publisher
\* disappears.  A path whose generations are used up cannot be marked.
LiveIsHeld ==
    \A p \in Path :
        Live(p) /\ ~Runtime!Exhausted(p) =>
            LET id == authority[p].worker
                w == id[2]
            IN
            \/ Registered(w) /\ w \notin fenced
            \/ \E c \in Connection : At(c, "withdraw") /\ id \in connections[c].lost

\* Live authority was decided in this process, under its epoch: none is restored from
\* the image, and none is bound to an epoch of before.
LiveIsOfThisEpoch ==
    \A p \in Path : Live(p) => digest[p][2] = epoch /\ authority[p].state = digest[p][1]

\* What callers were told survives every restart, unless a write failed or was
\* overtaken: a revocation stands, and a generation means what it meant.
AnsweredSurvives ==
    status # "down" /\ ~lapsed =>
        \A p \in Path :
            /\ authority[p].generation >= answered.decision[p][1]
            /\ authority[p].generation = answered.decision[p][1] =>
                  authority[p].state = answered.decision[p][2]
            /\ p \in answered.revoked => Revoked(p)

\* A publication that is accepted as authorizing leaves its path authorized, also
\* when it is taken for a replay of what is recorded.
AcceptedIsAuthority ==
    [][\A c \in Connection :
          /\ At(c, "commit") /\ connections'[c].pc = "export"
          /\ Request(c).state \in AuthorizingState
          => authority'[Request(c).path].state = Request(c).state]_vars

\* "never the one its predecessor used": a process that starts takes an epoch that no
\* answer of an earlier one carries, unless a write failed.
AnsweredEpochIsPast ==
    [][status = "down" /\ status' = "running" /\ ~lapsed => epoch' > answered.epoch]_vars

-----------------------------------------------------------------------------
(* What the README says, and what a full fence, a write that is overtaken  *)
(* and a crash before the first write refute.                              *)

\* "the fence survives a coordinator restart": the image can be read again.
StoreIsReadable == store # NoImage => Cardinality(store.fenced) <= MaxFenced

\* "revocations ... survive": a revocation a caller was told of is never forgotten.
RevocationSurvives == status # "down" => \A p \in answered.revoked : Revoked(p)

-----------------------------------------------------------------------------
(* Liveness.                                                               *)

\* A lost connection gives its slot back, with its workers fenced, their authority
\* withdrawn (LiveIsHeld) and that on disk, whatever the other connections do.
LostIsFreed ==
    \A c \in Connection :
        connections[c].socket = "closed" ~> connections[c] = Free
=============================================================================
