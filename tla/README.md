# Path Authority: specification, model checking and proofs

TLA+ for the library in `src/`: what its runtime does when it is called from many
threads, how one evaluation decides, and how coordinator, evaluators and the image
on disk keep that up over lost connections and restarts. TLC explores small
instances; TLAPS proves theorems for every instance. Paths below are relative to
the repository this directory stands beside, so `runtime.cpp` is
`src/src/runtime.cpp` there.

    tlc -config races.cfg MCPathRuntime.tla
    tlapm PathRuntimeProofs.tla

## 1. The system

A *path* is a sequence of hops over fabric elements. The runtime decides whether
a path has *authority*: whether traffic may be placed on it, given the current
evidence and rules. A decision is bound to the exact generations of everything
it read, and is withdrawn when one of them moves.

| Component | State it keeps | Operations | What makes it correct |
|---|---|---|---|
| Runtime (`runtime.cpp`) | records, four reverse indexes, constraint sets, attempt index, snapshots, watermarks, under one `shared_mutex` | `evaluate`, `revalidate`, `publish_decision`, `revoke`, `retire`, `invalidate_*`, `register_constraint_set`, `query`, `export_state`, `import_state` | authority never outlives its evidence; withdrawal is final; a generation stands for one decision |
| Evaluation pipeline (`compute_evaluation`) | none: a pure function of the views it reads | fixed stages, all run, the first hard violation is the outcome | precedence is deterministic; nothing unknown satisfies a hard requirement |
| Constraint sets (`constraints.cpp`) | none | `combine_rules`, requirement expressions | the combination is the more restrictive one |
| Evidence (`evidence.cpp`, `in_memory.cpp`) | one generation per subject in each authority | view calls; a notification per change | a generation identifies one content |
| Path definitions (`path.cpp`) | none | shape validation, content identity | a malformed path is never decided |
| Underlying paths, failure domains | indexes in the runtime | chain and peer resolution, domain stage | every dependency is bound and notified |
| Snapshots (`snapshot.cpp`) | bounded retained snapshots | `query`, `diff_snapshots` | never current when the evidence moved |
| Persistence (`persistence.cpp`) | the store image | `write_store`, `read_store` | what is written decodes; live authority is never restored |
| Coordinator (`distributed.cpp`) | workers, fenced boot ids, connections, epoch | register, publish, revoke, fence, start, stop | a fenced worker never publishes; a restart uses a new epoch |
| Evaluator client (`distributed.cpp`) | socket, registration | evaluate locally, then publish | what it publishes is what it decided |
| Codecs, ids, digests, limits | none | encoding, checked parsing | round trips, bounds |
| Local and synthetic evidence, CLI, examples, benchmarks | none of the above | I/O around the library | — |

**Interaction.** A caller's thread runs `evaluate()` from end to end: it calls the
evidence views outside the state lock, takes the lock in shared mode a few times
for lookups and once, exclusively, for `commit()`. Notifications of evidence
changes come in on other threads through `invalidate_*`. The coordinator runs one
thread per connection; each calls `publish_decision()`, `revoke()` and, when the
connection ends, `invalidate_publisher()` on the one runtime, and writes the
durable image after each change. An evaluator decides on a runtime of its own and
then holds its mutex for one request and one answer.

**What is hard.** Between the cuts of an evaluation anything can happen: the
views move between two reads, a notification arrives before, after or twice, the
path is revoked, its constraint set is replaced, another commit takes its place.
Three mechanisms stand against that, and the project is about whether they are
enough: the *watermark* of every subject, compared in `commit()`; the *reverse
index* through which a notification finds the records to mark; and the
*compare-and-set* on the authority generation. Around the runtime it is the end of
a connection against the requests still under way, the write of an image against
the next change, a crash against both, and an answer that does not come. Three
things stand against that: the *fence*, the *Fabric Epoch* and the order of
*write and answer*. `PROJECT.json` lists each hazard with its line.

## 2. Modules

| Module | Models |
|---|---|
| `AuthorityTypes` | authority states, outcomes and the maps between them |
| `AuthorityContract` | what the runtime promises its callers: the abstract specification |
| `PathRuntime` | the runtime under concurrent calls and, as `SerialSpec`, under one at a time; its properties, and the mapping to the contract |
| `EffectiveRules`, `Requirement`, `PathShape` | `combine_rules()`; requirement trees, their validation and evaluation; `validate_path_shape()` |
| `PathEvaluation` | the stages of `compute_evaluation()`, and the properties of a decision |
| `Underlay` | paths over paths: the chain, its index, revocations and announcements along it |
| `FailureDomains` | failure domains as evidence, call by call; `query()` and its verdict |
| `Coordinator` | connections, workers, the fence, the image on disk, crash and restart |
| `Deployment` | evaluators and the coordinator they work with, over connections that fail |
| `MC...` | instances for TLC |
| `AuthorityContractProofs` | what follows from the contract alone |
| `PathRuntimeProofs` | lemmas on each kind of step of the runtime, type correctness, the safety theorems |
| `PathRuntimeContract` | that `PathRuntime` implements `AuthorityContract` |
| `PathEvaluationProofs` | what each stage decides, and that the evaluation keeps precedence, conditions and evidence |
| `UnderlayProofs`, `FailureDomainsProofs`, `CoordinatorProofs` | theorems of the modules of those names |
| `DeploymentProofs` | theorems of `Deployment`, the first of them that it implements `Coordinator` |

How they compose. `Coordinator` instantiates `AuthorityContract` as its runtime,
with each connection's thread as a caller, and `PathRuntime` is proved to implement
`AuthorityContract`: what the coordinator is checked over is what the runtime
keeps. `Deployment` extends `Coordinator`, puts evaluators in the place of its
`Client`, and is proved to implement it. `PathRuntime` has the time of an
evaluation, each view call at its own moment, with an outcome that is one of four;
`PathEvaluation` has its content: what the stages make of a definition, two sets of
rules and what the views say, with the outcomes of the code. `Underlay` and
`FailureDomains` have the two kinds of evidence that are themselves decisions or
lists, with the calls cut as in `PathRuntime`; they share no state with it.

### State and actions of `PathRuntime`

`records[p]` is the `Record` of a path (generation 0: none). `index` merges
`element_index` and `capability_index`; `watermarks`, `constraint_sets`,
`attempts` and `attempt_order` are the members of those names. `sources` is what
the evidence views return now. `op[t]` is what thread *t*'s call holds in local
variables. `superseding` holds the list `affected` of every
`register_constraint_set()` under way.

| Action | Code |
|---|---|
| `BeginEvaluate`, `BeginPublish` | the head of `evaluate()` (and `revalidate()`), of `publish_decision()`: the policy view |
| `ReadEpoch` | the epoch view; a publication bound to another epoch is refused |
| `CheckConstraints` | the shared lock on `constraint_sets` |
| `CheckAttempt` | the shared lock on `attempts` |
| `CheckExisting` | `existing_info()`, unlocked |
| `ReadEvidence` | one view call of `compute_evaluation()` |
| `RejectCommit`, `ReplayCommit`, `ExhaustedCommit`, `AcceptCommit` | the exits of `commit()`, one critical section |
| `Revoke`, `Retire`, `InvalidateScalar`, `InvalidateDependents`, `InvalidateConstraints`, `InvalidatePublisher` | the operations of those names, one critical section each |
| `RegisterConstraintSet`, `MarkSuperseded` | the registration, then one critical section per dependent |
| `SourceChange` | an evidence authority publishes its next generation |

### State and actions of `PathEvaluation`

`input` is everything `compute_evaluation()` is given or reads, and does not change;
`primary`, `hard_failure`, `violations` and `evidence` are the members of
`Computation`; `pc` is the next stage.

| Action | Code |
|---|---|
| `Decode` | the shape check of `evaluate()` and its early return |
| `Stage` | one stage: what it remembers (`Reads`) and what it raises (`Raised`), in the order of its loops, through the `StageCollector` |
| `Resolve` | the resolution of conditional authorization |
| `CheckLimits` | the overflow of the evidence vector |

### State and actions of `AuthorityContract`

`authority[p]` is a path's generation, state, withdrawals and worker; `asked[t]` is
the decision caller *t* is about to make. `Ask` is the moment a call learns that its
path is not withdrawn (`existing_info()`), `Decide` is its commit, `Decline` any
other end of it, `Invalidate`, `Revoke` and `Retire` what they say. What a call
knows between `Ask` and `Decide` is only the generation it expects, if any. So the
contract has the revocation race of section 5 in it, and says exactly how far it
goes (`OnlyBlindCallsRevive`).

### State and actions of `Underlay`

`records`, `underlying_index`, `watermarks` are the runtime's; `sources[p]` the
current generation of all the evidence a path has of its own; `op[t]` the call.
`Begin` is the head of `evaluate()`, `ResolveUnderlying` the critical section of
`resolve_underlying()`, `ReadOwn` the view calls, `Commit` and `Decline` the exits of
`commit()`, `Revoke` and `InvalidateUnderlying` the operations of those names.

### State and actions of `FailureDomains`

One path. `seen`, in a call and in the record, is what no program variable holds:
the generations at which a hop's list, coverage and domain records were read.
`ReadElement`, `ReadMembers`, `ReadCoverage`, `ReadGeneration`, `ReadDomain` are the
view calls of `compute_evaluation()` and `ensure_membership()`; `Ask`, `ReadCurrent`
and `Answer` are `query()`: the copy under the lock, `current_evidence()` without
it, the verdict. `fresh` is a history variable for the property.

### State and actions of `Coordinator`

`workers` with `publishers` (the connection and the publisher of each `WorkerEntry`)
and `fenced` are the maps of those names; who a request is for and who a record is of
is an *identity*, a publisher and a worker boot; `connections[c]` is a slot of
`connections` with its socket, the thread's place (`pc`), the request it handles and
the image it writes; `status` and `epoch` are the process; `store` is the file.
`answered` and `lapsed` are history: what callers were told, and whether a write
failed or was overtaken.

| Action | Code |
|---|---|
| `Accept`, `Reap` | `accept_loop()`, `reap_finished_connections()` |
| `Register` | `handle_register()` |
| `Receive` | the fence check of `handle_publish()`, `handle_revoke()` |
| `Refuse`, `AcceptPublication`, `AcceptRevocation` | registration and epoch, `publish_decision()` up to its commit |
| `Commit`, `ReplayCommit`, `RejectCommit`, `Revoke`, `RejectRevoke` | the runtime's critical section |
| `Export`, `Gather`, `Write` | `persist()`: runtime lock, worker lock, `write_store()`, then the answer |
| `Disconnect`, `Fence`, `Withdraw`, `Leave` | the end of `serve_connection()` and `fence_connection_workers()` |
| `Stop`, `Crash`, `Start` | `stop()`, the end of the process, `start()` with `read_store()` and `import_state()` |

### State and actions of `Deployment`

`evaluators[w]` is the evaluator of worker *w* with its socket, its mutex and its
runtime, the last decision on each path; `calls[t]` is the call of thread *t*;
`requests` and `responses` are the frames on each connection. `Evaluate` is
`publish()` before the mutex, `Send` and `Answered` or `Fail` are `exchange()`;
`ServeNow`, `Serve` and `HandleStep` are the coordinator's actions with the frame
they take or send; `CoordinatorStop` is a graceful end of the coordinator; `Break`,
`Lose` and `CoordinatorCrash` are the faults.

### Abstractions

- A *subject* stands for an evidence entry (kind and subject string). `Content`
  says what each generation of it means for a path: nothing, a condition, a
  condition for an authorized path and a hard violation for a new one
  (DRAINING, MAINTENANCE), a hard violation, or, for the policy, that conditional
  authorization is off. The codes of hard violations are one outcome,
  `HARD_FAILURE`, and *which* subjects failed is kept, because the authority
  digest covers it.
- A *digest* is the tuple it is computed from: SHA-256 is taken as injective.
- A *definition* is what it binds. Paths are redefined by submitting another one.
- The worker behind a publication is honest about its own decision: the outcome
  follows from the evidence it sends, under its own views, which may be ahead of
  or behind the coordinator's. That is what the coordinator can verify.
- Every subject has an entry from the start, and a view never moves back.
  Generation 0, "no entry", is only what an unread subject holds.
- `existing_info()` reads a map without its lock. The read is atomic here; what a
  torn read returns is undefined in the code.
- Calls that change nothing (a malformed path, an asserted epoch that is not
  current, an expectation that is already behind) are left out.
- In `PathEvaluation` a capability requirement is the tree it is, over values with a
  type and a rank in the order of that type, and has its rank in the canonical order
  of entity, key and rendering. Failure domain constraints are ordered by kind; no
  instance has two of a kind, whose order among themselves is not modelled. A
  domain without a record is of class UNKNOWN, which is what the code makes of it.
- `PathEvaluation` takes the requirements of a set and of a policy as well-formed.
  Registration (`runtime.cpp:1523`) and recovery refuse a set that is not, the
  decoder (`canonical.cpp:486`) either; a policy that a `PolicyStore` of the same
  process makes up is not validated by the runtime, and is outside of the model.
- Evidence generations are not repeated in `PathEvaluation`, and which entries find
  no room in a full evidence vector is not told apart, only that some did not. The
  hops of a peer path are a set.
- In `Coordinator` evidence other than the epoch is left out: a decision is its
  state and epoch, so that a decision that is published again under the same epoch
  is an exact replay; in the code another worker's with the same state can still
  replace it by its other evidence, which the model has after a withdrawal only. The
  publisher of a request is the envelope's and that of an entry the registration's, as
  in the code, and `Speaks` gives the names each connection uses: `coordinator` has
  one name per boot, what two do is in section 5. A revocation has one explanation per
  connection, a client one request under way, which it may send in any state, with
  any epoch it may have heard of (`KnownEpochs`: up to the process's own, or one that
  an operator asked for), and as a replay. That evaluators send no other is proved.
- In `Deployment` an evaluator's runtime keeps the last decision on each path, and
  evidence is the choice of the next outcome. Queries, heartbeats and worker lists
  are one request. A frame that arrives in parts is a frame that may be lost.
  `pin_epoch` is off, which is its default (`distributed.hpp:84`; only the CLI sets
  it): an evaluator takes over the epoch it is told. With it on, the epoch that
  `BeliefIsTrue` speaks of is `coordinator_epoch()`, not the one it publishes under.
- `PathShape` leaves out three refusals that need what it has no data for: a nesting
  depth of zero or over the limit, a path under itself, and an identity that does not
  match the content (`path.cpp:273`, `277`, `286`). Each only refuses more.
- In `PathRuntime` a publication under another epoch is refused before its constraint
  set is looked up; the code compares it after (`runtime.cpp:2454`). Neither refusal
  changes anything.
- In `FailureDomains` and `Underlay` all evidence of other kinds stands still, but
  for one subject per path in `Underlay`.
- History, counters and retained snapshots are left out: nothing decides by them.

## 3. Properties

**Of the runtime**, in every interleaving:

- `AuthorityAboveWatermarks` — live authority is never bound to a generation older
  than one its subject was invalidated to. The order of evaluation, commit and
  notification does not matter. Two cases the code does not cover are excluded and
  named: a record whose generation space is used up (marking it is a silent
  no-op), and capabilities of a path whose constraint set was replaced.
- `IndexCovers`, `UnrelatedUntouched` — the reverse index has every dependent of a
  subject and none that is not.
- `AuthorityJustified` — outcome and evidence of live authority are of one evaluation.
- `WithdrawalDefeatsExpectation` — a compare-and-set begun before a revocation or
  a retirement cannot commit after it.
- `DigestBindsRecord`, `GenerationStandsForDecision` — what exact replay and
  compare-and-set rely on.
- `ScalarsReached` — no decision is bound to an epoch or policy not reached here.
- `ImplementsContract` — every behaviour is one of `AuthorityContract`.
- `AttemptIndexBounded` — the attempt index and its eviction order agree.

Of calls made one at a time (`SerialSpec`), because concurrency breaks them
(section 5): `RevokedNeverAuthorizing`, `SupersededIsWithdrawn`,
`AttemptKeepsInput`, `DrainingRefusesNewAuthority`. Of fair behaviours:
`RevalidationSettles`.

**Of one evaluation**, stated over the definition, the views and the two sides' rules,
not over the stages or the combined rules:

- `AuthorityIsProven` — authority only where every stage's question has its proof:
  by the acceptance of *both* sides, by requirements that are met in the usual
  meaning of their operators, over neighbours that fit, with coverage wherever a
  domain is argued about, and for a peer that is itself authorized.
- `EarliestStageDecides` — a rejection has a code of the earliest stage that
  something speaks against the path in, whatever else fails.
- `AuthorityBindsReads` — authority binds all that it was decided from, the domains
  behind memberships and the peer's memberships included; an evidence vector that
  overflowed gives none.
- `ConditionsResolved` — a condition leads to conditional authority or, if the
  policy has none, to a rejection, as long as the explanation has room.

**Of paths over paths**

- `OverlayAboveWatermark` — what was announced of a path reaches everything that
  rests on it, whichever of reading the chain, commit and announcement came first.
- `OverlayJustified` — authority over a path that has no underlay was decided over
  the generation that is bound, and while that path is still in it, it authorizes.
  Deeper chains are excluded, because of section 5.

**Of failure domains and queries**

- `NotifiedAboveWatermark` — live authority is never bound to an element,
  membership or named domain older than announced.
- `AuthorityJustified` — what is bound of domains allows the path, for hops whose
  membership stood still while it was read.
- `CurrentWasTrue` — a snapshot that calls itself current bound, at the moment of its
  copy, exactly what the views had.

**Of the coordinator**, over lost connections, failed writes, crashes and restarts

- `LiveIsHeld` — live authority is held by a worker that is registered and not
  fenced, or that a thread is about to withdraw the authority of, under the publisher
  it was decided for. For boots that use one connection and one publisher: the code
  checks neither (section 5).
- `LiveIsOfThisEpoch` — live authority was decided in this process; none is restored.
- `AnsweredSurvives` — a revocation that was answered stands after every restart, and
  a generation that was answered means the same decision, while no write failed or
  was overtaken.
- `AcceptedIsAuthority` — a publication that is accepted leaves its path so
  authorized, also as a replay of what a restart took the authority of.
- `AnsweredEpochIsPast` — a process that starts takes an epoch that no answer of an
  earlier one carries.

**Of evaluators and coordinator together**

- `SystemIsCoordinator` — the coordinator with its evaluators and the faults does
  nothing that its own specification does not say.
- `BeliefIsTrue` — an evaluator that believes it is registered, on a connection that
  stands, is: there, not fenced, under its epoch.
- `FramesHaveAnOwner` — every frame has one thread that waits for it; no answer
  reaches another call.
- `CallsReturn` — a call returns, unless a frame of its evaluator is lost or one of
  its threads waits for a mutex it holds itself.
- `LostIsFreed` — a lost connection gives its slot back, with its workers fenced,
  their authority withdrawn and that written.

## 4. Runs

`MaxGeneration` is the last authority generation (2^64 - 1 in the code), so that
its exhaustion happens, as `MaxEpoch` is the last epoch; `MaxPaths`,
`MaxAttempts`, `MaxWorkers`, `MaxFenced` and `MaxNesting` are the limits of those
names. `MaxStructural` bounds how often an element moves, `MaxConnects` how often an
evaluator connects. Every content sequence has one or two generations: one that was
read and one that replaces it, which is what a race needs. The runtime treats
subjects of a kind alike and treats paths apart, but for `max_paths`, so one of each
kind and two paths are enough for the orders of steps; more of them add only
independent ones. Deadlock checking is off: when the bounds are used up the model
stops, and an evaluation ends.

| Run | Instance | Shows |
|---|---|---|
| `races` | one path, one evaluation and one publication at once, a port that starts to drain, 3 generations | the safety properties in every order of the calls, notifications and withdrawals |
| `publication` | as `races`, but the Fabric Epoch moves and no port drains | epoch binding alone protects against workers whose views are ahead; and every behaviour of the runtime is one of `AuthorityContract` |
| `rerouting` | two paths, room for one record, three definitions over different elements and constraint generations, a policy that starts to ask for a capability | the index follows redefinition, replacement and exhaustion; commits index the capabilities they were decided with |
| `serial` | one caller, two definitions, two attempt ids, an index of one | the README's promises for sequential use |
| `recovery` | one path, fair | invalidated authority is decided again |
| `evaluation` | the families below | the properties of a decision |
| `underlay` | two paths that may be defined over each other, two threads, 3 generations | announcements and revocations of the underlay against evaluations of either |
| `domains` | a port and a link on one feed, a port that gets into a forbidden room, one evaluation, one query, 2 generations | view calls, notifications and queries in every order |
| `coordinator` | two workers with a connection and a publisher each, room for one in the fence, one path, 3 generations, 2 epochs | fencing, persistence and restart |
| `deployment` | two threads of one evaluator, one connection, two connects, 2 epochs, a stop, fair | exchanges, faults, liveness, and that it is a `Coordinator` |
| `revocation_race` | as `races`, an evaluation and a revocation | expected violation, section 5 |
| `nested_revocation` | three paths, one over the other, one thread | expected violation, section 5 |

The evaluations of `MCPathEvaluation` start from a path of four hops that nothing
speaks against. A family varies all that one stage looks at, and something of
another stage, because precedence is between stages: `structural` every structural
record of two hops, adjacency of every pair of kinds and an underlying path that is
missing, moved or rejected; `ports` and `links` every state under every pair of
acceptances; `capabilities` every pair of verdicts, with explanations of 1, 2 and 9
entries and evidence vectors of 3, 11 and 30, below, at and above what is needed;
`requirements` trees of requirements of depth two over values of four types;
`domains` every kind of constraint, with memberships, coverage and peers;
`policies` layers, repeated hops and hop bounds of both sides; `shapes` every
sequence of up to four elements. A stage treats its hops one after the other and
alike, so two hops of a kind are enough for what the properties say.

The two connections of `coordinator` are what it takes for a fence, a write or an
image of one to come between the steps of the other; with `MaxFenced = 1` the second
loss meets a full fence; two epochs are one restart, and what a second would add is
what the first leaves on disk, which the first run of the process may leave too. Each
boot speaks on one connection and for one publisher, as the evaluators of `Deployment`
do by their configuration: what a client does that uses two is in section 5.
In `deployment` a worker has one connection and uses the next only after it: the
other case is in section 5.

**Fairness.** `FairSpec` of `PathRuntime`: weak fairness of each call's next step: the
code has no wait inside a call but mutexes, and threads run. Weak fairness of a
registration's remaining marks, for the same reason. Weak fairness of each source
reaching the generation it will announce: a notification may come first, and a record
marked by it can be decided only when the view has caught up. Strong fairness of
`Retry`: the library does not re-evaluate on its own, so recovery is a promise to a
client that keeps asking, and it asks between its calls.

`FairSystemSpec` of `Deployment`: weak fairness of each connection's thread, which
waits for nothing but locks and its frame; strong fairness of a call's next step,
because two threads compete for the evaluator's mutex and each gets it if it is free
again and again; strong fairness of `Reap`, which is *not* owed to a loop that finds
every slot taken and a client waiting each time it looks (`distributed.cpp:467`
closes the client and does not reap): `LostIsFreed` is for clients that pause for
half a second now and then. Nothing makes a caller begin, a fault happen, or a
coordinator that is down start.

## 5. Where the code and its documentation part

Two are runs that TLC finds violated.

- **A revoked path can return to authority** (`revocation_race`). The check and
  the commit are different critical sections, and `commit()` does not look at
  `record.revocation`. The README says "A revoked path returns `REVOKED` forever".
  With an expected generation the commit is refused, which is proved, and so is that
  nothing else than a call under way without one does it (`OnlyBlindCallsEverRevive`).
- **A path stands on a revoked one** (`nested_revocation`). The chain keeps the
  generation and outcome of its deepest record, and they are compared with what the
  definition binds of the path it names: with base, middle and top, a top bound to
  generation 1 of the middle stands on generation 1 of the base, whatever the middle
  is. A path is "bound to" the "exact authority result of an underlying path", says
  `path.hpp`.

The others have their formula in the module and no run. To see one, put the formula
in a copy of the cfg that is named, with the constants that are named.

| Behaviour | Formula, cfg |
|---|---|
| Authority can be committed under a replaced constraint set: registration raises no watermark, and `invalidate_constraints()` raises one under the set's id, while decisions bind the constraint generation under `self`. README: an evaluation in flight "cannot commit current authority" | `SupersededIsWithdrawn`, `races` with `Requires <- ReplacedOnce` |
| An attempt id can be used for two inputs: the comment above `commit()` says it rejects a conflicting attempt; the comparison is made earlier and only there | `AttemptKeepsInput`, `serial` with `SPECIFICATION Spec` and two evaluators |
| Rules that leave no layer allow every layer: an empty list stands for every layer, and `combine_rules()` can empty it (`constraints.cpp:522`). README: "the most restrictive combination" | `ForbiddenLayerRefused`, `evaluation` with `Families = {"policies"}` |
| A condition without room in the explanation is lost, and the path AUTHORIZED (`runtime.cpp:141`). README: "Diagnostic richness never changes the authoritative result" | `RichnessChangesNothing`, `evaluation` with `Families = {"capabilities"}` |
| NOT of a comparison is satisfied by a value of another type. README: comparisons of different types fail | `MixedTypesFail`, `evaluation` with `Families = {"requirements"}` |
| A decision binds a membership generation whose list it did not read, when the membership moves between the three calls (`runtime.cpp:592`) | `SeenIsBound`, `domains` |
| A snapshot of a path with failure-domain rules is never current: `current_evidence()` takes "member:port:p1" for an element of the kind "member" (`runtime.cpp:1139`). The same holds for an underlay, which it does not look up at all. README: "a live currentness verdict with the exact evidence deltas" | `UnchangedIsCurrent`, `domains` |
| A record that names a path without a record is committed and written, and the image is refused by the decoder (`persistence.cpp:344`): the coordinator does not start again. README: "Durable path descriptions ... survive" | `ImageIsReadable`, `nested_revocation` |
| A full fence makes an image with more workers than the decoder takes (`persistence.cpp:331`). README: "the fence survives a coordinator restart" | `StoreIsReadable`, `coordinator` |
| An older image overtakes a newer one, or a write fails, and the revocation that was answered is gone after a crash (`distributed.cpp:301`, `329`). README: "revocations ... survive" | `RevocationSurvives`, `coordinator` |
| A worker that registers on a second connection while the first is served is fenced by the end of the first; and what it publishes on the second after that end is authority of a worker that is gone (`distributed.cpp:512`, `615`, `653`) | `LiveIsHeld`, `coordinator` with `Speaks <- Reconnecting` |
| A boot that is registered for one publisher and publishes for another keeps that authority when its connection is lost: the publication is committed for the publisher of its envelope (`distributed.cpp:663`), which is not compared with the registered one (`610`, overwritten at `615`), while the fence withdraws by the registered publisher and the boot (`516`, `524`; `runtime.cpp:2199`). README: "When a publisher disappears ... every path it published becomes `REVALIDATION_REQUIRED`" | `LiveIsHeld`, `coordinator` with `Speaks <- TwoNames` |
| A decision that was evaluated before is published as IDEMPOTENT with the record's state, and refused as malformed (`distributed.cpp:1068`, `runtime.cpp:2424`). README: "Replaying the same attempt with the same semantic input returns `IDEMPOTENT`" | `ReplayIsAccepted`, `deployment` |

More that were met: `set_error()` locks a mutex its callers hold
(`distributed.cpp:918`), which is the "stuck" of `Deployment`; a domain that is bound
through a membership and not named by the constraint set is never notified
(`runtime.cpp:1081`); once the middle of a chain of three is announced in a higher
generation than the base has, what rests on it is refused as stale for good
(`runtime.cpp:1019`); two evaluations that together close a cycle both pass the cycle
check; a condition that the policy hardens sets `primary` and leaves
`primary_violation` at its default MALFORMED_PATH; a domain without a record is of
class UNKNOWN and so passes an exclusion of its real class; the diversity check reads
the peer's record, and the decision binds neither the peer's authority nor the
generation its constraint names.

## 6. Proofs

All from the assumptions the modules name (the constants are sets, functions and
bounds of the right kind, the kinds of subjects are disjoint), for any sets of
threads, paths, definitions, subjects, workers and connections and any bounds.
`PathEvaluation` has the largest part of its instance in a variable, `input`, which
its `Init` types (`InputOK`): finitely many elements, records and domains, a view
that answers for each, hops and rules of any number, trees of any depth, limits of at
least one. `ValueAssumption` is that a value is a type with a rank.
Two theorems alone assume more. `BeliefIsAlwaysTrue` assumes `Apart`: no worker boot
speaks on two connections. `LiveIsAlwaysHeld` assumes that and `OneName`: no worker
boot speaks for two publishers. The code checks neither of a client, and without them
the properties are false (section 5): the theorems say that nothing else is needed.

| Theorem | States |
|---|---|
| `TypeCorrect` | `Spec => []TypeOK` |
| `DigestAlwaysBinds` | `Spec => []DigestBindsRecord` |
| `GenerationIsDecision` | `Spec => GenerationStandsForDecision` |
| `AuthorityAlwaysJustified` | `Spec => []AuthorityJustified` |
| `WithdrawalAlwaysDefeatsExpectation` | `Spec => []WithdrawalDefeatsExpectation` |
| `IndexAlwaysCovers` | `Spec => []IndexCovers` |
| `AuthorityAlwaysAboveWatermarks` | `Spec => []AuthorityAboveWatermarks` |
| `ScalarsAlwaysReached` | `Spec => []ScalarsReached` |
| `AttemptIndexAlwaysBounded` | `Spec => []AttemptIndexBounded` |
| `UnrelatedAlwaysUntouched` | `Spec => UnrelatedUntouched` |
| `RevokedNeverReturns` | `SerialSpec => []RevokedNeverAuthorizing` |
| `SupersededIsAlwaysWithdrawn` | `SerialSpec => []SupersededIsWithdrawn` |
| `AttemptAlwaysKeepsInput` | `SerialSpec => AttemptKeepsInput` |
| `DrainingAlwaysRefusesNewAuthority` | `SerialSpec => DrainingRefusesNewAuthority` |
| `RuntimeImplementsContract` | `Spec => ImplementsContract` |
| `ContractTypeCorrect`, `ExpectationAlwaysWithheld`, `OnlyBlindCallsEverRevive` | of `AuthorityContract`, and so of whatever implements it |
| `EvaluationTypeCorrect` | `PathEvaluation!Spec => []TypeOK` |
| `AuthorityAlwaysProven` | `PathEvaluation!Spec => []AuthorityIsProven` |
| `EarliestStageAlwaysDecides` | `PathEvaluation!Spec => []EarliestStageDecides` |
| `ConditionsAlwaysResolved` | `PathEvaluation!Spec => []ConditionsResolved` |
| `AuthorityAlwaysBindsReads` | `PathEvaluation!Spec => []AuthorityBindsReads` |
| `UnderlayTypeCorrect` | `Underlay!Spec => []TypeOK` |
| `OverlayAlwaysAboveWatermark` | `Underlay!Spec => []OverlayAboveWatermark` |
| `OverlayAlwaysJustified` | `Underlay!Spec => []OverlayJustified` |
| `DomainsTypeCorrect` | `FailureDomains!Spec => []TypeOK` |
| `AlwaysAboveWatermark` | `FailureDomains!Spec => []NotifiedAboveWatermark` |
| `DomainAuthorityAlwaysJustified` | `FailureDomains!Spec => []AuthorityJustified` |
| `CurrentAlwaysWasTrue` | `FailureDomains!Spec => []CurrentWasTrue` |
| `CoordinatorTypeCorrect` | `Coordinator!Spec => []TypeOK` |
| `LiveIsAlwaysOfThisEpoch` | `Coordinator!Spec => []LiveIsOfThisEpoch` |
| `AcceptedIsAlwaysAuthority` | `Coordinator!Spec => AcceptedIsAuthority` |
| `AnsweredAlwaysSurvives` | `Coordinator!Spec => []AnsweredSurvives` |
| `AnsweredEpochIsAlwaysPast` | `Coordinator!Spec => AnsweredEpochIsPast` |
| `LiveIsAlwaysHeld` | `Apart` and `OneName` imply `Coordinator!Spec => []LiveIsHeld` |
| `SystemIsACoordinator` | `SystemSpec => SystemIsCoordinator`, which is `Coordinator!Spec` |
| `SystemTypeCorrect` | `SystemSpec => []SystemTypeOK` |
| `FramesAlwaysHaveAnOwner` | `SystemSpec => []FramesHaveAnOwner` |
| `BeliefIsAlwaysTrue` | `Apart` implies `SystemSpec => []BeliefIsTrue` |

For the runtime, the argument is by what a step does to one record (`RecordStep`): it leaves it,
marks it, stores a decision in it, or withdraws it. Each theorem treats these four
instead of every action.

`AuthorityAboveWatermarks` is not inductive. A notification marks what it finds in
the index, so the index must be complete (`IndexCovers`); a commit indexes the
capabilities of the set registered *now*, so it must be known that they are those
of the decision unless the set was replaced for good, that is, that the registered
generation is never behind a bound one (`RegistryNotBehind`); and what is not
stored is not authority (`AuthorityIsStored`). Their conjunction,
`InvalidationInv`, is inductive. `WithdrawalDefeatsExpectation` needs in addition
that no call expects a generation still to come (`ExpectationNotAhead`) and that a
withdrawal moves the generation.

`ScalarsReached` is a statement about records; what makes it inductive is the same
about every call past its comparison of the epoch (`CallScalarsReached`).
`AttemptIndexBounded` says how the index and its order agree, and is inductive as it
stands. `UnrelatedUntouched` needs the other direction of `IndexCovers`:
`IndexFaithful` says that the index has no path under a subject its record does not
bind, but for capabilities of a replaced constraint set, and rests on
`InvalidationInv`, because the entries a commit makes are of the set registered now.

The serial properties need one invariant, `SerialInv`: one call at a time, and a
registration's marks before the next call (`OneAtATime`), so that what a call has
found stays true until its commit (`CallUpToDate`: its constraint set is the
registered one, its path not revoked and still as authorized as it saw it, its attempt
id free or its own) and a registration under way marks for the generation that is
registered (`SupersedingCurrent`). Each of these conjuncts is false of concurrent
callers, which is section 5.

`RuntimeImplementsContract` maps a record to its generation, state, withdrawals and
worker, and a call to a question from `CheckExisting` on. Each kind of step is a step
of the contract or leaves both alone: `CheckExisting` is `Ask`, an accepted commit is
`Decide`, every other way out of a deciding call is `Decline`, a notification is
`Invalidate` of the records it marks. It needs the types, that no call expects a
generation still to come, and that no call decides on a path without asking.

The contract's own theorems are short because it has two variables. `TypeOK` bounds
the generation; `ExpectationWithheld` is inductive, since every withdrawal moves the
generation past what was asked; and `OnlyBlindCallsRevive` follows from it, step by
step.

`PathEvaluation` is proved in two halves. The first says, of each stage by itself,
that it is hard exactly where something speaks against the path (`StructureDecides`,
`BindingDecides`, `PortsDecide`, `LinksDecide`, `CapabilitiesDecide`,
`FailureDomainDecides`, `PolicyDecides`, together `StageDecides`), with a code of its
own (`Codes`), and that it asks for a condition where `HasCondition` has one
(`StageConditions`). On the one side of each stands the code, its loops as
concatenations of what every hop or rule raises, on the other `Proven`, which is
written over the two sets of rules and has neither combination nor order. Between
them:

- rules are sorted by a bijection that `CHOOSE` names, so that it must be shown to
  exist, for entries of equal rank too; then sorting changes no set of rules;
- requirement trees and what is computed of them are recursive functions over
  `Requirements(depth)`, which must be shown to be well defined; then a
  recorded value satisfies a well-formed tree of any depth exactly if it is in the set
  of values that the tree means, and what is not recorded leaves it unknown
  (`RequirementDecides`).

The second half is the invariant. `AuthorityIsProven` and the others speak of the end
alone; what is kept from stage to stage is `IInv`, which TLC checked on the instance of
`evaluation` before it was proved. Between the stages a path either is rejected with a
code of the earliest stage that is not proven (`RejectedBefore`), or is AUTHORIZED with
every stage so far proven, and then has a condition in its explanation if a stage so
far asked for one, unless the explanation is full (`Open`). After `Resolve` it is known
which of the two became of the conditions (`Decided`). `Remembered` says that the
evidence has all that was read as long as nothing was refused: a full vector keeps what
it has and takes no more, and the overflow rejects at the end.

Induction is needed throughout: over the hops, over the depth of a tree, over the
number of rules. The library's induction takes an operator, which the prover cannot
instantiate, so the module proves induction for sets once (a set of naturals with 0
and successors has them all) and applies it to the set of the numbers a statement
holds for.

`Underlay` follows a chain of records of any length, so its proofs need that the
chain is a function (`ChainExists`, by the least length at which it would not be)
and where it ends (`ChainEnds`). `OverlayAboveWatermark` holds because a commit
compares with the watermark and an announcement finds every live dependent in the
index (`IndexCovers`). For `OverlayJustified`, a definition over a path without an
underlay stands over its bound generation (`StandsOver`) as long as that record is in
it; records only move to later generations, so every step keeps that, for the calls
past their chain (`CallsStand`) and the records they leave (`LiveStands`).

`FailureDomains`: `NotifiedAboveWatermark` holds because a commit compares with the
watermarks and an announcement marks a record that is bound to less in an indexed
subject. `AuthorityJustified` goes back to what the calls of an
evaluation read, by the history in `seen`. For `CurrentWasTrue` the invariant is about
the negation (`BehindIsSeen`): a copy that was behind when it was taken has a subject
in which what the query has read of it is newer, or what it will read, as views never
move back and nothing is bound that they have not reached (`EvidenceReached`).

`Coordinator` is proved by what a step does to one record, as the runtime is, and by
what it does to one connection: `ActorStep` says a handler changes its own alone.
Three invariants carry the theorems.

- `Base`: the digest of a record tells state and epoch it was decided in (`Sealed`),
  of the records, of every image under way and of the image on disk; a request past
  its checks is bound to this epoch. A recovered record keeps its digest but is not
  live, and its digest's epoch is past, so no publication of this epoch is a replay
  of it: hence `LiveIsOfThisEpoch` and `AcceptedIsAuthority`.
- `DurableInv`: any two images, on disk or under way, agree as far as their
  generations do, and precede the records (`CopiesAgree`); an answer is in the records
  from its change on, and in the image exported after it (`AnswersStand`); what was
  answered is in the image on disk unless a write lapsed (`AnsweredIsStored`). Not
  overtaking is a matter of generations alone, which `CopiesAgree` turns into one of
  states and revocations.
- `RegistryInv`, under `Apart`: a registered worker is one its connection will look for
  (`RegistrationStands`), and a request at its commit is of a worker registered on that
  very connection, whose thread cannot fence meanwhile (`ConnectionStands`). With a
  worker on two connections the other thread can, which is the hazard at
  `distributed.cpp:653`.
- `HeldInv` adds names: what is registered and what is asked for is of an identity that
  speaks (`NamesStand`), so that with `OneName` the entry a fence finds has the
  publisher of the record, and live authority has an entry *of its name* or is on the
  list that is being withdrawn (`LiveIsHeldByName`). With two names of a boot the entry
  has the other one, which is the hazard at `distributed.cpp:663`.

`Deployment` is proved in three layers, each on the one before.

- `SentInv`: what a call has decided or sent, and every frame, is a request that
  `Coordinator`'s `Client` may make. Its last part, `HeardInv`, is about epochs: none is
  carried that is ahead of the process, or of the next one when it is down, unless an
  operator asked for one as late. It holds because a process that starts without being
  asked takes the epoch after the image's, and the image is never ahead of the process
  that wrote it. With it each step of the system is a step of
  `Coordinator` or leaves its variables alone (`StepRefines`), which is
  `SystemIsACoordinator`: by it all that is proved of `Coordinator` holds of the whole
  system.
- `FrameInv`: of request, thread that serves it and answer there is one at the most on
  a connection, for the caller that holds the mutex of the evaluator at the other end
  (`Exclusive`); an evaluator's link is an open connection of its own (`LinkStands`);
  a thread that serves nothing rests (`RestStands`); a process that stops has no open
  connection (`ClosedByStop`). It implies `FramesHaveAnOwner` and
  the last part of `SystemTypeOK`.
- `BeliefInv`: an evaluator that believes it is registered is, where its link leads
  and in this epoch (`Believes`), and an answer to a registration that is still under
  way will be true when it comes (`AnswerComes`). That a registration lasts as long as
  its connection is where `Apart` and the coordinator's `RegistryInv` are needed; the
  publishers do not matter to it.

That `SystemIsACoordinator` could be proved took two corrections of
`Coordinator`: its `Client` did not send replays, nor an epoch ahead of its process,
and evaluators do both. They can be ahead of a process when an operator gave its
predecessor a later epoch and no image was written under it.

Every invariant and every action property of a passing run is a theorem. Only
model-checked is what is liveness under fairness, `RevalidationSettles`, `CallsReturn`
and `LostIsFreed`, which is out of the prover's reach. That the two expected violations
exist is TLC's to show, and so are the behaviours of section 5.

## 7. Not modelled

- The byte-level codecs (`canonical.cpp`, `json.cpp`, `wire.cpp` but for the frame),
  SHA-256, rendering: data, and tested by round trips.
- The readers of host interfaces and the synthetic fabrics, the CLI, examples and
  benchmarks: I/O and test data.
- Retained snapshots, `diff_snapshots()` and history: nothing decides by them.
- A corrupted image: `decode_durable_state()` refuses it by its checksum, before
  anything is recovered.
- Peers that change during the diversity check: the code has nothing that would
  notice, so there is nothing to be right or wrong about between steps.
