----------------------------- MODULE PathRuntime -----------------------------
(***************************************************************************)
(* PathAuthorityRuntime (runtime.cpp): the records of path authority, the  *)
(* compare-and-set commit, evidence invalidation with its watermarks and   *)
(* reverse dependency index, revocation, retirement and constraint-set     *)
(* registration, called from many threads at once.                         *)
(*                                                                         *)
(* evaluate() and publish_decision() are cut where the code leaves one     *)
(* critical section or view call and enters the next: everything between   *)
(* two cuts is one action, everything other threads, the evidence views    *)
(* and the notifications of their changes may do happens at the cuts.      *)
(*                                                                         *)
(* An evidence view is a generation per subject; a generation identifies   *)
(* the content it was given with (Content), which is what binding a        *)
(* decision to generations relies on.  Generation 0 is "no entry".         *)
(***************************************************************************)
EXTENDS AuthorityTypes, Integers, Sequences, FiniteSets

CONSTANTS
    Path,           \* the ids of paths
    Definition,     \* the path definitions callers submit: a path may be redefined
    PathOf,         \* PathOf[d]: the path d defines
    Evaluator,      \* threads calling evaluate() and revalidate()
    Publisher,      \* threads calling publish_decision()
    Worker,         \* a publisher id with a worker boot id
    Reason,         \* what a revocation says: reason, explanation, authority
    NoRevocation,
    Attempt,        \* mutation attempt ids
    NoAttempt,
    Element,        \* evidence subjects of a path's hops
    Capability,     \* evidence subjects of capability requirements
    Uses,           \* Uses[d]: the element subjects the hops of d bind
    ConstraintSet,
    SetOf,          \* SetOf[d]: the constraint set d binds
    BoundTo,        \* BoundTo[d]: and the generation of it
    Requires,       \* Requires[c][g]: the capabilities generation g of c asks for
    PolicyRequires, \* PolicyRequires[g]: and those policy generation g asks for
    Content,        \* Content[s][g]: what generation g of subject s says
    MaxGeneration,  \* the last authority generation (2^64 - 1 in the code)
    MaxPaths,       \* Limits::max_paths
    MaxAttempts     \* Limits::max_outstanding_attempts

Thread == Evaluator \cup Publisher
Scalar == {"EPOCH", "POLICY", "TOPOLOGY"}
Subject == Scalar \cup Element \cup Capability

\* What a subject's content means for the paths bound to it: no violation, a
\* CONDITION, a CONDITION for a path that is already authorized and a hard
\* violation otherwise (DRAINING, MAINTENANCE), a hard violation.  A "strict"
\* policy does not allow conditional authorization.
Status == {"good", "conditional", "existing", "bad", "strict"}

ASSUME ConstantsAssumption ==
    /\ PathOf \in [Definition -> Path]
    /\ Uses \in [Definition -> SUBSET Element]
    /\ SetOf \in [Definition -> ConstraintSet]
    /\ BoundTo \in [Definition -> Nat \ {0}]
    /\ Requires \in [ConstraintSet -> Seq(SUBSET Capability)]
    /\ Content \in [Subject -> Seq(Status)]
    /\ PolicyRequires \in Seq(SUBSET Capability)
    /\ Len(PolicyRequires) = Len(Content["POLICY"])
    /\ \A s \in Subject : Len(Content[s]) > 0
    /\ MaxGeneration \in Nat \ {0}
    /\ MaxPaths \in Nat \ {0}
    /\ MaxAttempts \in Nat \ {0}

ASSUME SubjectsAssumption ==
    /\ Scalar \cap (Element \cup Capability) = {}
    /\ Element \cap Capability = {}
    /\ Definition # {} /\ Worker # {}
    /\ NoRevocation \notin Reason
    /\ NoAttempt \notin Attempt

VARIABLES
    records,         \* the record of each path; generation 0: no record
    index,           \* element_index and capability_index
    watermarks,      \* the highest invalidated generation of each subject
    constraint_sets, \* the registered generation of each set; 0: unregistered
    superseding,     \* register_constraint_set()'s records still to be marked
    attempts,        \* the attempt index: the input each id was used for
    attempt_order,   \* and its eviction order
    sources,         \* the evidence views: each subject's current generation
    op               \* the call each thread is in

runtime == <<records, index, watermarks, constraint_sets, attempts, attempt_order>>
vars == <<runtime, superseding, sources, op>>

-----------------------------------------------------------------------------
(* Decisions: pure functions of the evidence.                              *)

Generations(s) == 1..Len(Content[s])

\* The views start at generation 1: changes are announced from 2 on.
Announced(s) == Generations(s) \ {1}

\* The capabilities combine_rules() asks for: the policy's and the set's.
RequiredCapabilities(c, generation, policy) ==
    (IF policy \in DOMAIN PolicyRequires THEN PolicyRequires[policy] ELSE {})
        \cup (IF generation \in DOMAIN Requires[c] THEN Requires[c][generation] ELSE {})

\* The subjects a decision about d under a policy generation binds.
Bound(d, policy) ==
    Scalar \cup Uses[d] \cup RequiredCapabilities(SetOf[d], BoundTo[d], policy)

StatusOf(evidence, s) == Content[s][evidence[s]]

\* The subjects whose content is a hard violation.
HardViolations(d, evidence, existing_authorized) ==
    {s \in Bound(d, evidence["POLICY"]) :
        \/ StatusOf(evidence, s) = "bad"
        \/ StatusOf(evidence, s) = "existing" /\ ~existing_authorized}

Conditions(d, evidence) ==
    {s \in Bound(d, evidence["POLICY"]) :
        StatusOf(evidence, s) \in {"conditional", "existing"}}

\* With no hard violation, a condition makes the decision conditional, or fails
\* it when the policy does not allow conditional authorization.
PrimaryOutcome(d, evidence, existing_authorized) ==
    IF \/ HardViolations(d, evidence, existing_authorized) # {}
       \/ Conditions(d, evidence) # {} /\ StatusOf(evidence, "POLICY") = "strict"
    THEN "HARD_FAILURE"
    ELSE IF Conditions(d, evidence) = {} THEN "AUTHORIZED"
    ELSE "CONDITIONALLY_AUTHORIZED"

NoEvidence == [s \in Subject |-> 0]

-----------------------------------------------------------------------------
(* Records.                                                                *)

\* authority_digest: of the definition, the verdict and the evidence.
AuthorityDigest(definition, state, outcome, violations, evidence) ==
    [definition |-> definition, state |-> state, outcome |-> outcome,
     violations |-> violations, evidence |-> evidence]

DigestOf(record) ==
    AuthorityDigest(record.definition, record.state, record.outcome, record.violations,
                    record.evidence)

Sealed(record) == [record EXCEPT !.digest = DigestOf(record)]

\* No record: what existing_info() reports for a path that is not found.
NoDefinition == CHOOSE d \in Definition : TRUE
NoWorker == CHOOSE w \in Worker : TRUE

Absent ==
    [generation |-> 0, definition |-> NoDefinition, state |-> "UNKNOWN",
     outcome |-> "HARD_FAILURE", evidence |-> NoEvidence, violations |-> {},
     digest |-> AuthorityDigest(NoDefinition, "UNKNOWN", "HARD_FAILURE", {}, NoEvidence),
     revocation |-> NoRevocation, retired |-> FALSE, worker |-> NoWorker]

Present(p) == records[p].generation # 0
Revoked(p) == records[p].revocation # NoRevocation
Authorizing(p) == records[p].state \in AuthorizingState

can_advance(generation) == generation # MaxGeneration

\* Mutant: the generation is not checked for exhaustion.
MarkPastExhaustion(record) ==
    IF record.state = "REVALIDATION_REQUIRED"
    THEN record
    ELSE Sealed([record EXCEPT !.generation = @ + 1,
                               !.state = "REVALIDATION_REQUIRED",
                               !.outcome = "REVALIDATION_REQUIRED"])

\* Mutant: the digest is not computed again.
MarkUnsealed(record) ==
    IF record.state = "REVALIDATION_REQUIRED" \/ ~can_advance(record.generation)
    THEN record
    ELSE [record EXCEPT !.generation = @ + 1,
                        !.state = "REVALIDATION_REQUIRED",
                        !.outcome = "REVALIDATION_REQUIRED"]

\* mark_revalidation_required(): leaves an exhausted record as it is.
MarkRevalidationRequired(record) ==
    IF record.state = "REVALIDATION_REQUIRED" \/ ~can_advance(record.generation)
    THEN record
    ELSE Sealed([record EXCEPT !.generation = @ + 1,
                               !.state = "REVALIDATION_REQUIRED",
                               !.outcome = "REVALIDATION_REQUIRED"])

MarkAll(paths) ==
    records' = [p \in Path |-> IF p \in paths THEN MarkRevalidationRequired(records[p])
                                              ELSE records[p]]

-----------------------------------------------------------------------------
(* The attempt index.                                                      *)

NoInput == <<>>

\* What the input digest of a call covers: the definition with its constraint
\* generation, the policy and the epoch.
InputDigest(d, evidence) == <<d, evidence["POLICY"], evidence["EPOCH"]>>

Input == Definition \X Nat \X Nat

\* Mutant: nothing is evicted.
RememberForever(a, input) ==
    IF a = NoAttempt THEN UNCHANGED <<attempts, attempt_order>>
    ELSE /\ attempts' = [attempts EXCEPT ![a] = input]
         /\ attempt_order' = IF attempts[a] # NoInput THEN attempt_order
                                                      ELSE Append(attempt_order, a)

\* remember_attempt(): the oldest id is forgotten when the index is full.
RememberAttempt(a, input) ==
    IF a = NoAttempt THEN UNCHANGED <<attempts, attempt_order>>
    ELSE IF attempts[a] # NoInput
    THEN /\ attempts' = [attempts EXCEPT ![a] = input]
         /\ UNCHANGED attempt_order
    ELSE IF Len(attempt_order) < MaxAttempts
    THEN /\ attempts' = [attempts EXCEPT ![a] = input]
         /\ attempt_order' = Append(attempt_order, a)
    ELSE /\ attempts' = [attempts EXCEPT ![a] = input, ![Head(attempt_order)] = NoInput]
         /\ attempt_order' = Append(Tail(attempt_order), a)

-----------------------------------------------------------------------------
(* Calls in flight.                                                        *)

NoExpectation == -1

Idle ==
    [pc |-> "idle", definition |-> NoDefinition, expected |-> NoExpectation,
     attempt |-> NoAttempt, worker |-> NoWorker,
     existing_authorized |-> FALSE, evidence |-> NoEvidence]

\* The path and the record a call is about.
PathIn(t) == PathOf[op[t].definition]
RecordIn(t) == records[PathIn(t)]

Return(t) == op' = [op EXCEPT ![t] = Idle]
Goto(t, pc) == op' = [op EXCEPT ![t].pc = pc]

\* publish_decision() looks at the record before the attempt index, evaluate()
\* after it, and only evaluate() reads the evidence views.
AfterConstraints(t) == IF t \in Evaluator THEN "attempt" ELSE "existing"
AfterAttempt(t) == IF t \in Evaluator THEN "existing" ELSE "commit"
AfterExisting(t) == IF t \in Evaluator THEN "evidence" ELSE "attempt"

Unread(t) == {s \in Bound(op[t].definition, op[t].evidence["POLICY"]) : op[t].evidence[s] = 0}

\* What a caller can expect of a path p: nothing, or its generation.  A call that expects
\* an older one never commits, for generations only grow; calls that change
\* nothing (that one, a malformed path, an asserted epoch that is not current, a
\* publication under another policy) are left out.
Expectations(p) == {NoExpectation, records[p].generation}

\* evaluate(), and revalidate() with the definition it found in the record; the
\* first view call is the policy's.
BeginEvaluate(t, d, a, w, expected) ==
    /\ op[t].pc = "idle"
    /\ op' = [op EXCEPT ![t] = [Idle EXCEPT !.pc = "epoch", !.definition = d, !.attempt = a,
                                            !.worker = w, !.expected = expected,
                                            !.evidence["POLICY"] = sources["POLICY"]]]
    /\ UNCHANGED <<runtime, superseding, sources>>

\* The evidence vectors a worker can have bound d to: its views may be ahead of
\* these or behind them.
WorkerEvidence(d, policy) ==
    LET bound == Bound(d, policy) IN
    {[s \in Subject |-> IF s \in bound THEN g[s] ELSE 0] :
        g \in {f \in [bound -> UNION {Generations(s) : s \in bound}] :
                  f["POLICY"] = policy /\ \A s \in bound : f[s] \in Generations(s)}}

\* publish_decision().  The worker decided against its own views and its own
\* record of the path; nothing here is compared with these views but epoch and policy.
BeginPublish(t, d, a, w, expected) ==
    /\ op[t].pc = "idle"
    /\ \E existing_authorized \in BOOLEAN, evidence \in WorkerEvidence(d, sources["POLICY"]) :
          op' = [op EXCEPT ![t] = [Idle EXCEPT !.pc = "epoch", !.definition = d, !.attempt = a,
                                               !.worker = w, !.expected = expected,
                                               !.evidence = evidence,
                                               !.existing_authorized = existing_authorized]]
    /\ UNCHANGED <<runtime, superseding, sources>>

\* Mutant: a publication's epoch is not compared with the view's.
ReadEpochUnchecked(t) ==
    /\ op[t].pc = "epoch"
    /\ IF t \in Evaluator
       THEN op' = [op EXCEPT ![t].pc = "constraints", ![t].evidence["EPOCH"] = sources["EPOCH"]]
       ELSE Goto(t, "constraints")
    /\ UNCHANGED <<runtime, superseding, sources>>

\* The second view call is the epoch's.  evaluate() binds what it reads, a
\* publication bound to another epoch is refused.
ReadEpoch(t) ==
    /\ op[t].pc = "epoch"
    /\ \/ /\ t \in Evaluator
          /\ op' = [op EXCEPT ![t].pc = "constraints", ![t].evidence["EPOCH"] = sources["EPOCH"]]
       \/ /\ t \in Publisher
          /\ op[t].evidence["EPOCH"] = sources["EPOCH"]
          /\ Goto(t, "constraints")
       \/ /\ t \in Publisher
          /\ op[t].evidence["EPOCH"] # sources["EPOCH"]
          /\ Return(t)
    /\ UNCHANGED <<runtime, superseding, sources>>

\* CONSTRAINT_SET_UNKNOWN, or REVALIDATION_REQUIRED for another generation of it,
\* unless the bound generation is the registered one.
CheckConstraints(t) ==
    /\ op[t].pc = "constraints"
    /\ IF constraint_sets[SetOf[op[t].definition]] = BoundTo[op[t].definition]
       THEN Goto(t, AfterConstraints(t))
       ELSE Return(t)
    /\ UNCHANGED <<runtime, superseding, sources>>

\* Mutant: a reused attempt id is not a conflict.
CheckNoAttempt(t) ==
    /\ op[t].pc = "attempt"
    /\ Goto(t, AfterAttempt(t))
    /\ UNCHANGED <<runtime, superseding, sources>>

\* EVALUATION_ATTEMPT_CONFLICT when the id was used with another input.
CheckAttempt(t) ==
    /\ op[t].pc = "attempt"
    /\ IF /\ op[t].attempt # NoAttempt
          /\ attempts[op[t].attempt] \notin {NoInput, InputDigest(op[t].definition, op[t].evidence)}
       THEN Return(t)
       ELSE Goto(t, AfterAttempt(t))
    /\ UNCHANGED <<runtime, superseding, sources>>

\* Mutant: only retirement is refused.
CheckRetiredOnly(t) ==
    /\ op[t].pc = "existing"
    /\ LET record == RecordIn(t) IN
       IF record.retired
       THEN Return(t)
       ELSE op' = [op EXCEPT ![t].pc = AfterExisting(t),
                             ![t].existing_authorized =
                                 IF t \in Evaluator
                                 THEN Present(PathIn(t)) /\ is_authorizing_outcome(record.outcome)
                                 ELSE @]
    /\ UNCHANGED <<runtime, superseding, sources>>

\* Mutant: a path with a record, of whatever outcome, counts as authorized.
CheckKnown(t) ==
    /\ op[t].pc = "existing"
    /\ LET record == RecordIn(t) IN
       IF record.retired \/ record.revocation # NoRevocation
       THEN Return(t)
       ELSE op' = [op EXCEPT ![t].pc = AfterExisting(t),
                             ![t].existing_authorized = Present(PathIn(t))]
    /\ UNCHANGED <<runtime, superseding, sources>>

\* existing_info(), called without the lock: PATH_RETIRED, REVOKED, and for an
\* evaluation whether the path is already authorized.
CheckExisting(t) ==
    /\ op[t].pc = "existing"
    /\ LET record == RecordIn(t) IN
       IF record.retired \/ record.revocation # NoRevocation
       THEN Return(t)
       ELSE op' = [op EXCEPT ![t].pc = AfterExisting(t),
                             ![t].existing_authorized =
                                 IF t \in Evaluator
                                 THEN Present(PathIn(t)) /\ is_authorizing_outcome(record.outcome)
                                 ELSE @]
    /\ UNCHANGED <<runtime, superseding, sources>>

\* compute_evaluation() reads one subject: topology, then the hops' elements,
\* then the capabilities.
ReadEvidence(t, s) ==
    /\ op[t].pc = "evidence"
    /\ s \in Unread(t)
    /\ "TOPOLOGY" \in Unread(t) => s = "TOPOLOGY"
    /\ s \in Capability => Unread(t) \cap Element = {}
    /\ op' = [op EXCEPT ![t].evidence[s] = sources[s],
                        ![t].pc = IF Unread(t) = {s} THEN "commit" ELSE "evidence"]
    /\ UNCHANGED <<runtime, superseding, sources>>

-----------------------------------------------------------------------------
(* commit(), one critical section.                                         *)

\* Mutant: the commit binds the evidence of its own moment, not the evaluation's.
DecisionOfNow(t) ==
    LET d == op[t].definition
        e == op[t].evidence
        outcome == PrimaryOutcome(d, e, op[t].existing_authorized)
    IN  [state |-> state_for_outcome(outcome), outcome |-> outcome,
         evidence |-> [s \in Subject |-> IF e[s] = 0 THEN 0 ELSE sources[s]],
         violations |-> HardViolations(d, e, op[t].existing_authorized)]

Decision(t) ==
    LET d == op[t].definition
        e == op[t].evidence
        outcome == PrimaryOutcome(d, e, op[t].existing_authorized)
    IN  [state |-> state_for_outcome(outcome), outcome |-> outcome, evidence |-> e,
         violations |-> HardViolations(d, e, op[t].existing_authorized)]

DecisionDigest(t) ==
    AuthorityDigest(op[t].definition, Decision(t).state, Decision(t).outcome,
                    Decision(t).violations, Decision(t).evidence)

NoRoom(t) ==
    /\ ~Present(PathIn(t))
    /\ Cardinality({p \in Path : Present(p)}) >= MaxPaths

\* Mutant: evidence of exactly the invalidated generation counts as stale.
StaleAtWatermark(t) ==
    \E s \in Bound(op[t].definition, op[t].evidence["POLICY"]) :
        op[t].evidence[s] <= watermarks[s]

\* stale_evidence(): some bound subject was invalidated past its generation.
StaleEvidence(t) ==
    \E s \in Bound(op[t].definition, op[t].evidence["POLICY"]) :
        op[t].evidence[s] < watermarks[s]

UnexpectedGeneration(t) ==
    op[t].expected \notin {NoExpectation, RecordIn(t).generation}

\* Mutant: commit() trusts the evidence the evaluation read.
CommitUnwatched(t) == NoRoom(t) \/ UnexpectedGeneration(t)

CommitRejected(t) == NoRoom(t) \/ StaleEvidence(t) \/ UnexpectedGeneration(t)

Replayed(t) ==
    Present(PathIn(t)) /\ RecordIn(t).digest = DecisionDigest(t)

\* RESOURCE_LIMIT, REVALIDATION_REQUIRED or STALE_AUTHORITY: nothing is stored.
RejectCommit(t) ==
    /\ op[t].pc = "commit"
    /\ CommitRejected(t)
    /\ Return(t)
    /\ UNCHANGED <<runtime, superseding, sources>>

\* IDEMPOTENT: the record already says so.
ReplayCommit(t) ==
    /\ op[t].pc = "commit"
    /\ ~CommitRejected(t)
    /\ Replayed(t)
    /\ RememberAttempt(op[t].attempt, InputDigest(op[t].definition, op[t].evidence))
    /\ Return(t)
    /\ UNCHANGED <<records, index, watermarks, constraint_sets, superseding, sources>>

\* unindex_record()
Unindexed(p) == [s \in Element \cup Capability |-> index[s] \ {p}]

\* The generation space is exhausted: RESOURCE_LIMIT, after the record has been
\* taken out of the index.
ExhaustedCommit(t) ==
    /\ op[t].pc = "commit"
    /\ ~CommitRejected(t)
    /\ ~Replayed(t)
    /\ ~can_advance(RecordIn(t).generation)
    /\ index' = Unindexed(PathIn(t))
    /\ Return(t)
    /\ UNCHANGED <<records, watermarks, constraint_sets, superseding, attempts,
                   attempt_order, sources>>

\* rebuild_record_dependencies(): the hops' elements, and the capabilities of the
\* set registered now under the policy of the decision.
Dependencies(d, policy) ==
    Uses[d] \cup RequiredCapabilities(SetOf[d], constraint_sets[SetOf[d]], policy)

\* Mutant: the dependencies are rebuilt before the decision is stored.
ReindexedBefore(d, policy) ==
    LET p == PathOf[d]
        dependencies == Dependencies(records[p].definition, records[p].evidence["POLICY"])
    IN  [s \in Element \cup Capability |->
            IF s \in dependencies THEN index[s] \cup {p} ELSE index[s] \ {p}]

\* Mutant: the old definition's entries stay.
ReindexedOver(d, policy) ==
    [s \in Element \cup Capability |->
        IF s \in Dependencies(d, policy) THEN index[s] \cup {PathOf[d]} ELSE index[s]]

\* unindex_record() and index_record()
Reindexed(d, policy) ==
    LET p == PathOf[d] IN
    [s \in Element \cup Capability |->
        IF s \in Dependencies(d, policy) THEN index[s] \cup {p} ELSE index[s] \ {p}]

\* The decision becomes the record.  Revocation and retirement are not assigned.
Committed(t) ==
    Sealed([RecordIn(t) EXCEPT !.generation = @ + 1,
                               !.definition = op[t].definition,
                               !.state = Decision(t).state,
                               !.outcome = Decision(t).outcome,
                               !.evidence = Decision(t).evidence,
                               !.violations = Decision(t).violations,
                               !.worker = op[t].worker])

AcceptCommit(t) ==
    /\ op[t].pc = "commit"
    /\ ~CommitRejected(t)
    /\ ~Replayed(t)
    /\ can_advance(RecordIn(t).generation)
    /\ records' = [records EXCEPT ![PathIn(t)] = Committed(t)]
    /\ index' = Reindexed(op[t].definition, op[t].evidence["POLICY"])
    /\ RememberAttempt(op[t].attempt, InputDigest(op[t].definition, op[t].evidence))
    /\ Return(t)
    /\ UNCHANGED <<watermarks, constraint_sets, superseding, sources>>

-----------------------------------------------------------------------------
(* Withdrawal: one critical section each.                                  *)

\* Mutant: a revocation keeps the generation.
RevocationInPlace(record, reason) ==
    Sealed([record EXCEPT !.state = "REVOKED", !.outcome = "REVOKED", !.revocation = reason])

WithRevocation(record, reason) ==
    Sealed([record EXCEPT !.generation = @ + 1, !.state = "REVOKED",
                          !.outcome = "REVOKED", !.revocation = reason])

\* Mutant: a retirement keeps the generation.
RetirementInPlace(record) ==
    Sealed([record EXCEPT !.state = "RETIRED", !.outcome = "PATH_RETIRED", !.retired = TRUE])

WithRetirement(record) ==
    Sealed([record EXCEPT !.generation = @ + 1, !.state = "RETIRED",
                          !.outcome = "PATH_RETIRED", !.retired = TRUE])

\* revoke(); the same reason again is IDEMPOTENT.  An expected generation only
\* refuses the call, and a call that is refused is left out.
Revoke(p, reason) ==
    /\ Present(p)
    /\ records[p].revocation # reason
    /\ can_advance(records[p].generation)
    /\ records' = [records EXCEPT ![p] = WithRevocation(@, reason)]
    /\ UNCHANGED <<index, watermarks, constraint_sets, superseding, attempts,
                   attempt_order, sources, op>>

\* retire(), of a revoked path too.
Retire(p) ==
    /\ Present(p)
    /\ ~records[p].retired
    /\ can_advance(records[p].generation)
    /\ records' = [records EXCEPT ![p] = WithRetirement(@)]
    /\ UNCHANGED <<index, watermarks, constraint_sets, superseding, attempts,
                   attempt_order, sources, op>>

\* raise_watermark(), then every candidate not bound to exactly this generation.
Invalidate(s, generation, candidates) ==
    /\ watermarks' = [watermarks EXCEPT ![s] = IF generation > @ THEN generation ELSE @]
    /\ MarkAll({p \in candidates : Present(p) /\ records[p].evidence[s] # generation})
    /\ UNCHANGED <<index, constraint_sets, superseding, attempts, attempt_order, sources, op>>

\* invalidate_epoch(), _policy(), _topology(): every record is a candidate.
\* Notifications come from outside, late, twice, out of order, or before the
\* view shows the generation.
InvalidateScalar(s, generation) ==
    s \in Scalar /\ Invalidate(s, generation, Path)

\* invalidate_link(), _port(), _element(), _capability(): the indexed dependents.
InvalidateDependents(s, generation) ==
    s \in Element \cup Capability /\ Invalidate(s, generation, index[s])

\* invalidate_constraints() looks for evidence under the set's id, which no
\* decision binds (they bind it under "self"): every record is marked, and its
\* watermark is one no commit compares with.
InvalidateConstraints ==
    /\ MarkAll({p \in Path : Present(p)})
    /\ UNCHANGED <<index, watermarks, constraint_sets, superseding, attempts,
                   attempt_order, sources, op>>

\* invalidate_publisher()
InvalidatePublisher(w) ==
    /\ MarkAll({p \in Path : Present(p) /\ records[p].worker = w})
    /\ UNCHANGED <<index, watermarks, constraint_sets, superseding, attempts,
                   attempt_order, sources, op>>

\* Mutant: the records bound to the replaced set are not collected.
RegisterQuietly(c) ==
    /\ constraint_sets[c] < Len(Requires[c])
    /\ constraint_sets' = [constraint_sets EXCEPT ![c] = @ + 1]
    /\ UNCHANGED <<records, index, watermarks, superseding, attempts, attempt_order,
                   sources, op>>

\* register_constraint_set(), first critical section: new content takes the next
\* generation and the records bound to the set are collected.
RegisterConstraintSet(c) ==
    /\ constraint_sets[c] < Len(Requires[c])
    /\ constraint_sets' = [constraint_sets EXCEPT ![c] = @ + 1]
    /\ superseding' = superseding \cup {<<p, constraint_sets[c] + 1>> :
           p \in {q \in Path : Present(q) /\ SetOf[records[q].definition] = c}}
    /\ UNCHANGED <<records, index, watermarks, attempts, attempt_order, sources, op>>

\* ... then one critical section for each record collected.
MarkSuperseded(p, generation) ==
    /\ <<p, generation>> \in superseding
    /\ superseding' = superseding \ {<<p, generation>>}
    /\ MarkAll({q \in {p} : Present(q) /\ BoundTo[records[q].definition] # generation})
    /\ UNCHANGED <<index, watermarks, constraint_sets, attempts, attempt_order, sources, op>>

\* An evidence authority publishes its next generation.
SourceChange(s) ==
    /\ sources[s] < Len(Content[s])
    /\ sources' = [sources EXCEPT ![s] = @ + 1]
    /\ UNCHANGED <<runtime, superseding, op>>

-----------------------------------------------------------------------------
Init ==
    /\ records = [p \in Path |-> Absent]
    /\ index = [s \in Element \cup Capability |-> {}]
    /\ watermarks = [s \in Subject |-> 0]
    /\ constraint_sets = [c \in ConstraintSet |-> 0]
    /\ superseding = {}
    /\ attempts = [a \in Attempt |-> NoInput]
    /\ attempt_order = <<>>
    /\ sources = [s \in Subject |-> 1]
    /\ op = [t \in Thread |-> Idle]

Begin(t) ==
    \E d \in Definition, a \in Attempt \cup {NoAttempt}, w \in Worker :
        \E expected \in Expectations(PathOf[d]) :
            \/ t \in Evaluator /\ BeginEvaluate(t, d, a, w, expected)
            \/ t \in Publisher /\ BeginPublish(t, d, a, w, expected)

\* A call goes on to its next cut: it takes a mutex and calls views, no more.
Proceed(t) ==
    \/ ReadEpoch(t)
    \/ CheckConstraints(t)
    \/ CheckAttempt(t)
    \/ CheckExisting(t)
    \/ \E s \in Subject : ReadEvidence(t, s)
    \/ RejectCommit(t)
    \/ ReplayCommit(t)
    \/ ExhaustedCommit(t)
    \/ AcceptCommit(t)

Withdraw ==
    \/ \E p \in Path, reason \in Reason : Revoke(p, reason)
    \/ \E p \in Path : Retire(p)
    \/ \E s \in Subject : \E generation \in Announced(s) :
          InvalidateScalar(s, generation) \/ InvalidateDependents(s, generation)
    \/ InvalidateConstraints
    \/ \E w \in Worker : InvalidatePublisher(w)

Next ==
    \/ \E t \in Thread : Begin(t) \/ Proceed(t)
    \/ Withdraw
    \/ \E c \in ConstraintSet : RegisterConstraintSet(c)
    \/ \E m \in superseding : MarkSuperseded(m[1], m[2])
    \/ \E s \in Subject : SourceChange(s)

Spec == Init /\ [][Next]_vars

\* Every call proceeds, every registration finishes, the authorities go on to the
\* generations they announce, and a client keeps asking for each path again.
Retry(p) ==
    \E t \in Evaluator, d \in Definition, w \in Worker :
        PathOf[d] = p /\ BeginEvaluate(t, d, NoAttempt, w, NoExpectation)

Fairness ==
    /\ \A t \in Thread : WF_vars(Proceed(t))
    /\ \A p \in Path : SF_vars(Retry(p))
    /\ WF_vars(\E m \in superseding : MarkSuperseded(m[1], m[2]))
    /\ \A s \in Subject : WF_vars(SourceChange(s))

FairSpec == Spec /\ Fairness

\* Calls made one after the other, by callers who wait for each other: while a call
\* or a registration is under way, nothing but its own next step happens.
Quiet == superseding = {} /\ \A t \in Thread : op[t] = Idle

SerialNext ==
    /\ Next
    /\ \/ Quiet
       \/ op' # op
       \/ superseding' \subseteq superseding /\ superseding' # superseding
    /\ ~Quiet => \A t \in Thread : op[t] = Idle => op'[t] = Idle

SerialSpec == Init /\ [][SerialNext]_vars

-----------------------------------------------------------------------------
(* Types.                                                                  *)

Generation == 0..MaxGeneration
Evidence == [Subject -> Nat]
Digest == [definition : Definition, state : AuthorityState, outcome : EvaluationOutcome,
           violations : SUBSET Subject, evidence : Evidence]

Record == [generation : Generation, definition : Definition,
           state : AuthorityState, outcome : EvaluationOutcome,
           evidence : Evidence, violations : SUBSET Subject, digest : Digest,
           revocation : Reason \cup {NoRevocation}, retired : BOOLEAN, worker : Worker]

Call == [pc : {"idle", "epoch", "constraints", "attempt", "existing",
               "evidence", "commit"},
         definition : Definition, expected : {NoExpectation} \cup Generation,
         attempt : Attempt \cup {NoAttempt}, worker : Worker,
         existing_authorized : BOOLEAN, evidence : Evidence]

\* The type invariant.
TypeOK ==
    /\ records \in [Path -> Record]
    /\ index \in [Element \cup Capability -> SUBSET Path]
    /\ watermarks \in [Subject -> Nat]
    /\ constraint_sets \in [ConstraintSet -> Nat]
    /\ superseding \in SUBSET (Path \X Nat)
    /\ attempts \in [Attempt -> Input \cup {NoInput}]
    /\ attempt_order \in Seq(Attempt)
    /\ sources \in [Subject -> Nat]
    /\ op \in [Thread -> Call]

-----------------------------------------------------------------------------
(* Safety, of every interleaving.                                          *)

Replaced(d) == constraint_sets[SetOf[d]] # BoundTo[d]
Superseded(p) == Replaced(records[p].definition)

\* The reverse index misses no dependent: every record that can still be marked is
\* under each element and capability its decision binds, the capabilities of a
\* replaced constraint set excepted (its record is marked for the replacement).
IndexCovers ==
    \A p \in Path :
        Present(p) /\ can_advance(records[p].generation) =>
            \A s \in Bound(records[p].definition, records[p].evidence["POLICY"]) \ Scalar :
                (s \in Capability => ~Superseded(p)) => p \in index[s]

\* Live authority never rests on evidence invalidated past the generation it is
\* bound to, whichever of the evaluation, the commit, the notification and the
\* next commit came first (raise_watermark, stale_evidence, the index).  Two
\* cases the code does not reach are left out: a record whose generation space is
\* used up, and the capabilities of a path whose constraint set has been replaced.
AuthorityAboveWatermarks ==
    \A p \in Path :
        Authorizing(p) /\ can_advance(records[p].generation) =>
            \A s \in Bound(records[p].definition, records[p].evidence["POLICY"]) :
                (s \in Capability => ~Superseded(p)) =>
                    records[p].evidence[s] >= watermarks[s]

\* What the proof that no step breaks it needs beside the index: a path that was
\* decided, or whose call is past the constraint check, was bound to a generation
\* that is registered, so a replaced set is never registered again.
Registered(d) == constraint_sets[SetOf[d]] >= BoundTo[d]

RegistryNotBehind ==
    /\ \A p \in Path : Present(p) => Registered(records[p].definition)
    /\ \A t \in Thread :
          op[t].pc \in {"attempt", "existing", "evidence", "commit"} =>
              Registered(op[t].definition)

AuthorityIsStored == \A p \in Path : Authorizing(p) => Present(p)

InvalidationInv ==
    TypeOK /\ AuthorityIsStored /\ RegistryNotBehind /\ IndexCovers /\ AuthorityAboveWatermarks

\* No decision is bound to an epoch or a policy this runtime has not reached: what
\* a worker decided ahead of it does not become authority here.
ScalarsReached ==
    \A p \in Path : /\ records[p].evidence["EPOCH"] <= sources["EPOCH"]
                    /\ records[p].evidence["POLICY"] <= sources["POLICY"]

\* The outcome of live authority is what the bound generations say, for a path
\* that was authorized: no commit mixes the evidence of one evaluation with the
\* verdict of another, and no hard violation is ever stored as authority.
AuthorityJustified ==
    \A p \in Path :
        Authorizing(p) =>
            records[p].outcome = PrimaryOutcome(records[p].definition, records[p].evidence, TRUE)

\* A compare-and-set call that saw a path before it was revoked or retired can no
\* longer commit to it: its expectation is already behind the record.
WithdrawalDefeatsExpectation ==
    \A t \in Thread :
        LET p == PathIn(t) IN
        /\ op[t].expected # NoExpectation
        /\ op[t].pc \in (IF t \in Evaluator THEN {"evidence", "commit"}
                                            ELSE {"attempt", "commit"})
        /\ Revoked(p) \/ records[p].retired
        => op[t].expected # records[p].generation

\* ... because no call expects a generation that is still to come.
ExpectationNotAhead ==
    \A t \in Thread :
        op[t].pc # "idle" /\ op[t].expected # NoExpectation =>
            op[t].expected <= RecordIn(t).generation

\* The stored digest is the digest of the stored decision: what idempotent replay
\* compares with is never left behind by a mark, a revocation or a retirement.
DigestBindsRecord ==
    \A p \in Path :
        records[p].digest = DigestOf(records[p])

\* A generation stands for one decision: the decision of a path changes only with
\* its generation, and that moves by exactly one.
GenerationStandsForDecision ==
    [][\A p \in Path :
          \/ records'[p].generation = records[p].generation + 1
          \/ /\ records'[p].generation = records[p].generation
             /\ records'[p].digest = records[p].digest]_records

\* A change of one element or capability touches no record whose decision does
\* not bind it: no index entry outlives the dependencies it stood for.
UnrelatedUntouched ==
    [][\A s \in Element \cup Capability, p \in Path :
          /\ watermarks'[s] # watermarks[s]
          /\ s \notin Bound(records[p].definition, records[p].evidence["POLICY"])
          /\ ~Superseded(p)
          => records'[p] = records[p]]_vars

\* The attempt index and its eviction order hold the same ids, each once, and no
\* more than the limit: no id is stuck in the index and none is evicted early.
AttemptIndexBounded ==
    /\ {a \in Attempt : attempts[a] # NoInput} = {attempt_order[i] : i \in DOMAIN attempt_order}
    /\ \A i, j \in DOMAIN attempt_order : attempt_order[i] = attempt_order[j] => i = j
    /\ Len(attempt_order) <= MaxAttempts

-----------------------------------------------------------------------------
(* What the README says of calls made one after the other.                 *)

\* "a revoked path never returns to authority"
RevokedNeverAuthorizing ==
    \A p \in Path : Revoked(p) => ~Authorizing(p)

\* "reusing it with different semantic input returns EVALUATION_ATTEMPT_CONFLICT
\* and mutates nothing": while an attempt id is remembered its input stays.
AttemptKeepsInput ==
    [][\A a \in Attempt :
          attempts[a] # NoInput => attempts'[a] \in {NoInput, attempts[a]}]_attempts

\* "cannot commit current authority": authority under a replaced constraint set is
\* being withdrawn, unless its generation space is used up.
SupersededIsWithdrawn ==
    \A p \in Path :
        /\ Authorizing(p)
        /\ Superseded(p)
        /\ can_advance(records[p].generation)
        => \E m \in superseding : m[1] = p

\* "MAINTENANCE and DRAINING keep an existing authorization conditionally but refuse
\* a new one": what is evaluated here for a path without authority is decided as for a
\* new path (a worker decides by its own record of the path).
DrainingRefusesNewAuthority ==
    [][\A t \in Evaluator :
          LET p == PathIn(t) IN
          /\ op[t].pc = "commit" /\ op'[t].pc = "idle"
          /\ ~Authorizing(p)
          /\ records'[p].state \in AuthorizingState
          => is_authorizing_outcome(PrimaryOutcome(records'[p].definition,
                                                   records'[p].evidence, FALSE))]_vars

-----------------------------------------------------------------------------
(* Liveness.                                                               *)

\* An invalidated path "may be re-authorized": asked for often enough, it gets a
\* decision, unless it is withdrawn for good or can no longer be decided.
RevalidationSettles ==
    \A p \in Path :
        records[p].state = "REVALIDATION_REQUIRED"
            ~> \/ records[p].state # "REVALIDATION_REQUIRED"
               \/ Revoked(p) \/ records[p].retired
               \/ Superseded(p)
               \/ ~can_advance(records[p].generation)

-----------------------------------------------------------------------------
(* What callers may rely on (AuthorityContract).                           *)

\* A call is about to decide once it has seen that its path is not withdrawn.
DecidingPcs(t) == IF t \in Evaluator THEN {"evidence", "commit"} ELSE {"attempt", "commit"}

AuthorityOf(record) ==
    [generation |-> record.generation, state |-> record.state,
     revoked |-> record.revocation # NoRevocation, retired |-> record.retired,
     worker |-> record.worker]

Contract ==
    INSTANCE AuthorityContract WITH
        Caller <- Thread,
        authority <- [p \in Path |-> AuthorityOf(records[p])],
        asked <- [t \in Thread |-> IF op[t].pc \in DecidingPcs(t)
                                   THEN <<PathIn(t), op[t].expected>> ELSE <<>>]

\* The runtime implements the contract: whatever the threads, the notifications and the
\* replaced constraint sets do in between, every call takes effect at one moment.
ImplementsContract == Contract!Spec
=============================================================================
