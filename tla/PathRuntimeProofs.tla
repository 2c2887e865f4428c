-------------------------- MODULE PathRuntimeProofs --------------------------
(***************************************************************************)
(* Theorems about PathRuntime, for every value of its constants: type      *)
(* correctness, with lemmas on each kind of step, then the safety theorems.*)
(* Everything about records follows from one lemma, RecordStep: what a     *)
(* step of the runtime can do to the record of a path.                     *)
(***************************************************************************)
EXTENDS PathRuntime, SequenceTheorems, TLAPS

-----------------------------------------------------------------------------
(* What the operators the model is built from return.                      *)

LEMMA StateForOutcomeType ==
    ASSUME NEW outcome
    PROVE  /\ state_for_outcome(outcome) \in AuthorityState
           /\ state_for_outcome(outcome) \in AuthorizingState
                 <=> outcome \in {"AUTHORIZED", "CONDITIONALLY_AUTHORIZED"}
BY DEF state_for_outcome, AuthorityState, AuthorizingState

LEMMA PrimaryOutcomeType ==
    ASSUME NEW d, NEW e, NEW b
    PROVE  PrimaryOutcome(d, e, b) \in {"HARD_FAILURE", "AUTHORIZED", "CONDITIONALLY_AUTHORIZED"}
BY DEF PrimaryOutcome

LEMMA SubjectFacts ==
    /\ Scalar \subseteq Subject /\ Element \subseteq Subject /\ Capability \subseteq Subject
    /\ "POLICY" \in Scalar /\ "EPOCH" \in Scalar /\ "TOPOLOGY" \in Scalar
    /\ NoEvidence \in Evidence
BY DEF Subject, Scalar, NoEvidence, Evidence

LEMMA RequiredCapabilitiesType ==
    ASSUME NEW c \in ConstraintSet, NEW g, NEW policy
    PROVE  RequiredCapabilities(c, g, policy) \in SUBSET Capability
<1>1. policy \in DOMAIN PolicyRequires => PolicyRequires[policy] \in SUBSET Capability
  BY ConstantsAssumption, ElementOfSeq, LenProperties
<1>2. g \in DOMAIN Requires[c] => Requires[c][g] \in SUBSET Capability
  <2>1. Requires[c] \in Seq(SUBSET Capability)
    BY ConstantsAssumption
  <2>2. QED  BY <2>1, ElementOfSeq, LenProperties
<1>3. QED  BY <1>1, <1>2 DEF RequiredCapabilities

LEMMA DefinitionType ==
    ASSUME NEW d \in Definition
    PROVE  /\ PathOf[d] \in Path /\ Uses[d] \in SUBSET Element
           /\ SetOf[d] \in ConstraintSet /\ BoundTo[d] \in Nat \ {0}
BY ConstantsAssumption

LEMMA BoundType ==
    ASSUME NEW d \in Definition, NEW policy
    PROVE  Bound(d, policy) \in SUBSET Subject
<1>1. RequiredCapabilities(SetOf[d], BoundTo[d], policy) \in SUBSET Capability
  BY DefinitionType, RequiredCapabilitiesType
<1>2. QED  BY <1>1, DefinitionType, SubjectFacts DEF Bound

LEMMA DigestType ==
    ASSUME NEW definition \in Definition, NEW state \in AuthorityState,
           NEW outcome \in EvaluationOutcome, NEW violations \in SUBSET Subject,
           NEW evidence \in Evidence
    PROVE  AuthorityDigest(definition, state, outcome, violations, evidence) \in Digest
BY DEF AuthorityDigest, Digest

LEMMA SealedType ==
    ASSUME NEW r \in Record
    PROVE  /\ Sealed(r) \in Record
           /\ Sealed(r).generation = r.generation /\ Sealed(r).definition = r.definition
           /\ Sealed(r).state = r.state
           /\ Sealed(r).outcome = r.outcome /\ Sealed(r).evidence = r.evidence
           /\ Sealed(r).violations = r.violations /\ Sealed(r).revocation = r.revocation
           /\ Sealed(r).retired = r.retired /\ Sealed(r).worker = r.worker
           /\ Sealed(r).digest = DigestOf(Sealed(r))
<1>1. DigestOf(r) \in Digest
  BY DigestType DEF Record, DigestOf
<1>2. QED  BY <1>1 DEF Sealed, Record, DigestOf

LEMMA AbsentType == Absent \in Record
<1>1. NoWorker \in Worker /\ NoDefinition \in Definition
  BY SubjectsAssumption DEF NoWorker, NoDefinition
<1>2. 0 \in Generation
  BY ConstantsAssumption DEF Generation
<1>3. AuthorityDigest(NoDefinition, "UNKNOWN", "HARD_FAILURE", {}, NoEvidence) \in Digest
  BY <1>1, DigestType, SubjectFacts DEF AuthorityState, EvaluationOutcome
<1>4. QED
  BY <1>1, <1>2, <1>3, SubjectFacts DEF Absent, Record, AuthorityState, EvaluationOutcome

LEMMA IdleType == Idle \in Call
<1>1. NoWorker \in Worker /\ NoDefinition \in Definition
  BY SubjectsAssumption DEF NoWorker, NoDefinition
<1>2. QED  BY <1>1, SubjectFacts DEF Idle, Call

\* A mark withdraws live authority unless the generation space is used up, and
\* touches nothing else of a record.
LEMMA MarkProperties ==
    ASSUME NEW r \in Record
    PROVE  LET m == MarkRevalidationRequired(r) IN
           /\ m \in Record
           /\ m.definition = r.definition
           /\ m.evidence = r.evidence /\ m.revocation = r.revocation
           /\ m.retired = r.retired /\ m.worker = r.worker
           /\ \/ m = r /\ (r.state = "REVALIDATION_REQUIRED" \/ ~can_advance(r.generation))
              \/ /\ can_advance(r.generation)
                 /\ m.generation = r.generation + 1
                 /\ m.state = "REVALIDATION_REQUIRED"
                 /\ m.outcome = "REVALIDATION_REQUIRED"
                 /\ m.violations = r.violations
                 /\ m.digest = DigestOf(m)
<1> DEFINE n == [r EXCEPT !.generation = @ + 1, !.state = "REVALIDATION_REQUIRED",
                          !.outcome = "REVALIDATION_REQUIRED"]
<1>1. ASSUME can_advance(r.generation) PROVE n \in Record
  <2>1. r.generation + 1 \in Generation
    BY <1>1, ConstantsAssumption DEF can_advance, Record, Generation
  <2>2. QED  BY <2>1 DEF Record, AuthorityState, EvaluationOutcome
<1>2. CASE r.state = "REVALIDATION_REQUIRED" \/ ~can_advance(r.generation)
  BY <1>2 DEF MarkRevalidationRequired
<1>3. CASE ~(r.state = "REVALIDATION_REQUIRED" \/ ~can_advance(r.generation))
  <2>1. MarkRevalidationRequired(r) = Sealed(n)
    BY <1>3 DEF MarkRevalidationRequired
  <2>2. n \in Record
    BY <1>1, <1>3
  <2>3. /\ n.generation = r.generation + 1 /\ n.state = "REVALIDATION_REQUIRED"
        /\ n.outcome = "REVALIDATION_REQUIRED" /\ n.evidence = r.evidence
        /\ n.definition = r.definition
        /\ n.violations = r.violations /\ n.revocation = r.revocation
        /\ n.retired = r.retired /\ n.worker = r.worker
    BY DEF Record
  <2> HIDE DEF n
  <2>4. QED
    BY <1>3, <2>1, <2>2, <2>3, SealedType
<1>4. QED  BY <1>2, <1>3

-----------------------------------------------------------------------------
(* The type invariant.                                                     *)

\* The operators on the attempt index keep its type.
LEMMA RememberAttemptType ==
    ASSUME TypeOK, NEW a \in Attempt \cup {NoAttempt}, NEW input \in Input,
           RememberAttempt(a, input)
    PROVE  /\ attempts' \in [Attempt -> Input \cup {NoInput}]
           /\ attempt_order' \in Seq(Attempt)
<1>1. CASE a = NoAttempt \/ attempts[a] # NoInput
  BY <1>1 DEF RememberAttempt, TypeOK
<1>2. CASE a # NoAttempt /\ attempts[a] = NoInput /\ Len(attempt_order) < MaxAttempts
  <2>1. a \in Attempt /\ attempt_order \in Seq(Attempt)
    BY <1>2 DEF TypeOK
  <2>2. Append(attempt_order, a) \in Seq(Attempt)
    BY <2>1, AppendProperties
  <2>3. QED
    BY <1>2, <2>1, <2>2 DEF RememberAttempt, TypeOK
<1>3. CASE a # NoAttempt /\ attempts[a] = NoInput /\ ~(Len(attempt_order) < MaxAttempts)
  <2>1. attempt_order # <<>>
    BY <1>3, ConstantsAssumption, EmptySeq DEF TypeOK
  <2>2. Tail(attempt_order) \in Seq(Attempt) /\ a \in Attempt
    BY <1>3, <2>1, HeadTailProperties DEF TypeOK
  <2>3. Append(Tail(attempt_order), a) \in Seq(Attempt)
    BY <2>2, AppendProperties
  <2>4. QED
    BY <1>3, <2>3 DEF RememberAttempt, TypeOK
<1>4. QED  BY <1>1, <1>2, <1>3

LEMMA WorkerEvidenceType ==
    ASSUME NEW d \in Definition, NEW policy, NEW e \in WorkerEvidence(d, policy)
    PROVE  e \in Evidence
<1> DEFINE bound == Bound(d, policy)
<1>1. PICK g \in [bound -> UNION {Generations(s) : s \in bound}] :
          /\ \A s \in bound : g[s] \in Generations(s)
          /\ e = [s \in Subject |-> IF s \in bound THEN g[s] ELSE 0]
  BY DEF WorkerEvidence
<1>2. \A s \in bound : g[s] \in Nat
  <2>1. \A s \in bound : Generations(s) \subseteq Nat
    BY BoundType, ConstantsAssumption, LenProperties DEF Generations
  <2>2. QED  BY <1>1, <2>1
<1> HIDE DEF bound
<1>3. QED  BY <1>1, <1>2 DEF Evidence

\* What commit() stores is a record.
LEMMA DecisionType ==
    ASSUME TypeOK, NEW t \in Thread
    PROVE  /\ op[t].definition \in Definition /\ PathIn(t) \in Path
           /\ Decision(t).state \in AuthorityState
           /\ Decision(t).outcome \in EvaluationOutcome
           /\ Decision(t).evidence \in Evidence
           /\ Decision(t).violations \in SUBSET Subject
           /\ Decision(t).evidence = op[t].evidence
           /\ Decision(t).violations
                = HardViolations(op[t].definition, op[t].evidence, op[t].existing_authorized)
           /\ Decision(t).outcome
                = PrimaryOutcome(op[t].definition, op[t].evidence, op[t].existing_authorized)
           /\ Decision(t).state = state_for_outcome(Decision(t).outcome)
<1>1. op[t] \in Call
  BY DEF TypeOK
<1>2. op[t].definition \in Definition /\ op[t].evidence \in Evidence
  BY <1>1 DEF Call
<1>3. HardViolations(op[t].definition, op[t].evidence, op[t].existing_authorized) \in SUBSET Subject
  BY <1>2, BoundType DEF HardViolations
<1>4. QED
  BY <1>2, <1>3, DefinitionType, StateForOutcomeType, PrimaryOutcomeType
     DEF Decision, EvaluationOutcome, PathIn

LEMMA CommittedProperties ==
    ASSUME TypeOK, NEW t \in Thread, can_advance(RecordIn(t).generation)
    PROVE  LET r == Committed(t) IN
           /\ r \in Record
           /\ r.generation = RecordIn(t).generation + 1
           /\ r.definition = op[t].definition
           /\ r.state = state_for_outcome(r.outcome)
           /\ r.outcome = PrimaryOutcome(r.definition, r.evidence, op[t].existing_authorized)
           /\ r.evidence = op[t].evidence
           /\ r.revocation = RecordIn(t).revocation /\ r.retired = RecordIn(t).retired
           /\ r.worker = op[t].worker
           /\ r.digest = DigestOf(r)
<1> DEFINE n == [RecordIn(t) EXCEPT !.generation = @ + 1,
                                    !.definition = op[t].definition,
                                    !.state = Decision(t).state,
                                    !.outcome = Decision(t).outcome,
                                    !.evidence = Decision(t).evidence,
                                    !.violations = Decision(t).violations,
                                    !.worker = op[t].worker]
<1>1. RecordIn(t) \in Record /\ op[t].worker \in Worker
  BY DecisionType DEF TypeOK, Call, RecordIn
<1>2. RecordIn(t).generation + 1 \in Generation
  BY <1>1, ConstantsAssumption DEF can_advance, Record, Generation
<1>3. /\ n \in Record
      /\ n.generation = RecordIn(t).generation + 1
      /\ n.definition = op[t].definition
      /\ n.state = Decision(t).state /\ n.outcome = Decision(t).outcome
      /\ n.evidence = Decision(t).evidence
      /\ n.revocation = RecordIn(t).revocation
      /\ n.retired = RecordIn(t).retired /\ n.worker = op[t].worker
  BY <1>1, <1>2, DecisionType DEF Record
<1> HIDE DEF n
<1>4. Committed(t) = Sealed(n)
  BY DEF Committed, n
<1>5. QED
  BY <1>3, <1>4, SealedType, DecisionType

LEMMA InputDigestType ==
    ASSUME TypeOK, NEW t \in Thread
    PROVE  InputDigest(op[t].definition, op[t].evidence) \in Input
<1>1. op[t] \in Call
  BY DEF TypeOK
<1>2. op[t].definition \in Definition /\ op[t].evidence["POLICY"] \in Nat /\ op[t].evidence["EPOCH"] \in Nat
  BY <1>1, SubjectFacts DEF Call, Evidence
<1>3. QED  BY <1>2 DEF InputDigest, Input

\* A thread that returns is idle, and one that goes on keeps its call.
LEMMA CallType ==
    ASSUME TypeOK, NEW t \in Thread
    PROVE  /\ Return(t) => op' \in [Thread -> Call]
           /\ \A pc \in {"constraints", "attempt", "existing", "evidence", "commit"} :
                 Goto(t, pc) => op' \in [Thread -> Call]
<1>1. op \in [Thread -> Call] /\ op[t] \in Call
  BY DEF TypeOK
<1>2. ASSUME NEW pc \in {"constraints", "attempt", "existing", "evidence", "commit"}
      PROVE  [op[t] EXCEPT !.pc = pc] \in Call
  BY <1>1, <1>2 DEF Call
<1>3. QED  BY <1>1, <1>2, IdleType DEF Return, Goto

LEMMA MarkAllType ==
    ASSUME TypeOK, NEW paths, MarkAll(paths)
    PROVE  records' \in [Path -> Record]
BY MarkProperties DEF MarkAll, TypeOK

LEMMA InitType == Init => TypeOK
<1> SUFFICES ASSUME Init PROVE TypeOK
  OBVIOUS
<1>1. records \in [Path -> Record]
  BY AbsentType DEF Init
<1>2. attempts \in [Attempt -> Input \cup {NoInput}]
  BY DEF Init
<1>3. attempt_order \in Seq(Attempt)
  BY EmptySeq DEF Init
<1>4. op \in [Thread -> Call]
  BY IdleType DEF Init
<1>5. /\ index \in [Element \cup Capability -> SUBSET Path]
      /\ watermarks \in [Subject -> Nat]
      /\ constraint_sets \in [ConstraintSet -> Nat]
      /\ superseding \in SUBSET (Path \X Nat)
      /\ sources \in [Subject -> Nat]
  BY DEF Init
<1>6. QED  BY <1>1, <1>2, <1>3, <1>4, <1>5 DEF TypeOK

\* What the steps of a call up to its commit leave alone.
LEMMA BeginType ==
    ASSUME TypeOK, NEW t \in Thread, Begin(t)
    PROVE  TypeOK'
<1>1. PICK d \in Definition, a \in Attempt \cup {NoAttempt}, w \in Worker :
         \E expected \in Expectations(PathOf[d]) :
            \/ t \in Evaluator /\ BeginEvaluate(t, d, a, w, expected)
            \/ t \in Publisher /\ BeginPublish(t, d, a, w, expected)
  BY DEF Begin
<1>2. PICK expected \in Expectations(PathOf[d]) :
            \/ t \in Evaluator /\ BeginEvaluate(t, d, a, w, expected)
            \/ t \in Publisher /\ BeginPublish(t, d, a, w, expected)
  BY <1>1
<1>3. expected \in {NoExpectation} \cup Generation
  BY <1>1, <1>2, DefinitionType DEF Expectations, TypeOK, Record
<1>4. sources["POLICY"] \in Nat /\ "POLICY" \in Subject
  BY SubjectFacts DEF TypeOK
<1>5. CASE BeginEvaluate(t, d, a, w, expected)
  <2> DEFINE call == [Idle EXCEPT !.pc = "epoch", !.definition = d, !.attempt = a,
                                  !.worker = w, !.expected = expected,
                                  !.evidence["POLICY"] = sources["POLICY"]]
  <2>1. Idle.evidence \in Evidence
    BY IdleType DEF Call
  <2>2. [Idle.evidence EXCEPT !["POLICY"] = sources["POLICY"]] \in Evidence
    BY <1>4, <2>1 DEF Evidence
  <2>3. call \in Call
    BY <1>1, <1>3, <2>2, IdleType DEF Call
  <2>4. op' = [op EXCEPT ![t] = call] /\ UNCHANGED <<runtime, superseding, sources>>
    BY <1>5 DEF BeginEvaluate
  <2> HIDE DEF call
  <2>5. QED  BY <2>3, <2>4 DEF TypeOK, runtime
<1>6. CASE BeginPublish(t, d, a, w, expected)
  <2>1. PICK existing_authorized \in BOOLEAN, evidence \in WorkerEvidence(d, sources["POLICY"]) :
          op' = [op EXCEPT ![t] = [Idle EXCEPT !.pc = "epoch", !.definition = d, !.attempt = a,
                                               !.worker = w, !.expected = expected,
                                               !.evidence = evidence,
                                               !.existing_authorized = existing_authorized]]
    BY <1>6 DEF BeginPublish
  <2> DEFINE call == [Idle EXCEPT !.pc = "epoch", !.definition = d, !.attempt = a,
                                  !.worker = w, !.expected = expected,
                                  !.evidence = evidence,
                                  !.existing_authorized = existing_authorized]
  <2>2. evidence \in Evidence
    BY <1>1, WorkerEvidenceType
  <2>3. call \in Call
    BY <1>1, <1>3, <2>2, IdleType DEF Call
  <2>4. op' = [op EXCEPT ![t] = call] /\ UNCHANGED <<runtime, superseding, sources>>
    BY <1>6, <2>1 DEF BeginPublish
  <2> HIDE DEF call
  <2>5. QED  BY <2>3, <2>4 DEF TypeOK, runtime
<1>7. QED  BY <1>2, <1>5, <1>6

LEMMA ReadsType ==
    ASSUME TypeOK, NEW t \in Thread,
           \/ ReadEpoch(t) \/ CheckConstraints(t) \/ CheckAttempt(t) \/ CheckExisting(t)
           \/ \E s \in Subject : ReadEvidence(t, s)
    PROVE  TypeOK' /\ UNCHANGED <<runtime, superseding, sources>>
<1>1. op[t] \in Call /\ op[t].evidence \in Evidence
  BY DEF TypeOK, Call
<1>2. SUFFICES op' \in [Thread -> Call] /\ UNCHANGED <<runtime, superseding, sources>>
  BY DEF TypeOK, runtime
<1>3. CASE ReadEpoch(t)
  <2>1. CASE Goto(t, "constraints") \/ Return(t)
    BY <1>3, <2>1, CallType DEF ReadEpoch
  <2>2. CASE op' = [op EXCEPT ![t].pc = "constraints", ![t].evidence["EPOCH"] = sources["EPOCH"]]
    <3> DEFINE evidence == [op[t].evidence EXCEPT !["EPOCH"] = sources["EPOCH"]]
    <3>1. sources["EPOCH"] \in Nat
      BY SubjectFacts DEF TypeOK
    <3>2. evidence \in Evidence
      BY <1>1, <3>1 DEF Evidence
    <3>3. [op[t] EXCEPT !.pc = "constraints", !.evidence = evidence] \in Call
      BY <1>1, <3>2 DEF Call
    <3>4. op' = [op EXCEPT ![t] = [op[t] EXCEPT !.pc = "constraints", !.evidence = evidence]]
      BY <1>1, <2>2 DEF TypeOK, Call
    <3> HIDE DEF evidence
    <3>5. QED  BY <1>3, <3>3, <3>4 DEF TypeOK, ReadEpoch
  <2>3. QED  BY <1>3, <2>1, <2>2 DEF ReadEpoch
<1>4. CASE CheckConstraints(t)
  BY <1>4, CallType DEF CheckConstraints, AfterConstraints
<1>5. CASE CheckAttempt(t)
  BY <1>5, CallType DEF CheckAttempt, AfterAttempt
<1>6. CASE CheckExisting(t)
  <2>1. CASE Return(t)
    BY <1>6, <2>1, CallType DEF CheckExisting
  <2>2. ASSUME NEW b \in BOOLEAN, op' = [op EXCEPT ![t].pc = AfterExisting(t),
                                                   ![t].existing_authorized = b]
        PROVE  op' \in [Thread -> Call]
    <3>1. [op[t] EXCEPT !.pc = AfterExisting(t), !.existing_authorized = b] \in Call
      BY <1>1 DEF Call, AfterExisting
    <3>2. QED  BY <2>2, <3>1 DEF TypeOK
  <2> DEFINE b == IF t \in Evaluator
                  THEN Present(PathIn(t)) /\ is_authorizing_outcome(RecordIn(t).outcome)
                  ELSE op[t].existing_authorized
  <2>3. b \in BOOLEAN
    BY <1>1 DEF Call, Present, is_authorizing_outcome
  <2>4. \/ Return(t)
        \/ op' = [op EXCEPT ![t].pc = AfterExisting(t), ![t].existing_authorized = b]
    BY <1>1, <1>6 DEF CheckExisting, TypeOK
  <2>5. UNCHANGED <<runtime, superseding, sources>>
    BY <1>6 DEF CheckExisting
  <2> HIDE DEF b
  <2>6. QED  BY <2>1, <2>2, <2>3, <2>4, <2>5
<1>7. CASE \E s \in Subject : ReadEvidence(t, s)
  <2>1. PICK s \in Subject : ReadEvidence(t, s)
    BY <1>7
  <2> DEFINE evidence == [op[t].evidence EXCEPT ![s] = sources[s]]
             pc == IF Unread(t) = {s} THEN "commit" ELSE "evidence"
  <2>2. evidence \in Evidence
    BY <1>1 DEF Evidence, TypeOK
  <2>3. [op[t] EXCEPT !.evidence = evidence, !.pc = pc] \in Call
    BY <1>1, <2>2 DEF Call
  <2>4. op' = [op EXCEPT ![t] = [op[t] EXCEPT !.evidence = evidence, !.pc = pc]]
    BY <1>1, <2>1 DEF TypeOK, Call, ReadEvidence
  <2>5. UNCHANGED <<runtime, superseding, sources>>
    BY <2>1 DEF ReadEvidence
  <2> HIDE DEF evidence, pc
  <2>6. QED  BY <2>3, <2>4, <2>5 DEF TypeOK
<1>8. QED  BY <1>3, <1>4, <1>5, <1>6, <1>7

LEMMA CommitType ==
    ASSUME TypeOK, NEW t \in Thread,
           RejectCommit(t) \/ ReplayCommit(t) \/ ExhaustedCommit(t) \/ AcceptCommit(t)
    PROVE  TypeOK'
<1>1. op[t] \in Call /\ PathIn(t) \in Path /\ op[t].attempt \in Attempt \cup {NoAttempt}
  BY DecisionType DEF TypeOK, Call
<1>2. op' \in [Thread -> Call]
  BY CallType DEF RejectCommit, ReplayCommit, ExhaustedCommit, AcceptCommit
<1>3. CASE RejectCommit(t)
  BY <1>2, <1>3 DEF RejectCommit, TypeOK, runtime
<1>4. CASE ReplayCommit(t)
  <2>1. attempts' \in [Attempt -> Input \cup {NoInput}] /\ attempt_order' \in Seq(Attempt)
    BY <1>1, <1>4, InputDigestType, RememberAttemptType DEF ReplayCommit
  <2>2. QED  BY <1>2, <1>4, <2>1 DEF ReplayCommit, TypeOK
<1>5. CASE ExhaustedCommit(t)
  <2>1. index' \in [Element \cup Capability -> SUBSET Path]
    BY <1>5 DEF ExhaustedCommit, Unindexed, TypeOK
  <2>2. QED  BY <1>2, <1>5, <2>1 DEF ExhaustedCommit, TypeOK
<1>6. CASE AcceptCommit(t)
  <2>1. records' = [records EXCEPT ![PathIn(t)] = Committed(t)]
    BY <1>6 DEF AcceptCommit
  <2>2. Committed(t) \in Record
    BY <1>6, CommittedProperties DEF AcceptCommit
  <2>3. records' \in [Path -> Record]
    BY <2>1, <2>2 DEF TypeOK
  <2>4. attempts' \in [Attempt -> Input \cup {NoInput}] /\ attempt_order' \in Seq(Attempt)
    BY <1>1, <1>6, InputDigestType, RememberAttemptType DEF AcceptCommit
  <2>5. index' \in [Element \cup Capability -> SUBSET Path]
    BY <1>1, <1>6 DEF AcceptCommit, Reindexed, PathIn, TypeOK
  <2>6. QED  BY <1>2, <1>6, <2>3, <2>4, <2>5 DEF AcceptCommit, TypeOK
<1>7. QED  BY <1>3, <1>4, <1>5, <1>6

\* What revoke() and retire() store.
LEMMA RevokedProperties ==
    ASSUME NEW r \in Record, NEW reason \in Reason, can_advance(r.generation)
    PROVE  LET v == WithRevocation(r, reason) IN
           /\ v \in Record /\ v.generation = r.generation + 1 /\ v.state = "REVOKED"
           /\ v.definition = r.definition /\ v.evidence = r.evidence /\ v.revocation = reason
           /\ v.retired = r.retired /\ v.worker = r.worker
           /\ v.digest = DigestOf(v)
<1> DEFINE n == [r EXCEPT !.generation = @ + 1, !.state = "REVOKED",
                          !.outcome = "REVOKED", !.revocation = reason]
<1>1. r.generation + 1 \in Generation
  BY ConstantsAssumption DEF can_advance, Record, Generation
<1>2. /\ n \in Record /\ n.generation = r.generation + 1 /\ n.state = "REVOKED"
      /\ n.definition = r.definition /\ n.evidence = r.evidence /\ n.revocation = reason
      /\ n.retired = r.retired /\ n.worker = r.worker
  BY <1>1 DEF Record, AuthorityState, EvaluationOutcome
<1> HIDE DEF n
<1>3. WithRevocation(r, reason) = Sealed(n)
  BY DEF WithRevocation, n
<1>4. QED  BY <1>2, <1>3, SealedType

LEMMA RetiredProperties ==
    ASSUME NEW r \in Record, can_advance(r.generation)
    PROVE  LET v == WithRetirement(r) IN
           /\ v \in Record /\ v.generation = r.generation + 1 /\ v.state = "RETIRED"
           /\ v.definition = r.definition /\ v.evidence = r.evidence /\ v.revocation = r.revocation
           /\ v.retired /\ v.worker = r.worker
           /\ v.digest = DigestOf(v)
<1> DEFINE n == [r EXCEPT !.generation = @ + 1, !.state = "RETIRED",
                          !.outcome = "PATH_RETIRED", !.retired = TRUE]
<1>1. r.generation + 1 \in Generation
  BY ConstantsAssumption DEF can_advance, Record, Generation
<1>2. /\ n \in Record /\ n.generation = r.generation + 1 /\ n.state = "RETIRED"
      /\ n.definition = r.definition /\ n.evidence = r.evidence /\ n.revocation = r.revocation
      /\ n.retired /\ n.worker = r.worker
  BY <1>1 DEF Record, AuthorityState, EvaluationOutcome
<1> HIDE DEF n
<1>3. WithRetirement(r) = Sealed(n)
  BY DEF WithRetirement, n
<1>4. QED  BY <1>2, <1>3, SealedType

LEMMA WithdrawType ==
    ASSUME TypeOK, Withdraw
    PROVE  TypeOK'
<1>1. ASSUME NEW p \in Path, NEW reason \in Reason, Revoke(p, reason) PROVE TypeOK'
  <2>1. records' \in [Path -> Record]
    BY <1>1, RevokedProperties DEF Revoke, TypeOK
  <2>2. QED  BY <1>1, <2>1 DEF Revoke, TypeOK
<1>2. ASSUME NEW p \in Path, Retire(p) PROVE TypeOK'
  <2>1. records' \in [Path -> Record]
    BY <1>2, RetiredProperties DEF Retire, TypeOK
  <2>2. QED  BY <1>2, <2>1 DEF Retire, TypeOK
<1>3. ASSUME NEW s \in Subject, NEW g \in Announced(s), NEW candidates,
             Invalidate(s, g, candidates)
      PROVE  TypeOK'
  <2>1. g \in Nat
    BY ConstantsAssumption, LenProperties DEF Announced, Generations
  <2>2. watermarks' \in [Subject -> Nat]
    BY <1>3, <2>1 DEF Invalidate, TypeOK
  <2>3. records' \in [Path -> Record]
    BY <1>3, MarkAllType DEF Invalidate
  <2>4. QED  BY <1>3, <2>2, <2>3 DEF Invalidate, TypeOK
<1>4. CASE InvalidateConstraints
  <2>1. records' \in [Path -> Record]
    BY <1>4, MarkAllType DEF InvalidateConstraints
  <2>2. QED  BY <1>4, <2>1 DEF InvalidateConstraints, TypeOK
<1>5. ASSUME NEW w \in Worker, InvalidatePublisher(w) PROVE TypeOK'
  <2>1. records' \in [Path -> Record]
    BY <1>5, MarkAllType DEF InvalidatePublisher
  <2>2. QED  BY <1>5, <2>1 DEF InvalidatePublisher, TypeOK
<1>6. QED
  BY <1>1, <1>2, <1>3, <1>4, <1>5 DEF Withdraw, InvalidateScalar, InvalidateDependents

LEMMA RegistrationType ==
    ASSUME TypeOK,
           \/ \E c \in ConstraintSet : RegisterConstraintSet(c)
           \/ \E m \in superseding : MarkSuperseded(m[1], m[2])
    PROVE  TypeOK'
<1>1. ASSUME NEW c \in ConstraintSet, RegisterConstraintSet(c) PROVE TypeOK'
  <2>1. constraint_sets[c] + 1 \in Nat
    BY DEF TypeOK
  <2>2. constraint_sets' \in [ConstraintSet -> Nat] /\ superseding' \in SUBSET (Path \X Nat)
    BY <1>1, <2>1 DEF RegisterConstraintSet, TypeOK
  <2>3. QED  BY <1>1, <2>2 DEF RegisterConstraintSet, TypeOK
<1>2. ASSUME NEW m \in superseding, MarkSuperseded(m[1], m[2]) PROVE TypeOK'
  <2>1. records' \in [Path -> Record]
    BY <1>2, MarkAllType DEF MarkSuperseded
  <2>2. superseding' \in SUBSET (Path \X Nat)
    BY <1>2 DEF MarkSuperseded, TypeOK
  <2>3. QED  BY <1>2, <2>1, <2>2 DEF MarkSuperseded, TypeOK
<1>3. QED  BY <1>1, <1>2

LEMMA NextType == TypeOK /\ [Next]_vars => TypeOK'
<1> SUFFICES ASSUME TypeOK, [Next]_vars PROVE TypeOK'
  OBVIOUS
<1>1. ASSUME NEW t \in Thread, Begin(t) PROVE TypeOK'
  BY <1>1, BeginType
<1>2. ASSUME NEW t \in Thread, Proceed(t) PROVE TypeOK'
  BY <1>2, ReadsType, CommitType DEF Proceed
<1>3. CASE Withdraw
  BY <1>3, WithdrawType
<1>4. CASE \/ \E c \in ConstraintSet : RegisterConstraintSet(c)
           \/ \E m \in superseding : MarkSuperseded(m[1], m[2])
  BY <1>4, RegistrationType
<1>5. ASSUME NEW s \in Subject, SourceChange(s) PROVE TypeOK'
  BY <1>5 DEF SourceChange, TypeOK, runtime
<1>6. CASE UNCHANGED vars
  BY <1>6 DEF vars, runtime, TypeOK
<1>7. QED  BY <1>1, <1>2, <1>3, <1>4, <1>5, <1>6 DEF Next

\* Every variable keeps its type, the generations their bound, at every step.
THEOREM TypeCorrect == Spec => []TypeOK
<1>1. QED  BY InitType, NextType, PTL DEF Spec

-----------------------------------------------------------------------------
(* The steps of a record.                                                  *)

Stored(p) ==
    \E t \in Thread : /\ AcceptCommit(t) /\ PathIn(t) = p
                      /\ records'[p] = Committed(t)

Withdrawn(p) ==
    /\ Present(p) /\ can_advance(records[p].generation)
    /\ \/ \E reason \in Reason : records'[p] = WithRevocation(records[p], reason)
       \/ records'[p] = WithRetirement(records[p])

Marked(p) == Present(p) /\ records'[p] = MarkRevalidationRequired(records[p])

LEMMA RecordStep ==
    ASSUME TypeOK, [Next]_vars, NEW p \in Path
    PROVE  records'[p] = records[p] \/ Marked(p) \/ Stored(p) \/ Withdrawn(p)
<1>1. ASSUME NEW paths, MarkAll(paths), \A q \in paths : Present(q)
      PROVE  records'[p] = records[p] \/ Marked(p)
  BY <1>1 DEF MarkAll, Marked
<1>2. ASSUME NEW t \in Thread, Begin(t) PROVE records'[p] = records[p]
  BY <1>2 DEF Begin, BeginEvaluate, BeginPublish, runtime
<1>3. ASSUME NEW t \in Thread, Proceed(t) PROVE records'[p] = records[p] \/ Stored(p)
  <2>1. CASE AcceptCommit(t)
    <3>1. records' = [records EXCEPT ![PathIn(t)] = Committed(t)]
      BY <2>1 DEF AcceptCommit
    <3>2. QED  BY <2>1, <3>1 DEF TypeOK, Stored
  <2>2. CASE ~AcceptCommit(t)
    BY <1>3, <2>2, ReadsType DEF Proceed, RejectCommit, ReplayCommit, ExhaustedCommit, runtime
  <2>3. QED  BY <2>1, <2>2
<1>4. ASSUME Withdraw PROVE records'[p] = records[p] \/ Marked(p) \/ Withdrawn(p)
  <2>1. ASSUME NEW q \in Path, NEW reason \in Reason, Revoke(q, reason)
        PROVE  records'[p] = records[p] \/ Withdrawn(p)
    BY <2>1 DEF Revoke, TypeOK, Withdrawn
  <2>2. ASSUME NEW q \in Path, Retire(q)
        PROVE  records'[p] = records[p] \/ Withdrawn(p)
    BY <2>2 DEF Retire, TypeOK, Withdrawn
  <2>3. QED
    BY <1>1, <1>4, <2>1, <2>2
       DEF Withdraw, InvalidateScalar, InvalidateDependents, Invalidate,
           InvalidateConstraints, InvalidatePublisher
<1>5. ASSUME \/ \E c \in ConstraintSet : RegisterConstraintSet(c)
             \/ \E m \in superseding : MarkSuperseded(m[1], m[2])
      PROVE  records'[p] = records[p] \/ Marked(p)
  BY <1>1, <1>5 DEF RegisterConstraintSet, MarkSuperseded
<1>6. ASSUME \/ \E s \in Subject : SourceChange(s)
             \/ UNCHANGED vars
      PROVE  records'[p] = records[p]
  BY <1>6 DEF SourceChange, runtime, vars
<1>7. QED  BY <1>2, <1>3, <1>4, <1>5, <1>6 DEF Next

LEMMA StoredProperties ==
    ASSUME TypeOK, NEW p \in Path, Stored(p)
    PROVE  /\ records'[p].generation = records[p].generation + 1
           /\ records'[p].digest = DigestOf(records'[p])
           /\ \E t \in Thread :
                 /\ AcceptCommit(t)
                 /\ PathIn(t) = p
                 /\ records'[p].state = state_for_outcome(records'[p].outcome)
                 /\ records'[p].definition = op[t].definition
                 /\ records'[p].evidence = op[t].evidence
                 /\ records'[p].outcome = PrimaryOutcome(op[t].definition, op[t].evidence,
                                                         op[t].existing_authorized)
<1>1. PICK t \in Thread : AcceptCommit(t) /\ PathIn(t) = p /\ records'[p] = Committed(t)
  BY DEF Stored
<1>2. can_advance(RecordIn(t).generation) /\ RecordIn(t) = records[p]
  BY <1>1 DEF AcceptCommit, RecordIn
<1>3. QED  BY <1>1, <1>2, CommittedProperties

LEMMA WithdrawnProperties ==
    ASSUME TypeOK, NEW p \in Path, Withdrawn(p)
    PROVE  /\ records'[p].generation = records[p].generation + 1
           /\ records'[p].state \notin AuthorizingState
           /\ records'[p].definition = records[p].definition
           /\ records'[p].evidence = records[p].evidence
           /\ records'[p].digest = DigestOf(records'[p])
<1>1. records[p] \in Record
  BY DEF TypeOK
<1>2. QED  BY <1>1, RevokedProperties, RetiredProperties DEF Withdrawn, AuthorizingState

\* A record that is authority after a step was stored by it or is unchanged.
LEMMA AuthorityStep ==
    ASSUME TypeOK, [Next]_vars, NEW p \in Path, Authorizing(p)'
    PROVE  records'[p] = records[p] \/ Stored(p)
<1>1. records[p] \in Record
  BY DEF TypeOK
<1>2. ASSUME Marked(p) PROVE records'[p] = records[p]
  BY <1>1, <1>2, MarkProperties DEF Marked, Authorizing, AuthorizingState
<1>3. QED  BY <1>2, RecordStep, WithdrawnProperties DEF Authorizing

-----------------------------------------------------------------------------
(* Decisions, digests and generations.                                     *)

\* The stored digest always is the digest of the stored decision, whatever
\* committed, marked, revoked or retired the path.
THEOREM DigestAlwaysBinds == Spec => []DigestBindsRecord
<1>1. Init => DigestBindsRecord
  <2>1. Absent.digest = DigestOf(Absent)
    BY DEF Absent, DigestOf
  <2>2. QED  BY <2>1 DEF Init, DigestBindsRecord
<1>2. TypeOK /\ DigestBindsRecord /\ [Next]_vars => DigestBindsRecord'
  <2> SUFFICES ASSUME TypeOK, DigestBindsRecord, [Next]_vars, NEW p \in Path
               PROVE  records'[p].digest
                        = DigestOf(records'[p])
    BY DEF DigestBindsRecord
  <2>1. records[p] \in Record
    BY DEF TypeOK
  <2>2. CASE Marked(p)
    BY <2>1, <2>2, MarkProperties DEF Marked, DigestBindsRecord
  <2>3. CASE records'[p] = records[p]
    BY <2>3 DEF DigestBindsRecord
  <2>4. QED  BY <2>2, <2>3, RecordStep, StoredProperties, WithdrawnProperties
<1>3. QED  BY <1>1, <1>2, TypeCorrect, PTL DEF Spec

\* The decision of a path never changes under a generation: each step that changes
\* it takes exactly the next one.
THEOREM GenerationIsDecision == Spec => GenerationStandsForDecision
<1>1. TypeOK /\ [Next]_vars =>
        [\A p \in Path :
          \/ records'[p].generation = records[p].generation + 1
          \/ /\ records'[p].generation = records[p].generation
             /\ records'[p].digest = records[p].digest]_records
  <2> SUFFICES ASSUME TypeOK, [Next]_vars, NEW p \in Path
               PROVE  \/ records'[p].generation = records[p].generation + 1
                      \/ /\ records'[p].generation = records[p].generation
                         /\ records'[p].digest = records[p].digest
    OBVIOUS
  <2>1. records[p] \in Record
    BY DEF TypeOK
  <2>2. CASE Marked(p)
    BY <2>1, <2>2, MarkProperties DEF Marked
  <2>3. QED  BY <2>2, RecordStep, StoredProperties, WithdrawnProperties
<1>2. QED  BY <1>1, TypeCorrect, PTL DEF Spec, GenerationStandsForDecision

LEMMA AuthorizingOutcome ==
    ASSUME NEW d \in Definition, NEW e, NEW b \in BOOLEAN,
           state_for_outcome(PrimaryOutcome(d, e, b)) \in AuthorizingState
    PROVE  PrimaryOutcome(d, e, b) = PrimaryOutcome(d, e, TRUE)
<1>1. HardViolations(d, e, b) = {}
  <2>1. PrimaryOutcome(d, e, b) \in {"AUTHORIZED", "CONDITIONALLY_AUTHORIZED"}
    BY StateForOutcomeType
  <2>2. HardViolations(d, e, b) # {} => PrimaryOutcome(d, e, b) = "HARD_FAILURE"
    BY DEF PrimaryOutcome
  <2>3. QED  BY <2>1, <2>2
<1>2. HardViolations(d, e, TRUE) \subseteq HardViolations(d, e, b)
  BY DEF HardViolations
<1>3. QED  BY <1>1, <1>2 DEF PrimaryOutcome

\* Live authority always carries the outcome its own evidence gives, and that
\* outcome has no hard violation.
THEOREM AuthorityAlwaysJustified == Spec => []AuthorityJustified
<1>1. Init => AuthorityJustified
  BY DEF Init, AuthorityJustified, Authorizing, AuthorizingState, Absent
<1>2. TypeOK /\ AuthorityJustified /\ [Next]_vars => AuthorityJustified'
  <2> SUFFICES ASSUME TypeOK, AuthorityJustified, [Next]_vars, NEW p \in Path, Authorizing(p)'
               PROVE  records'[p].outcome
                        = PrimaryOutcome(records'[p].definition, records'[p].evidence, TRUE)
    BY DEF AuthorityJustified
  <2>1. CASE records'[p] = records[p]
    BY <2>1 DEF AuthorityJustified, Authorizing
  <2>2. CASE Stored(p)
    <3>1. PICK t \in Thread :
            /\ records'[p].state = state_for_outcome(records'[p].outcome)
            /\ records'[p].definition = op[t].definition
            /\ records'[p].evidence = op[t].evidence
            /\ records'[p].outcome = PrimaryOutcome(op[t].definition, op[t].evidence,
                                                    op[t].existing_authorized)
      BY <2>2, StoredProperties
    <3>2. op[t].existing_authorized \in BOOLEAN /\ op[t].definition \in Definition
      BY DEF TypeOK, Call
    <3>3. QED  BY <3>1, <3>2, AuthorizingOutcome DEF Authorizing
  <2>3. QED  BY <2>1, <2>2, AuthorityStep
<1>3. QED  BY <1>1, <1>2, TypeCorrect, PTL DEF Spec

-----------------------------------------------------------------------------
(* Compare-and-set calls.                                                  *)

LEMMA GenerationGrows ==
    ASSUME TypeOK, [Next]_vars, NEW p \in Path
    PROVE  /\ records[p].generation \in Nat /\ records'[p].generation \in Nat
           /\ records'[p].generation >= records[p].generation
           /\ \/ records'[p].generation > records[p].generation
              \/ /\ records'[p].revocation = records[p].revocation
                 /\ records'[p].retired = records[p].retired
<1>1. records[p] \in Record /\ records[p].generation \in Nat
  <2>1. records[p] \in Record
    BY DEF TypeOK
  <2>2. records[p].generation \in Generation
    BY <2>1 DEF Record
  <2>3. QED  BY <2>1, <2>2, ConstantsAssumption DEF Generation
<1>2. CASE Marked(p)
  BY <1>1, <1>2, MarkProperties DEF Marked
<1>3. CASE records'[p] = records[p]
  BY <1>1, <1>3
<1>4. QED  BY <1>1, <1>2, <1>3, RecordStep, StoredProperties, WithdrawnProperties

\* What a step does to a call: it starts it, takes it on, or leaves it alone.
Started(t) == /\ op'[t].pc = "epoch" /\ op'[t].definition \in Definition
              /\ op'[t].expected \in Expectations(PathOf[op'[t].definition])
              /\ records' = records

Continued(t) ==
    /\ op[t].pc # "idle" /\ records' = records
    /\ op'[t].definition = op[t].definition /\ op'[t].expected = op[t].expected
    /\ \/ op[t].pc = "epoch" /\ op'[t].pc = "constraints"
       \/ /\ op[t].pc = "constraints" /\ op'[t].pc = AfterConstraints(t)
          /\ constraint_sets[SetOf[op[t].definition]] = BoundTo[op[t].definition]
       \/ op[t].pc = "attempt" /\ op'[t].pc = AfterAttempt(t)
       \/ /\ op[t].pc = "existing" /\ op'[t].pc = AfterExisting(t)
          /\ ~Revoked(PathIn(t)) /\ ~RecordIn(t).retired
       \/ op[t].pc = "evidence" /\ op'[t].pc \in {"evidence", "commit"}

LEMMA IdleFacts == Idle.pc = "idle"
BY DEF Idle

LEMMA BeginStep ==
    ASSUME TypeOK, NEW t \in Thread, Begin(t), NEW u \in Thread
    PROVE  op'[u] = op[u] \/ Started(u)
<1>1. PICK d \in Definition, a \in Attempt \cup {NoAttempt}, w \in Worker :
         \E expected \in Expectations(PathOf[d]) :
            \/ BeginEvaluate(t, d, a, w, expected)
            \/ BeginPublish(t, d, a, w, expected)
  BY DEF Begin
<1>2. PICK expected \in Expectations(PathOf[d]) :
            \/ BeginEvaluate(t, d, a, w, expected)
            \/ BeginPublish(t, d, a, w, expected)
  BY <1>1
<1>3. records' = records
  BY <1>2 DEF BeginEvaluate, BeginPublish, runtime
<1>4. CASE u # t
  BY <1>2, <1>4 DEF BeginEvaluate, BeginPublish, TypeOK
<1>5. CASE u = t
  <2>1. PICK call : /\ op' = [op EXCEPT ![t] = call]
                    /\ call.definition = d /\ call.pc = "epoch" /\ call.expected = expected
    <3>1. CASE BeginEvaluate(t, d, a, w, expected)
      <4> DEFINE call == [Idle EXCEPT !.pc = "epoch", !.definition = d, !.attempt = a,
                                      !.worker = w, !.expected = expected,
                                      !.evidence["POLICY"] = sources["POLICY"]]
      <4>1. op' = [op EXCEPT ![t] = call]
        BY <3>1 DEF BeginEvaluate
      <4>2. call.definition = d /\ call.pc = "epoch" /\ call.expected = expected
        BY IdleType DEF Call
      <4> HIDE DEF call
      <4>3. QED  BY <4>1, <4>2
    <3>2. CASE BeginPublish(t, d, a, w, expected)
      <4>1. PICK existing_authorized, evidence :
              op' = [op EXCEPT ![t] = [Idle EXCEPT !.pc = "epoch", !.definition = d, !.attempt = a,
                                                   !.worker = w, !.expected = expected,
                                                   !.evidence = evidence,
                                                   !.existing_authorized = existing_authorized]]
        BY <3>2 DEF BeginPublish
      <4> DEFINE call == [Idle EXCEPT !.pc = "epoch", !.definition = d, !.attempt = a,
                                      !.worker = w, !.expected = expected,
                                      !.evidence = evidence,
                                      !.existing_authorized = existing_authorized]
      <4>2. call.definition = d /\ call.pc = "epoch" /\ call.expected = expected
        BY IdleType DEF Call
      <4>3. op' = [op EXCEPT ![t] = call]
        BY <4>1
      <4> HIDE DEF call
      <4>4. QED  BY <4>2, <4>3
    <3>3. QED  BY <1>2, <3>1, <3>2
  <2>2. QED  BY <1>2, <1>3, <1>5, <2>1 DEF Started, TypeOK
<1>6. QED  BY <1>4, <1>5

LEMMA ProceedStep ==
    ASSUME TypeOK, NEW t \in Thread, Proceed(t), NEW u \in Thread
    PROVE  op'[u] = op[u] \/ op'[u].pc = "idle" \/ Continued(u)
<1>1. op \in [Thread -> Call] /\ op[t] \in Call
  BY DEF TypeOK
<1>2. ASSUME Return(t) PROVE op'[u] = op[u] \/ op'[u].pc = "idle"
  BY <1>1, <1>2, IdleFacts DEF Return
<1>3. ASSUME NEW pc, Goto(t, pc)
      PROVE  \/ op'[u] = op[u]
             \/ /\ u = t /\ op'[t].pc = pc
                /\ op'[t].definition = op[t].definition /\ op'[t].expected = op[t].expected
  BY <1>1, <1>3 DEF Goto, Call
<1>4. CASE ReadEpoch(t)
  <2>1. CASE op' = [op EXCEPT ![t].pc = "constraints", ![t].evidence["EPOCH"] = sources["EPOCH"]]
    <3>1. \/ op'[u] = op[u]
          \/ /\ u = t /\ op'[t].pc = "constraints"
             /\ op'[t].definition = op[t].definition /\ op'[t].expected = op[t].expected
      BY <1>1, <2>1 DEF Call
    <3>2. QED  BY <1>4, <3>1 DEF ReadEpoch, Continued, runtime
  <2>2. CASE Goto(t, "constraints")
    BY <1>3, <1>4, <2>2 DEF ReadEpoch, Continued, runtime
  <2>3. QED  BY <1>2, <1>4, <2>1, <2>2 DEF ReadEpoch
<1>5. CASE CheckConstraints(t)
  BY <1>2, <1>3, <1>5 DEF CheckConstraints, Continued, runtime
<1>6. CASE CheckAttempt(t)
  BY <1>2, <1>3, <1>6 DEF CheckAttempt, Continued, runtime
<1>7. CASE CheckExisting(t)
  <2>1. PICK b : \/ Return(t)
                 \/ /\ op' = [op EXCEPT ![t].pc = AfterExisting(t),
                                        ![t].existing_authorized = b]
                    /\ ~Revoked(PathIn(t)) /\ ~RecordIn(t).retired
    BY <1>7 DEF CheckExisting, Revoked, RecordIn
  <2>2. CASE op' = [op EXCEPT ![t].pc = AfterExisting(t), ![t].existing_authorized = b]
    <3>1. \/ op'[u] = op[u]
          \/ /\ u = t /\ op'[t].pc = AfterExisting(t)
             /\ op'[t].definition = op[t].definition /\ op'[t].expected = op[t].expected
      BY <1>1, <2>2 DEF Call
    <3>2. QED  BY <1>2, <1>7, <2>1, <3>1 DEF CheckExisting, Continued, runtime
  <2>3. QED  BY <1>2, <2>1, <2>2
<1>8. ASSUME NEW s \in Subject, ReadEvidence(t, s)
      PROVE  op'[u] = op[u] \/ Continued(u)
  <2>1. PICK pc \in {"evidence", "commit"} :
            op' = [op EXCEPT ![t].evidence[s] = sources[s], ![t].pc = pc]
    BY <1>8 DEF ReadEvidence
  <2>2. \/ op'[u] = op[u]
        \/ /\ u = t /\ op'[t].pc = pc
           /\ op'[t].definition = op[t].definition /\ op'[t].expected = op[t].expected
    BY <1>1, <2>1 DEF Call
  <2>3. QED  BY <1>8, <2>2 DEF ReadEvidence, Continued, runtime
<1>9. CASE RejectCommit(t) \/ ReplayCommit(t) \/ ExhaustedCommit(t) \/ AcceptCommit(t)
  BY <1>2, <1>9 DEF RejectCommit, ReplayCommit, ExhaustedCommit, AcceptCommit
<1>10. QED  BY <1>4, <1>5, <1>6, <1>7, <1>8, <1>9 DEF Proceed

LEMMA CallStep ==
    ASSUME TypeOK, [Next]_vars, NEW t \in Thread
    PROVE  op'[t] = op[t] \/ op'[t].pc = "idle" \/ Started(t) \/ Continued(t)
<1>1. CASE \/ Withdraw
           \/ \E c \in ConstraintSet : RegisterConstraintSet(c)
           \/ \E m \in superseding : MarkSuperseded(m[1], m[2])
           \/ \E s \in Subject : SourceChange(s)
           \/ UNCHANGED vars
  BY <1>1 DEF Withdraw, Revoke, Retire, InvalidateScalar, InvalidateDependents, Invalidate,
              InvalidateConstraints, InvalidatePublisher, RegisterConstraintSet,
              MarkSuperseded, SourceChange, vars
<1>2. QED  BY <1>1, BeginStep, ProceedStep DEF Next

\* A publication reads no evidence view.
EvidenceReaders == \A t \in Thread : op[t].pc = "evidence" => t \in Evaluator

Withheld(t) == IF t \in Evaluator THEN {"evidence", "commit"} ELSE {"attempt", "commit"}

LEMMA ContinuedWithheld ==
    ASSUME EvidenceReaders, NEW t \in Thread, Continued(t), op'[t].pc \in Withheld(t)
    PROVE  \/ op[t].pc \in Withheld(t)
           \/ ~Revoked(PathIn(t)) /\ ~RecordIn(t).retired
BY DEF EvidenceReaders, Continued, Withheld, AfterConstraints, AfterAttempt, AfterExisting

ExpectationInv ==
    TypeOK /\ EvidenceReaders /\ ExpectationNotAhead /\ WithdrawalDefeatsExpectation

LEMMA ExpectationInvariant == Spec => []ExpectationInv
<1>1. Init => EvidenceReaders /\ ExpectationNotAhead /\ WithdrawalDefeatsExpectation
  BY IdleFacts DEF Init, EvidenceReaders, ExpectationNotAhead, WithdrawalDefeatsExpectation
<1>2. ExpectationInv /\ [Next]_vars => EvidenceReaders'
  <2> SUFFICES ASSUME ExpectationInv, [Next]_vars, NEW t \in Thread, op'[t].pc = "evidence"
               PROVE  t \in Evaluator
    BY DEF EvidenceReaders
  <2>1. CASE Continued(t)
    BY <2>1 DEF Continued, AfterConstraints, AfterAttempt, AfterExisting, ExpectationInv,
                EvidenceReaders
  <2>2. QED  BY <2>1, CallStep DEF Started, ExpectationInv, EvidenceReaders
<1>3. ExpectationInv /\ [Next]_vars => ExpectationNotAhead' /\ WithdrawalDefeatsExpectation'
  <2> SUFFICES ASSUME ExpectationInv, [Next]_vars, NEW t \in Thread,
                      op'[t].pc # "idle", op'[t].expected # NoExpectation
               PROVE  LET r == records'[PathOf[op'[t].definition]] IN
                      /\ op'[t].expected <= r.generation
                      /\ op'[t].pc \in Withheld(t)
                         /\ (r.revocation # NoRevocation \/ r.retired)
                         => op'[t].expected # r.generation
    BY DEF ExpectationNotAhead, WithdrawalDefeatsExpectation, Withheld, Revoked,
           EvidenceReaders, PathIn, RecordIn
  <2>1. TypeOK /\ op[t] \in Call /\ PathIn(t) \in Path
    BY DefinitionType DEF ExpectationInv, TypeOK, Call, PathIn
  <2>2. CASE Started(t)
    <3> DEFINE p == PathOf[op'[t].definition]
    <3>1. /\ op'[t].pc = "epoch" /\ op'[t].expected \in Expectations(p)
          /\ records' = records /\ p \in Path
      BY <2>2, DefinitionType DEF Started
    <3>2. records[p].generation \in Nat
      BY <2>1, <3>1, GenerationGrows
    <3>3. QED  BY <3>1, <3>2 DEF Expectations, Withheld
  <2>3. CASE op'[t] = op[t] \/ Continued(t)
    <3> DEFINE p == PathOf[op[t].definition]
    <3>1. /\ op'[t].definition = op[t].definition
          /\ op'[t].expected = op[t].expected /\ op[t].pc # "idle" /\ p \in Path
          /\ op[t].expected \in Nat
      BY <2>1, <2>3, ConstantsAssumption DEF Continued, Call, Generation, PathIn
    <3>2. op[t].expected <= records[p].generation
      BY <3>1 DEF ExpectationInv, ExpectationNotAhead, RecordIn, PathIn
    <3>3. /\ records[p].generation \in Nat /\ records'[p].generation \in Nat
          /\ records'[p].generation >= records[p].generation
          /\ \/ records'[p].generation > records[p].generation
             \/ /\ records'[p].revocation = records[p].revocation
                /\ records'[p].retired = records[p].retired
      BY <2>1, <3>1, GenerationGrows
    <3>4. ASSUME op'[t].pc \in Withheld(t),
                 records'[p].revocation # NoRevocation \/ records'[p].retired,
                 op[t].expected = records'[p].generation
          PROVE  FALSE
      <4>1. /\ records'[p].generation = records[p].generation
            /\ Revoked(p) \/ records[p].retired
        BY <3>2, <3>3, <3>4 DEF Revoked
      <4>2. op[t].pc \in Withheld(t)
        BY <2>3, <3>4, <4>1, ContinuedWithheld
           DEF ExpectationInv, Revoked, RecordIn, PathIn
      <4>3. QED
        BY <3>1, <3>4, <4>1, <4>2
           DEF ExpectationInv, WithdrawalDefeatsExpectation, Withheld, PathIn, Revoked
    <3>5. QED  BY <3>1, <3>2, <3>3, <3>4
  <2>4. QED  BY <2>1, <2>2, <2>3, CallStep
<1>4. QED  BY <1>1, <1>2, <1>3, TypeCorrect, PTL DEF Spec, ExpectationInv

\* A compare-and-set call that saw its path before it was revoked or retired
\* expects a generation the record has left for good.
THEOREM WithdrawalAlwaysDefeatsExpectation ==
    Spec => []WithdrawalDefeatsExpectation
<1>1. ExpectationInv => WithdrawalDefeatsExpectation
  BY DEF ExpectationInv
<1>2. QED  BY <1>1, ExpectationInvariant, PTL

-----------------------------------------------------------------------------
(* Invalidation.                                                           *)

LEMMA CallsLeave ==
    ASSUME TypeOK, NEW t \in Thread, Begin(t) \/ Proceed(t)
    PROVE  constraint_sets' = constraint_sets /\ watermarks' = watermarks
<1>1. CASE Begin(t)
  BY <1>1 DEF Begin, BeginEvaluate, BeginPublish, runtime
<1>2. CASE Proceed(t)
  BY <1>2, ReadsType DEF Proceed, RejectCommit, ReplayCommit, ExhaustedCommit,
                         AcceptCommit, runtime
<1>3. QED  BY <1>1, <1>2

LEMMA RegistryGrows ==
    ASSUME TypeOK, [Next]_vars, NEW c \in ConstraintSet
    PROVE  /\ constraint_sets[c] \in Nat /\ constraint_sets'[c] \in Nat
           /\ constraint_sets'[c] >= constraint_sets[c]
<1>1. constraint_sets[c] \in Nat
  BY DEF TypeOK
<1>2. CASE \E d \in ConstraintSet : RegisterConstraintSet(d)
  BY <1>1, <1>2 DEF RegisterConstraintSet, TypeOK
<1>3. ASSUME Withdraw PROVE constraint_sets' = constraint_sets
  BY <1>3 DEF Withdraw, Revoke, Retire, InvalidateScalar, InvalidateDependents,
                    Invalidate, InvalidateConstraints, InvalidatePublisher
<1>4. ASSUME \/ \E m \in superseding : MarkSuperseded(m[1], m[2])
             \/ \E s \in Subject : SourceChange(s)
             \/ UNCHANGED vars
      PROVE  constraint_sets' = constraint_sets
  BY <1>4 DEF MarkSuperseded, SourceChange, vars, runtime
<1>5. QED  BY <1>1, <1>2, <1>3, <1>4, CallsLeave DEF Next

\* A replaced constraint set stays replaced.
LEMMA SupersededStep ==
    ASSUME TypeOK, [Next]_vars, NEW d \in Definition, Registered(d),
           constraint_sets'[SetOf[d]] = BoundTo[d]
    PROVE  ~Replaced(d)
BY RegistryGrows, DefinitionType DEF Registered, Replaced

LEMMA RegisteredStep ==
    ASSUME TypeOK, [Next]_vars, NEW d \in Definition, Registered(d)
    PROVE  constraint_sets'[SetOf[d]] >= BoundTo[d]
BY RegistryGrows, DefinitionType DEF Registered

\* Only a commit changes what a record is bound to.
LEMMA DefinitionStep ==
    ASSUME TypeOK, [Next]_vars, NEW p \in Path, ~Stored(p)
    PROVE  /\ records[p].definition \in Definition
           /\ records'[p].definition = records[p].definition
           /\ records'[p].evidence = records[p].evidence
           /\ can_advance(records'[p].generation) => can_advance(records[p].generation)
<1>1. records[p] \in Record /\ records[p].definition \in Definition
  BY DEF TypeOK, Record
<1>2. CASE Marked(p)
  BY <1>1, <1>2, MarkProperties DEF Marked
<1>3. CASE records'[p] = records[p]
  BY <1>1, <1>3
<1>4. CASE Withdrawn(p)
  BY <1>1, <1>4, WithdrawnProperties DEF Withdrawn
<1>5. QED  BY <1>2, <1>3, <1>4, RecordStep

LEMMA PresentStep ==
    ASSUME TypeOK, [Next]_vars, NEW p \in Path, records'[p].generation # 0
    PROVE  Present(p) \/ Stored(p)
BY RecordStep DEF Marked, Withdrawn, Present

\* A commit binds evidence no watermark is above, and indexes what it binds.
LEMMA StoredInvalidation ==
    ASSUME TypeOK, RegistryNotBehind, NEW p \in Path, Stored(p)
    PROVE  LET d == records'[p].definition IN
           /\ constraint_sets'[SetOf[d]] >= BoundTo[d]
           /\ \A s \in Bound(d, records'[p].evidence["POLICY"]) :
                 /\ records'[p].evidence[s] >= watermarks'[s]
                 /\ /\ s \notin Scalar
                    /\ s \in Capability => constraint_sets'[SetOf[d]] = BoundTo[d]
                    => p \in index'[s]
<1>1. PICK t \in Thread : AcceptCommit(t) /\ PathIn(t) = p /\ records'[p] = Committed(t)
  BY DEF Stored
<1> DEFINE d == op[t].definition
           policy == op[t].evidence["POLICY"]
<1>2. can_advance(RecordIn(t).generation)
  BY <1>1 DEF AcceptCommit
<1>3. /\ records'[p].evidence = op[t].evidence /\ op[t].evidence \in Evidence
      /\ records'[p].definition = d /\ d \in Definition /\ PathOf[d] = p
      /\ constraint_sets' = constraint_sets /\ watermarks' = watermarks
      /\ index' = Reindexed(d, policy)
      /\ ~StaleEvidence(t)
      /\ constraint_sets[SetOf[d]] >= BoundTo[d]
  BY <1>1, <1>2, CommittedProperties
     DEF AcceptCommit, TypeOK, Call, CommitRejected, RegistryNotBehind, Registered, PathIn
<1>4. ASSUME NEW s \in Bound(d, policy)
      PROVE  records'[p].evidence[s] >= watermarks'[s]
  <2>1. s \in Subject /\ op[t].evidence[s] \in Nat /\ watermarks[s] \in Nat
    BY <1>3, BoundType DEF Evidence, TypeOK
  <2>2. QED  BY <1>3, <1>4, <2>1 DEF StaleEvidence
<1>5. ASSUME NEW s \in Bound(d, policy), s \notin Scalar,
             s \in Capability => constraint_sets'[SetOf[d]] = BoundTo[d]
      PROVE  p \in index'[s]
  <2>1. s \in Element \cup Capability
    BY <1>3, <1>5, BoundType DEF Subject
  <2>2. CASE s \in Uses[d]
    BY <1>3, <2>1, <2>2 DEF Reindexed, Dependencies
  <2>3. CASE s \in RequiredCapabilities(SetOf[d], BoundTo[d], policy)
    <3>1. s \in Capability
      BY <1>3, <2>3, DefinitionType, RequiredCapabilitiesType
    <3>2. constraint_sets[SetOf[d]] = BoundTo[d]
      BY <1>3, <1>5, <3>1
    <3>3. QED  BY <1>3, <2>1, <2>3, <3>2 DEF Reindexed, Dependencies
  <2>4. QED  BY <1>5, <2>2, <2>3 DEF Bound
<1>6. QED  BY <1>3, <1>4, <1>5

\* A path leaves the index only when its record is stored or can no longer change.
LEMMA IndexStep ==
    ASSUME TypeOK, [Next]_vars, NEW p \in Path, NEW s \in Element \cup Capability,
           p \in index[s], p \notin index'[s]
    PROVE  Stored(p) \/ ~can_advance(records'[p].generation)
<1>1. PICK t \in Thread : Proceed(t)
  BY ZenonT(60) DEF Next, Begin, BeginEvaluate, BeginPublish, Withdraw, Revoke, Retire, InvalidateScalar,
         InvalidateDependents, Invalidate, InvalidateConstraints, InvalidatePublisher,
         RegisterConstraintSet, MarkSuperseded, SourceChange, runtime, vars
<1>2. CASE AcceptCommit(t)
  <2>1. records' = [records EXCEPT ![PathIn(t)] = Committed(t)]
    BY <1>2 DEF AcceptCommit
  <2>2. PathIn(t) = p
    BY <1>2 DEF AcceptCommit, Reindexed, PathIn
  <2>3. QED  BY <1>2, <2>1, <2>2 DEF Stored, TypeOK
<1>3. CASE ExhaustedCommit(t)
  <2>1. PathIn(t) = p
    BY <1>3 DEF ExhaustedCommit, Unindexed, TypeOK
  <2>2. QED  BY <1>3, <2>1 DEF ExhaustedCommit, RecordIn
<1>4. CASE ~AcceptCommit(t) /\ ~ExhaustedCommit(t)
  BY <1>1, <1>4, ReadsType DEF Proceed, RejectCommit, ReplayCommit, runtime
<1>5. QED  BY <1>2, <1>3, <1>4

\* A notification raises a watermark above no authority it leaves in place.
LEMMA WatermarkStep ==
    ASSUME TypeOK, [Next]_vars, NEW p \in Path, NEW s \in Subject,
           watermarks'[s] # watermarks[s],
           Present(p), (s \notin Scalar) => (p \in index[s]),
           records'[p].state \in AuthorizingState, can_advance(records'[p].generation)
    PROVE  records'[p].evidence[s] = watermarks'[s]
<1>1. ~\E t \in Thread : Begin(t) \/ Proceed(t)
  BY CallsLeave
<1>2. PICK q \in Subject : \E g \in Announced(q) :
          InvalidateScalar(q, g) \/ InvalidateDependents(q, g)
  BY <1>1 DEF Next, Withdraw, Revoke, Retire, InvalidateConstraints, InvalidatePublisher,
              RegisterConstraintSet, MarkSuperseded, SourceChange, runtime, vars
<1>3. PICK g : InvalidateScalar(q, g) \/ InvalidateDependents(q, g)
  BY <1>2
<1>4. PICK candidates :
          /\ Invalidate(q, g, candidates)
          /\ q \in Scalar => candidates = Path
          /\ q \notin Scalar => candidates = index[q]
  <2>1. CASE InvalidateScalar(q, g)
    BY <2>1 DEF InvalidateScalar
  <2>2. CASE InvalidateDependents(q, g)
    BY <2>2, SubjectsAssumption DEF InvalidateDependents
  <2>3. QED  BY <1>3, <2>1, <2>2
<1>5. q = s /\ watermarks'[s] = g
  BY <1>4 DEF Invalidate, TypeOK
<1>6. p \in candidates /\ records[p] \in Record
  BY <1>4, <1>5 DEF TypeOK
<1>7. CASE records[p].evidence[s] # g
  <2>1. records'[p] = MarkRevalidationRequired(records[p])
    BY <1>4, <1>5, <1>6, <1>7 DEF Invalidate, MarkAll
  <2>2. QED  BY <1>6, <2>1, MarkProperties DEF AuthorizingState
<1>8. CASE records[p].evidence[s] = g
  BY <1>4, <1>5, <1>8 DEF Invalidate, MarkAll
<1>9. QED  BY <1>7, <1>8

LEMMA AuthorityIsStoredStep ==
    ASSUME TypeOK, AuthorityIsStored, [Next]_vars
    PROVE  AuthorityIsStored'
<1> SUFFICES ASSUME NEW p \in Path, records'[p].state \in AuthorizingState
             PROVE  records'[p].generation # 0
  BY DEF AuthorityIsStored, Authorizing, Present
<1>1. CASE records'[p] = records[p]
  BY <1>1 DEF AuthorityIsStored, Authorizing, Present
<1>2. CASE Stored(p)
  BY <1>2, GenerationGrows, StoredProperties
<1>3. QED  BY <1>1, <1>2, AuthorityStep DEF Authorizing

LEMMA RegistryNotBehindStep ==
    ASSUME TypeOK, RegistryNotBehind, [Next]_vars
    PROVE  RegistryNotBehind'
<1>1. ASSUME NEW p \in Path, records'[p].generation # 0
      PROVE  constraint_sets'[SetOf[records'[p].definition]] >= BoundTo[records'[p].definition]
  <2>1. CASE ~Stored(p)
    <3>1. Present(p)
      BY <1>1, <2>1, PresentStep
    <3>2. records'[p].definition = records[p].definition /\ records[p].definition \in Definition
      BY <2>1, DefinitionStep
    <3>3. QED  BY <3>1, <3>2, RegisteredStep DEF RegistryNotBehind
  <2>2. QED  BY <2>1, StoredInvalidation
<1>2. ASSUME NEW t \in Thread,
             op'[t].pc \in {"attempt", "existing", "evidence", "commit"}
      PROVE  constraint_sets'[SetOf[op'[t].definition]] >= BoundTo[op'[t].definition]
  <2>1. op[t] \in Call /\ op[t].definition \in Definition
    BY DEF TypeOK, Call
  <2>2. SUFFICES op'[t].definition = op[t].definition /\ Registered(op[t].definition)
    BY <2>1, RegisteredStep
  <2>3. CASE op'[t] = op[t]
    BY <1>2, <2>3 DEF RegistryNotBehind
  <2>4. CASE Continued(t)
    <3>1. constraint_sets[SetOf[op[t].definition]] = BoundTo[op[t].definition]
              => Registered(op[t].definition)
      BY <2>1, DefinitionType DEF Registered
    <3>2. QED  BY <1>2, <2>4, <3>1 DEF Continued, RegistryNotBehind
  <2>5. QED  BY <1>2, <2>3, <2>4, CallStep DEF Started
<1>3. QED  BY <1>1, <1>2 DEF RegistryNotBehind, Registered, Present

LEMMA IndexCoversStep ==
    ASSUME TypeOK, RegistryNotBehind, IndexCovers, [Next]_vars
    PROVE  IndexCovers'
<1> SUFFICES ASSUME NEW p \in Path, records'[p].generation # 0,
                    can_advance(records'[p].generation),
                    NEW s \in Bound(records'[p].definition,
                                    records'[p].evidence["POLICY"]) \ Scalar,
                    s \in Capability => constraint_sets'[SetOf[records'[p].definition]]
                                            = BoundTo[records'[p].definition]
             PROVE  p \in index'[s]
  BY DEF IndexCovers, Present, Superseded, Replaced
<1>1. CASE Stored(p)
  BY <1>1, StoredInvalidation
<1>2. CASE ~Stored(p)
  <2>1. Present(p) /\ Registered(records[p].definition)
    BY <1>2, PresentStep DEF RegistryNotBehind
  <2>2. /\ records'[p].definition = records[p].definition
        /\ records'[p].evidence = records[p].evidence
        /\ records[p].definition \in Definition
        /\ can_advance(records[p].generation)
    BY <1>2, DefinitionStep
  <2>3. s \in Capability => ~Superseded(p)
    BY <2>1, <2>2, SupersededStep DEF Superseded
  <2>4. s \in Element \cup Capability
    BY <2>2, BoundType DEF Subject
  <2>5. p \in index[s]
    BY <2>1, <2>2, <2>3 DEF IndexCovers
  <2>6. QED  BY <1>2, <2>4, <2>5, IndexStep
<1>3. QED  BY <1>1, <1>2

LEMMA AboveWatermarksStep ==
    ASSUME InvalidationInv, [Next]_vars
    PROVE  AuthorityAboveWatermarks'
<1>1. TypeOK /\ RegistryNotBehind
  BY DEF InvalidationInv
<1> SUFFICES ASSUME NEW p \in Path, records'[p].state \in AuthorizingState,
                    can_advance(records'[p].generation),
                    NEW s \in Bound(records'[p].definition, records'[p].evidence["POLICY"]),
                    s \in Capability => constraint_sets'[SetOf[records'[p].definition]]
                                            = BoundTo[records'[p].definition]
             PROVE  records'[p].evidence[s] >= watermarks'[s]
  BY DEF AuthorityAboveWatermarks, Authorizing, Superseded, Replaced
<1>2. CASE Stored(p)
  BY <1>1, <1>2, StoredInvalidation
<1>3. CASE records'[p] = records[p]
  <2>1. Authorizing(p) /\ Present(p) /\ can_advance(records[p].generation)
    BY <1>3 DEF Authorizing, InvalidationInv, AuthorityIsStored
  <2>2. records[p].definition \in Definition
    BY <1>1 DEF TypeOK, Record
  <2>3. s \in Capability => ~Superseded(p)
    BY <1>1, <1>3, <2>1, <2>2, SupersededStep DEF RegistryNotBehind, Superseded
  <2>4. s \in Bound(records[p].definition, records[p].evidence["POLICY"])
    BY <1>3
  <2>5. records[p].evidence[s] >= watermarks[s]
    BY <2>1, <2>3, <2>4 DEF InvalidationInv, AuthorityAboveWatermarks
  <2>6. (s \notin Scalar) => (p \in index[s])
    BY <2>1, <2>3, <2>4 DEF InvalidationInv, IndexCovers
  <2>7. s \in Subject
    BY <2>2, <2>4, BoundType
  <2>8. CASE watermarks'[s] # watermarks[s]
    <3>1. records'[p].evidence[s] = watermarks'[s]
      BY <1>1, <2>1, <2>6, <2>7, <2>8, WatermarkStep
    <3>2. records[p].evidence[s] \in Nat
      BY <1>1, <2>7 DEF TypeOK, Record, Evidence
    <3>3. QED  BY <1>3, <3>1, <3>2
  <2>9. QED  BY <1>3, <2>5, <2>8
<1>4. QED  BY <1>1, <1>2, <1>3, AuthorityStep DEF Authorizing

LEMMA InvalidationInvariant == Spec => []InvalidationInv
<1>1. Init => InvalidationInv
  <2> SUFFICES ASSUME Init PROVE InvalidationInv
    OBVIOUS
  <2>1. \A p \in Path : ~Present(p) /\ ~Authorizing(p)
    BY DEF Init, Present, Authorizing, AuthorizingState, Absent
  <2>2. \A t \in Thread : op[t].pc = "idle"
    BY IdleFacts DEF Init
  <2>3. QED
    BY <2>1, <2>2, InitType
       DEF InvalidationInv, AuthorityIsStored, RegistryNotBehind, IndexCovers,
           AuthorityAboveWatermarks
<1>2. InvalidationInv /\ [Next]_vars => InvalidationInv'
  BY NextType, AuthorityIsStoredStep, RegistryNotBehindStep, IndexCoversStep,
     AboveWatermarksStep DEF InvalidationInv
<1>3. QED  BY <1>1, <1>2, PTL DEF Spec

\* The reverse index always holds every dependent of every element and capability.
THEOREM IndexAlwaysCovers == Spec => []IndexCovers
<1>1. InvalidationInv => IndexCovers
  BY DEF InvalidationInv
<1>2. QED  BY <1>1, InvalidationInvariant, PTL

\* In every interleaving of evaluations, publications, notifications, withdrawals
\* and registrations, live authority rests on no invalidated evidence.
THEOREM AuthorityAlwaysAboveWatermarks == Spec => []AuthorityAboveWatermarks
<1>1. InvalidationInv => AuthorityAboveWatermarks
  BY DEF InvalidationInv
<1>2. QED  BY <1>1, InvalidationInvariant, PTL

-----------------------------------------------------------------------------
(* The steps of a call, with all it holds.                                 *)

EpochRead(t) ==
    /\ op[t].pc = "epoch"
    /\ op'[t] = [op[t] EXCEPT !.pc = "constraints",
                              !.evidence = [@ EXCEPT !["EPOCH"] = sources["EPOCH"]]]

ConstraintsChecked(t) ==
    /\ op[t].pc = "constraints" /\ ~Replaced(op[t].definition)
    /\ op'[t] = [op[t] EXCEPT !.pc = AfterConstraints(t)]

AttemptChecked(t) ==
    /\ op[t].pc = "attempt"
    /\ op[t].attempt # NoAttempt =>
          attempts[op[t].attempt] \in {NoInput, InputDigest(op[t].definition, op[t].evidence)}
    /\ op'[t] = [op[t] EXCEPT !.pc = AfterAttempt(t)]

ExistingChecked(t) ==
    /\ op[t].pc = "existing" /\ ~Revoked(PathIn(t))
    /\ \E b \in BOOLEAN :
          /\ (t \in Evaluator /\ b) => is_authorizing_outcome(RecordIn(t).outcome)
          /\ op'[t] = [op[t] EXCEPT !.pc = AfterExisting(t), !.existing_authorized = b]

EvidenceRead(t) ==
    /\ op[t].pc = "evidence"
    /\ \E s \in Unread(t), pc \in {"evidence", "commit"} :
          op'[t] = [op[t] EXCEPT !.pc = pc, !.evidence = [@ EXCEPT ![s] = sources[s]]]

Read(t) ==
    \/ EpochRead(t) \/ ConstraintsChecked(t) \/ AttemptChecked(t)
    \/ ExistingChecked(t) \/ EvidenceRead(t)

LEMMA CallReads ==
    ASSUME TypeOK, NEW t \in Thread, Proceed(t)
    PROVE  /\ op'[t] = Idle \/ (Read(t) /\ UNCHANGED <<runtime, superseding, sources>>)
           /\ \A u \in Thread \ {t} : op'[u] = op[u]
<1>1. op \in [Thread -> Call] /\ op[t] \in Call /\ op[t].evidence \in Evidence
  BY DEF TypeOK, Call
<1>2. ASSUME Return(t)
      PROVE  op'[t] = Idle /\ \A u \in Thread \ {t} : op'[u] = op[u]
  BY <1>1, <1>2 DEF Return
<1>3. ASSUME NEW call, op' = [op EXCEPT ![t] = call]
      PROVE  op'[t] = call /\ \A u \in Thread \ {t} : op'[u] = op[u]
  BY <1>1, <1>3
<1>4. CASE ReadEpoch(t)
  <2>1. CASE t \in Evaluator
             /\ op' = [op EXCEPT ![t].pc = "constraints", ![t].evidence["EPOCH"] = sources["EPOCH"]]
    <3>1. op' = [op EXCEPT ![t] = [op[t] EXCEPT !.pc = "constraints",
                                     !.evidence = [@ EXCEPT !["EPOCH"] = sources["EPOCH"]]]]
      BY <1>1, <2>1 DEF Call
    <3>2. QED  BY <1>3, <1>4, <3>1 DEF ReadEpoch, EpochRead, Read
  <2>2. CASE Goto(t, "constraints") /\ op[t].evidence["EPOCH"] = sources["EPOCH"]
    <3>1. [op[t].evidence EXCEPT !["EPOCH"] = sources["EPOCH"]] = op[t].evidence
      BY <1>1, <2>2 DEF Evidence
    <3>2. op' = [op EXCEPT ![t] = [op[t] EXCEPT !.pc = "constraints",
                                     !.evidence = [@ EXCEPT !["EPOCH"] = sources["EPOCH"]]]]
      BY <1>1, <2>2, <3>1 DEF Goto, Call
    <3>3. QED  BY <1>3, <1>4, <3>2 DEF ReadEpoch, EpochRead, Read
  <2>3. QED  BY <1>2, <1>4, <2>1, <2>2 DEF ReadEpoch
<1>5. CASE CheckConstraints(t)
  <2>1. CASE Return(t)
    BY <1>2, <2>1
  <2>2. CASE Goto(t, AfterConstraints(t)) /\ ~Replaced(op[t].definition)
    <3>1. op' = [op EXCEPT ![t] = [op[t] EXCEPT !.pc = AfterConstraints(t)]]
      BY <1>1, <2>2 DEF Goto
    <3>2. QED  BY <1>3, <1>5, <2>2, <3>1 DEF CheckConstraints, ConstraintsChecked, Read
  <2>3. QED  BY <1>5, <2>1, <2>2 DEF CheckConstraints, Replaced
<1>6. CASE CheckAttempt(t)
  <2>1. CASE Return(t)
    BY <1>2, <2>1
  <2>2. CASE ~Return(t)
    <3>1. op' = [op EXCEPT ![t] = [op[t] EXCEPT !.pc = AfterAttempt(t)]]
      BY <1>1, <1>6, <2>2 DEF CheckAttempt, Goto
    <3>2. QED  BY <1>3, <1>6, <2>2, <3>1 DEF CheckAttempt, AttemptChecked, Read
  <2>3. QED  BY <2>1, <2>2
<1>7. CASE CheckExisting(t)
  <2>1. CASE Return(t)
    BY <1>2, <2>1
  <2>2. CASE ~Return(t)
    <3> DEFINE b == IF t \in Evaluator
                    THEN Present(PathIn(t)) /\ is_authorizing_outcome(RecordIn(t).outcome)
                    ELSE op[t].existing_authorized
    <3>1. b \in BOOLEAN /\ ((t \in Evaluator /\ b) => is_authorizing_outcome(RecordIn(t).outcome))
      BY <1>1 DEF Call, Present, is_authorizing_outcome
    <3>2. op' = [op EXCEPT ![t] = [op[t] EXCEPT !.pc = AfterExisting(t), !.existing_authorized = b]]
      BY <1>1, <1>7, <2>2 DEF CheckExisting
    <3>3. op[t].pc = "existing" /\ ~Revoked(PathIn(t)) /\ UNCHANGED <<runtime, superseding, sources>>
      BY <1>7, <2>2 DEF CheckExisting, Revoked, RecordIn
    <3> HIDE DEF b
    <3>4. QED  BY <1>3, <3>1, <3>2, <3>3 DEF ExistingChecked, Read
  <2>3. QED  BY <2>1, <2>2
<1>8. CASE \E s \in Subject : ReadEvidence(t, s)
  <2>1. PICK s \in Unread(t) : ReadEvidence(t, s)
    BY <1>8 DEF ReadEvidence
  <2>2. PICK pc \in {"evidence", "commit"} :
            op' = [op EXCEPT ![t].evidence[s] = sources[s], ![t].pc = pc]
    BY <2>1 DEF ReadEvidence
  <2>3. op' = [op EXCEPT ![t] = [op[t] EXCEPT !.pc = pc, !.evidence = [@ EXCEPT ![s] = sources[s]]]]
    BY <1>1, <2>2 DEF Call
  <2>4. QED  BY <1>3, <2>1, <2>3 DEF ReadEvidence, EvidenceRead, Read
<1>9. CASE RejectCommit(t) \/ ReplayCommit(t) \/ ExhaustedCommit(t) \/ AcceptCommit(t)
  BY <1>2, <1>9 DEF RejectCommit, ReplayCommit, ExhaustedCommit, AcceptCommit
<1>10. QED  BY <1>4, <1>5, <1>6, <1>7, <1>8, <1>9 DEF Proceed

\* A call starts out with the current policy and, when it is a publication, with
\* the evidence of its worker.
Begun(t) ==
    /\ op[t].pc = "idle" /\ op'[t].pc = "epoch"
    /\ op'[t].evidence["POLICY"] = sources["POLICY"]

LEMMA CallBegins ==
    ASSUME TypeOK, NEW t \in Thread, Begin(t)
    PROVE  /\ Begun(t) /\ UNCHANGED <<runtime, superseding, sources>>
           /\ \A u \in Thread \ {t} : op'[u] = op[u]
<1>1. PICK d \in Definition, a \in Attempt \cup {NoAttempt}, w \in Worker :
         \E expected \in Expectations(PathOf[d]) :
            \/ BeginEvaluate(t, d, a, w, expected)
            \/ BeginPublish(t, d, a, w, expected)
  BY DEF Begin
<1>2. PICK expected :
            \/ BeginEvaluate(t, d, a, w, expected)
            \/ BeginPublish(t, d, a, w, expected)
  BY <1>1
<1>3. op[t].pc = "idle" /\ UNCHANGED <<runtime, superseding, sources>>
  BY <1>2 DEF BeginEvaluate, BeginPublish
<1>4. PICK call : /\ op' = [op EXCEPT ![t] = call]
                  /\ call.pc = "epoch" /\ call.evidence["POLICY"] = sources["POLICY"]
  <2>1. CASE BeginEvaluate(t, d, a, w, expected)
    <3> DEFINE call == [Idle EXCEPT !.pc = "epoch", !.definition = d, !.attempt = a,
                                    !.worker = w, !.expected = expected,
                                    !.evidence["POLICY"] = sources["POLICY"]]
    <3>1. op' = [op EXCEPT ![t] = call]
      BY <2>1 DEF BeginEvaluate
    <3>2. call.pc = "epoch" /\ call.evidence["POLICY"] = sources["POLICY"]
      BY SubjectFacts, IdleType DEF Call, Evidence
    <3> HIDE DEF call
    <3>3. QED  BY <3>1, <3>2
  <2>2. CASE BeginPublish(t, d, a, w, expected)
    <3>1. PICK existing_authorized \in BOOLEAN, evidence \in WorkerEvidence(d, sources["POLICY"]) :
            op' = [op EXCEPT ![t] = [Idle EXCEPT !.pc = "epoch", !.definition = d, !.attempt = a,
                                                 !.worker = w, !.expected = expected,
                                                 !.evidence = evidence,
                                                 !.existing_authorized = existing_authorized]]
      BY <2>2 DEF BeginPublish
    <3> DEFINE call == [Idle EXCEPT !.pc = "epoch", !.definition = d, !.attempt = a,
                                    !.worker = w, !.expected = expected,
                                    !.evidence = evidence,
                                    !.existing_authorized = existing_authorized]
    <3>2. evidence["POLICY"] = sources["POLICY"]
      BY SubjectFacts DEF WorkerEvidence, Bound
    <3>3. call.pc = "epoch" /\ call.evidence = evidence
      BY IdleType DEF Call
    <3>4. op' = [op EXCEPT ![t] = call]
      BY <3>1
    <3> HIDE DEF call
    <3>5. QED  BY <3>2, <3>3, <3>4
  <2>3. QED  BY <1>2, <2>1, <2>2
<1>5. QED  BY <1>3, <1>4 DEF TypeOK, Begun

\* Nothing but a call of its own moves a thread.
LEMMA CallMoves ==
    ASSUME TypeOK, [Next]_vars, NEW t \in Thread
    PROVE  \/ op'[t] = op[t] \/ op'[t] = Idle
           \/ (Begun(t) \/ Read(t)) /\ UNCHANGED <<runtime, superseding, sources>>
<1>1. CASE \/ Withdraw
           \/ \E c \in ConstraintSet : RegisterConstraintSet(c)
           \/ \E m \in superseding : MarkSuperseded(m[1], m[2])
           \/ \E s \in Subject : SourceChange(s)
           \/ UNCHANGED vars
  BY <1>1 DEF Withdraw, Revoke, Retire, InvalidateScalar, InvalidateDependents, Invalidate,
              InvalidateConstraints, InvalidatePublisher, RegisterConstraintSet,
              MarkSuperseded, SourceChange, vars
<1>2. QED  BY <1>1, CallBegins, CallReads DEF Next

\* What a read leaves of the evidence a call has, and of the call.
LEMMA ReadProperties ==
    ASSUME TypeOK, NEW t \in Thread, Read(t)
    PROVE  /\ op'[t].definition = op[t].definition /\ op'[t].attempt = op[t].attempt
           /\ \/ EpochRead(t) /\ op'[t].pc = "constraints"
              \/ ConstraintsChecked(t) /\ op'[t].pc = AfterConstraints(t)
              \/ AttemptChecked(t) /\ op'[t].pc = AfterAttempt(t)
              \/ ExistingChecked(t) /\ op'[t].pc = AfterExisting(t)
              \/ EvidenceRead(t) /\ op'[t].pc \in {"evidence", "commit"}
           /\ ~ExistingChecked(t) => op'[t].existing_authorized = op[t].existing_authorized
           /\ \A s \in Subject :
                 \/ op'[t].evidence[s] = op[t].evidence[s]
                 \/ /\ op'[t].evidence[s] = sources[s]
                    /\ \/ op[t].pc = "epoch" /\ s = "EPOCH"
                       \/ op[t].pc = "evidence" /\ s \in Unread(t)
           /\ op[t].pc = "epoch" => op'[t].evidence["EPOCH"] = sources["EPOCH"]
<1>1. op[t] \in Call /\ op[t].evidence \in Evidence
  BY DEF TypeOK, Call
<1>2. CASE EpochRead(t)
  <2>1. /\ op'[t].evidence = [op[t].evidence EXCEPT !["EPOCH"] = sources["EPOCH"]]
        /\ op'[t].pc = "constraints" /\ op[t].pc = "epoch"
        /\ op'[t].definition = op[t].definition /\ op'[t].attempt = op[t].attempt
        /\ op'[t].existing_authorized = op[t].existing_authorized
    BY <1>1, <1>2 DEF EpochRead, Call
  <2>2. "EPOCH" \in Subject
    BY SubjectFacts
  <2>3. QED  BY <1>1, <1>2, <2>1, <2>2 DEF Evidence
<1>3. CASE ConstraintsChecked(t)
  BY <1>1, <1>3 DEF ConstraintsChecked, ExistingChecked, Call
<1>4. CASE AttemptChecked(t)
  BY <1>1, <1>4 DEF AttemptChecked, ExistingChecked, Call
<1>5. CASE ExistingChecked(t)
  <2>1. PICK b : op'[t] = [op[t] EXCEPT !.pc = AfterExisting(t), !.existing_authorized = b]
    BY <1>5 DEF ExistingChecked
  <2>2. QED  BY <1>1, <1>5, <2>1 DEF ExistingChecked, Call
<1>6. CASE EvidenceRead(t)
  <2>1. PICK s \in Unread(t), pc \in {"evidence", "commit"} :
            op'[t] = [op[t] EXCEPT !.pc = pc, !.evidence = [@ EXCEPT ![s] = sources[s]]]
    BY <1>6 DEF EvidenceRead
  <2>2. op'[t].evidence = [op[t].evidence EXCEPT ![s] = sources[s]] /\ op'[t].pc = pc
        /\ op'[t].definition = op[t].definition /\ op'[t].attempt = op[t].attempt
        /\ op'[t].existing_authorized = op[t].existing_authorized
    BY <1>1, <2>1 DEF Call
  <2>3. QED  BY <1>1, <1>6, <2>2 DEF EvidenceRead, ExistingChecked, Evidence
<1>7. QED  BY <1>2, <1>3, <1>4, <1>5, <1>6 DEF Read

-----------------------------------------------------------------------------
(* Scalar evidence: the epoch, the policy.                                 *)

LEMMA SourcesGrow ==
    ASSUME TypeOK, [Next]_vars, NEW s \in Subject
    PROVE  /\ sources[s] \in Nat /\ sources'[s] \in Nat
           /\ sources'[s] >= sources[s]
<1>1. sources[s] \in Nat
  BY DEF TypeOK
<1>2. CASE \E q \in Subject : SourceChange(q)
  BY <1>1, <1>2 DEF SourceChange, TypeOK
<1>3. ASSUME NEW t \in Thread, Begin(t) \/ Proceed(t) PROVE sources' = sources
  BY <1>3, CallBegins, ReadsType DEF Proceed, RejectCommit, ReplayCommit, ExhaustedCommit,
                                     AcceptCommit
<1>4. ASSUME \/ Withdraw
             \/ \E c \in ConstraintSet : RegisterConstraintSet(c)
             \/ \E m \in superseding : MarkSuperseded(m[1], m[2])
             \/ UNCHANGED vars
      PROVE  sources' = sources
  BY <1>4 DEF Withdraw, Revoke, Retire, InvalidateScalar, InvalidateDependents, Invalidate,
              InvalidateConstraints, InvalidatePublisher, RegisterConstraintSet,
              MarkSuperseded, vars
<1>5. QED  BY <1>1, <1>2, <1>3, <1>4 DEF Next

\* What keeps a commit from binding an epoch or a policy of the future: the calls
\* themselves have none, as soon as they have compared their epoch.
CallScalarsReached ==
    \A t \in Thread :
        /\ op[t].evidence["POLICY"] <= sources["POLICY"]
        /\ op[t].pc \notin {"idle", "epoch"} => op[t].evidence["EPOCH"] <= sources["EPOCH"]

ScalarsInv == TypeOK /\ CallScalarsReached /\ ScalarsReached

LEMMA ScalarsInvariant == Spec => []ScalarsInv
<1>0. "EPOCH" \in Subject /\ "POLICY" \in Subject /\ "EPOCH" # "POLICY"
  BY SubjectFacts
<1>1. Init => CallScalarsReached /\ ScalarsReached
  <2> SUFFICES ASSUME Init PROVE CallScalarsReached /\ ScalarsReached
    OBVIOUS
  <2>1. \A p \in Path : records[p].evidence = NoEvidence
    BY DEF Init, Absent
  <2>2. \A t \in Thread : op[t].evidence = NoEvidence /\ op[t].pc = "idle"
    BY DEF Init, Idle
  <2>3. \A s \in {"EPOCH", "POLICY"} : NoEvidence[s] = 0 /\ sources[s] = 1
    BY <1>0 DEF NoEvidence, Init
  <2>4. QED  BY <2>1, <2>2, <2>3 DEF CallScalarsReached, ScalarsReached
<1>2. ScalarsInv /\ [Next]_vars => CallScalarsReached'
  <2> SUFFICES ASSUME ScalarsInv, [Next]_vars, NEW t \in Thread
               PROVE  /\ op'[t].evidence["POLICY"] <= sources'["POLICY"]
                      /\ op'[t].pc \notin {"idle", "epoch"}
                         => op'[t].evidence["EPOCH"] <= sources'["EPOCH"]
    BY DEF CallScalarsReached
  <2>1. /\ TypeOK /\ op[t] \in Call
        /\ op[t].evidence["POLICY"] \in Nat /\ op[t].evidence["EPOCH"] \in Nat
        /\ op[t].evidence["POLICY"] <= sources["POLICY"]
        /\ op[t].pc \notin {"idle", "epoch"} => op[t].evidence["EPOCH"] <= sources["EPOCH"]
    BY <1>0 DEF ScalarsInv, TypeOK, Call, Evidence, CallScalarsReached
  <2>2. \A s \in Subject : /\ sources[s] \in Nat /\ sources'[s] \in Nat
                           /\ sources'[s] >= sources[s]
    BY <2>1, SourcesGrow
  <2>3. CASE op'[t] = op[t]
    BY <1>0, <2>1, <2>2, <2>3
  <2>4. CASE op'[t] = Idle
    BY <1>0, <2>2, <2>4 DEF Idle, NoEvidence
  <2>5. CASE Begun(t) /\ UNCHANGED <<runtime, superseding, sources>>
    BY <1>0, <2>2, <2>5 DEF Begun
  <2>6. CASE Read(t) /\ UNCHANGED <<runtime, superseding, sources>>
    <3>1. \A s \in Subject : \/ op'[t].evidence[s] = op[t].evidence[s]
                             \/ op'[t].evidence[s] = sources[s]
      BY <2>1, <2>6, ReadProperties
    <3>2. op[t].pc = "epoch" => op'[t].evidence["EPOCH"] = sources["EPOCH"]
      BY <2>1, <2>6, ReadProperties
    <3>3. op[t].pc # "idle"
      BY <2>6 DEF Read, EpochRead, ConstraintsChecked, AttemptChecked, ExistingChecked,
                  EvidenceRead
    <3>4. QED  BY <1>0, <2>1, <2>2, <2>6, <3>1, <3>2, <3>3
  <2>7. QED  BY <2>1, <2>3, <2>4, <2>5, <2>6, CallMoves
<1>3. ScalarsInv /\ [Next]_vars => ScalarsReached'
  <2> SUFFICES ASSUME ScalarsInv, [Next]_vars, NEW p \in Path
               PROVE  /\ records'[p].evidence["EPOCH"] <= sources'["EPOCH"]
                      /\ records'[p].evidence["POLICY"] <= sources'["POLICY"]
    BY DEF ScalarsReached
  <2>1. TypeOK /\ records[p] \in Record /\ records[p].evidence \in Evidence
    BY DEF ScalarsInv, TypeOK, Record
  <2>2. \A s \in Subject : /\ sources[s] \in Nat /\ sources'[s] \in Nat
                           /\ sources'[s] >= sources[s]
    BY <2>1, SourcesGrow
  <2>3. CASE ~Stored(p)
    <3>1. records'[p].evidence = records[p].evidence
      BY <2>1, <2>3, DefinitionStep
    <3>2. /\ records[p].evidence["EPOCH"] <= sources["EPOCH"]
          /\ records[p].evidence["POLICY"] <= sources["POLICY"]
      BY DEF ScalarsInv, ScalarsReached
    <3>3. QED  BY <1>0, <2>1, <2>2, <3>1, <3>2 DEF Evidence
  <2>4. CASE Stored(p)
    <3>1. PICK t \in Thread : AcceptCommit(t) /\ records'[p].evidence = op[t].evidence
      BY <2>1, <2>4, StoredProperties
    <3>2. op[t].pc = "commit"
      BY <3>1 DEF AcceptCommit
    <3>3. /\ op[t].evidence["EPOCH"] <= sources["EPOCH"]
          /\ op[t].evidence["POLICY"] <= sources["POLICY"]
      BY <3>2 DEF ScalarsInv, CallScalarsReached
    <3>4. op[t].evidence \in Evidence
      BY <2>1 DEF TypeOK, Call
    <3>5. QED  BY <1>0, <2>2, <3>1, <3>3, <3>4 DEF Evidence
  <2>5. QED  BY <2>3, <2>4
<1>4. QED  BY <1>1, <1>2, <1>3, TypeCorrect, PTL DEF Spec, ScalarsInv

\* No decision is ever bound to an epoch or a policy this runtime has not reached,
\* whatever its worker's views were ahead of.
THEOREM ScalarsAlwaysReached == Spec => []ScalarsReached
<1>1. ScalarsInv => ScalarsReached
  BY DEF ScalarsInv
<1>2. QED  BY <1>1, ScalarsInvariant, PTL

-----------------------------------------------------------------------------
(* The attempt index.                                                      *)

Remembered == {a \in Attempt : attempts[a] # NoInput}
Listed(order) == {order[i] : i \in DOMAIN order}
Once(order) == \A i, j \in DOMAIN order : order[i] = order[j] => i = j

LEMMA AppendedOnce ==
    ASSUME NEW order \in Seq(Attempt), Once(order), NEW a \in Attempt \ Listed(order)
    PROVE  LET appended == Append(order, a) IN
           /\ Once(appended) /\ Listed(appended) = Listed(order) \cup {a}
           /\ Len(appended) = Len(order) + 1
<1> DEFINE appended == Append(order, a)
<1>1. /\ DOMAIN order = 1..Len(order) /\ Len(order) \in Nat
      /\ appended \in Seq(Attempt)
  BY LenProperties, AppendProperties
<1>2. /\ DOMAIN appended = 1..(Len(order) + 1) /\ Len(appended) = Len(order) + 1
      /\ \A i \in 1..Len(order) : appended[i] = order[i]
      /\ appended[Len(order) + 1] = a
  BY <1>1, LenProperties, AppendProperties
<1>3. \A i \in 1..Len(order) : order[i] # a
  BY <1>1 DEF Listed
<1> HIDE DEF appended
<1>4. Once(appended)
  BY <1>1, <1>2, <1>3 DEF Once
<1>5. Listed(appended) = Listed(order) \cup {a}
  BY <1>1, <1>2 DEF Listed
<1>6. QED  BY <1>2, <1>4, <1>5 DEF appended

LEMMA TailOnce ==
    ASSUME NEW order \in Seq(Attempt), order # <<>>, Once(order)
    PROVE  /\ Once(Tail(order)) /\ Listed(Tail(order)) = Listed(order) \ {Head(order)}
           /\ Len(Tail(order)) = Len(order) - 1 /\ Tail(order) \in Seq(Attempt)
           /\ Head(order) \in Listed(order)
<1>1. /\ DOMAIN order = 1..Len(order) /\ Len(order) \in Nat \ {0}
      /\ Head(order) = order[1]
  BY LenProperties, EmptySeq
<1> DEFINE tail == Tail(order)
<1>2. /\ tail \in Seq(Attempt) /\ Len(tail) = Len(order) - 1
      /\ DOMAIN tail = 1..(Len(order) - 1)
      /\ \A i \in 1..(Len(order) - 1) : tail[i] = order[i + 1]
  BY LenProperties, HeadTailProperties
<1> HIDE DEF tail
<1>3. Once(tail)
  <2> SUFFICES ASSUME NEW i \in 1..(Len(order) - 1), NEW j \in 1..(Len(order) - 1),
                      tail[i] = tail[j]
               PROVE  i = j
    BY <1>2 DEF Once
  <2>1. i + 1 \in DOMAIN order /\ j + 1 \in DOMAIN order /\ order[i + 1] = order[j + 1]
    BY <1>1, <1>2
  <2>2. i + 1 = j + 1
    BY <2>1 DEF Once
  <2>3. QED  BY <1>1, <2>2
<1>4. Listed(tail) = Listed(order) \ {order[1]}
  <2>1. ASSUME NEW i \in 1..(Len(order) - 1)
        PROVE  tail[i] \in Listed(order) /\ tail[i] # order[1]
    <3>1. i + 1 \in DOMAIN order /\ 1 \in DOMAIN order /\ i + 1 # 1 /\ tail[i] = order[i + 1]
      BY <1>1, <1>2
    <3>2. QED  BY <3>1 DEF Listed, Once
  <2>2. ASSUME NEW i \in DOMAIN order, order[i] # order[1]
        PROVE  order[i] \in Listed(tail)
    <3>1. i - 1 \in DOMAIN tail /\ tail[i - 1] = order[i]
      BY <1>1, <1>2, <2>2
    <3>2. QED  BY <3>1 DEF Listed
  <2>3. QED  BY <1>2, <2>1, <2>2 DEF Listed
<1>5. order[1] \in Listed(order)
  BY <1>1 DEF Listed
<1>6. QED  BY <1>1, <1>2, <1>3, <1>4, <1>5 DEF tail

LEMMA RememberAttemptBounded ==
    ASSUME TypeOK, AttemptIndexBounded, NEW a \in Attempt \cup {NoAttempt},
           NEW input \in Input, RememberAttempt(a, input)
    PROVE  AttemptIndexBounded'
<1>1. /\ attempt_order \in Seq(Attempt) /\ attempts \in [Attempt -> Input \cup {NoInput}]
      /\ Once(attempt_order) /\ Remembered = Listed(attempt_order)
      /\ Len(attempt_order) \in Nat /\ Len(attempt_order) <= MaxAttempts
      /\ MaxAttempts \in Nat \ {0}
  BY ConstantsAssumption, LenProperties
     DEF TypeOK, AttemptIndexBounded, Remembered, Once, Listed
<1>2. input # NoInput
  BY DEF Input, NoInput
<1>3. SUFFICES /\ {b \in Attempt : attempts'[b] # NoInput} = Listed(attempt_order')
               /\ Once(attempt_order') /\ Len(attempt_order') <= MaxAttempts
  BY DEF AttemptIndexBounded, Listed, Once
<1>4. CASE a = NoAttempt
  BY <1>1, <1>4 DEF RememberAttempt, Remembered
<1>5. CASE a # NoAttempt /\ attempts[a] # NoInput
  <2>1. a \in Attempt /\ attempts' = [attempts EXCEPT ![a] = input] /\ attempt_order' = attempt_order
    BY <1>5 DEF RememberAttempt
  <2>2. {b \in Attempt : attempts'[b] # NoInput} = Remembered
    BY <1>1, <1>2, <1>5, <2>1 DEF Remembered
  <2>3. QED  BY <1>1, <2>1, <2>2
<1>6. CASE a # NoAttempt /\ attempts[a] = NoInput /\ Len(attempt_order) < MaxAttempts
  <2>1. /\ a \in Attempt /\ attempts' = [attempts EXCEPT ![a] = input]
        /\ attempt_order' = Append(attempt_order, a)
    BY <1>6 DEF RememberAttempt
  <2>2. {b \in Attempt : attempts'[b] # NoInput} = Remembered \cup {a}
    BY <1>1, <1>2, <2>1 DEF Remembered
  <2>3. a \notin Listed(attempt_order)
    BY <1>1, <1>6 DEF Remembered
  <2>4. QED  BY <1>1, <1>6, <2>1, <2>2, <2>3, AppendedOnce
<1>7. CASE a # NoAttempt /\ attempts[a] = NoInput /\ ~(Len(attempt_order) < MaxAttempts)
  <2> DEFINE head == Head(attempt_order)
             tail == Tail(attempt_order)
  <2>1. /\ a \in Attempt /\ attempts' = [attempts EXCEPT ![a] = input, ![head] = NoInput]
        /\ attempt_order' = Append(tail, a)
    BY <1>7 DEF RememberAttempt
  <2>2. attempt_order # <<>> /\ Len(attempt_order) = MaxAttempts
    BY <1>1, <1>7, EmptySeq
  <2>3. /\ Once(tail) /\ Listed(tail) = Listed(attempt_order) \ {head}
        /\ Len(tail) = Len(attempt_order) - 1 /\ tail \in Seq(Attempt)
        /\ head \in Remembered
    BY <1>1, <2>2, TailOnce
  <2>4. a \notin Remembered /\ head \in Attempt
    BY <1>7, <2>3 DEF Remembered
  <2> HIDE DEF head, tail
  <2>5. {b \in Attempt : attempts'[b] # NoInput} = (Remembered \ {head}) \cup {a}
    BY <1>1, <1>2, <2>1, <2>3, <2>4 DEF Remembered
  <2>6. /\ Once(attempt_order') /\ Listed(attempt_order') = Listed(tail) \cup {a}
        /\ Len(attempt_order') = Len(tail) + 1
    BY <1>1, <2>1, <2>3, <2>4, AppendedOnce
  <2>7. QED  BY <1>1, <2>2, <2>3, <2>5, <2>6
<1>8. QED  BY <1>4, <1>5, <1>6, <1>7

\* The attempt index and its eviction order always hold the same ids, each once,
\* and never more than the limit.
THEOREM AttemptIndexAlwaysBounded == Spec => []AttemptIndexBounded
<1>1. Init => AttemptIndexBounded
  <2> SUFFICES ASSUME Init PROVE AttemptIndexBounded
    OBVIOUS
  <2>1. attempt_order = <<>> /\ DOMAIN attempt_order = {} /\ Len(attempt_order) = 0
    BY EmptySeq DEF Init
  <2>2. {a \in Attempt : attempts[a] # NoInput} = {}
    BY DEF Init
  <2>3. QED  BY <2>1, <2>2, ConstantsAssumption DEF AttemptIndexBounded
<1>2. TypeOK /\ AttemptIndexBounded /\ [Next]_vars => AttemptIndexBounded'
  <2> SUFFICES ASSUME TypeOK, AttemptIndexBounded, [Next]_vars PROVE AttemptIndexBounded'
    OBVIOUS
  <2>1. CASE UNCHANGED <<attempts, attempt_order>>
    BY <2>1 DEF AttemptIndexBounded
  <2>2. ASSUME NEW t \in Thread, ReplayCommit(t) \/ AcceptCommit(t)
        PROVE  AttemptIndexBounded'
    <3>1. op[t].attempt \in Attempt \cup {NoAttempt}
      BY DEF TypeOK, Call
    <3>2. RememberAttempt(op[t].attempt, InputDigest(op[t].definition, op[t].evidence))
      BY <2>2 DEF ReplayCommit, AcceptCommit
    <3>3. QED  BY <3>1, <3>2, InputDigestType, RememberAttemptBounded
  <2>3. ASSUME NEW t \in Thread, Begin(t) \/ Proceed(t), ~ReplayCommit(t), ~AcceptCommit(t)
        PROVE  UNCHANGED <<attempts, attempt_order>>
    BY <2>3, CallBegins, ReadsType DEF Proceed, RejectCommit, ExhaustedCommit, runtime
  <2>4. ASSUME \/ Withdraw
               \/ \E c \in ConstraintSet : RegisterConstraintSet(c)
               \/ \E m \in superseding : MarkSuperseded(m[1], m[2])
               \/ \E s \in Subject : SourceChange(s)
               \/ UNCHANGED vars
        PROVE  UNCHANGED <<attempts, attempt_order>>
    BY <2>4 DEF Withdraw, Revoke, Retire, InvalidateScalar, InvalidateDependents, Invalidate,
                InvalidateConstraints, InvalidatePublisher, RegisterConstraintSet,
                MarkSuperseded, SourceChange, runtime, vars
  <2>5. QED  BY <2>1, <2>2, <2>3, <2>4 DEF Next
<1>3. QED  BY <1>1, <1>2, TypeCorrect, PTL DEF Spec

-----------------------------------------------------------------------------
(* What a notification leaves alone.                                       *)

\* The index holds no path under a subject its record does not bind, but for the
\* records of a replaced constraint set: rebuild_record_dependencies() asks for the
\* capabilities of the set that is registered, the decision for those it is bound to.
IndexFaithful ==
    \A s \in Element \cup Capability :
        \A p \in index[s] :
            /\ Present(p)
            /\ ~Superseded(p) => s \in Bound(records[p].definition, records[p].evidence["POLICY"])

LEMMA StoredFaithful ==
    ASSUME TypeOK, NEW p \in Path, Stored(p), NEW s \in Element \cup Capability,
           p \in index'[s],
           constraint_sets'[SetOf[records'[p].definition]] = BoundTo[records'[p].definition]
    PROVE  s \in Bound(records'[p].definition, records'[p].evidence["POLICY"])
<1>1. PICK t \in Thread : AcceptCommit(t) /\ PathIn(t) = p /\ records'[p] = Committed(t)
  BY DEF Stored
<1> DEFINE d == op[t].definition
           policy == op[t].evidence["POLICY"]
<1>2. can_advance(RecordIn(t).generation)
  BY <1>1 DEF AcceptCommit
<1>3. /\ records'[p].evidence = op[t].evidence
      /\ records'[p].definition = d /\ PathOf[d] = p
      /\ constraint_sets' = constraint_sets
      /\ index' = Reindexed(d, policy)
  BY <1>1, <1>2, CommittedProperties DEF AcceptCommit, PathIn
<1>4. s \in Dependencies(d, policy)
  BY <1>3 DEF Reindexed
<1>5. QED  BY <1>3, <1>4 DEF Dependencies, Bound

\* Only a commit puts a path under a subject.
LEMMA IndexedStep ==
    ASSUME TypeOK, [Next]_vars, NEW p \in Path, NEW s \in Element \cup Capability,
           p \notin index[s], p \in index'[s]
    PROVE  Stored(p)
<1>1. PICK t \in Thread : Proceed(t)
  BY ZenonT(60) DEF Next, Begin, BeginEvaluate, BeginPublish, Withdraw, Revoke, Retire, InvalidateScalar,
         InvalidateDependents, Invalidate, InvalidateConstraints, InvalidatePublisher,
         RegisterConstraintSet, MarkSuperseded, SourceChange, runtime, vars
<1>2. CASE AcceptCommit(t)
  <2>1. records' = [records EXCEPT ![PathIn(t)] = Committed(t)]
    BY <1>2 DEF AcceptCommit
  <2>2. PathIn(t) = p
    BY <1>2 DEF AcceptCommit, Reindexed, PathIn
  <2>3. QED  BY <1>2, <2>1, <2>2 DEF Stored, TypeOK
<1>3. CASE ~AcceptCommit(t)
  BY <1>1, <1>3, ReadsType DEF Proceed, RejectCommit, ReplayCommit, ExhaustedCommit, Unindexed,
                               runtime
<1>4. QED  BY <1>2, <1>3

FaithfulInv == InvalidationInv /\ IndexFaithful

LEMMA FaithfulInvariant == Spec => []FaithfulInv
<1>1. Init => IndexFaithful
  BY DEF Init, IndexFaithful
<1>2. InvalidationInv /\ IndexFaithful /\ [Next]_vars => IndexFaithful'
  <2> SUFFICES ASSUME InvalidationInv, IndexFaithful, [Next]_vars,
                      NEW s \in Element \cup Capability, NEW p \in index'[s]
               PROVE  /\ records'[p].generation # 0
                      /\ constraint_sets'[SetOf[records'[p].definition]]
                            = BoundTo[records'[p].definition]
                         => s \in Bound(records'[p].definition, records'[p].evidence["POLICY"])
    BY DEF IndexFaithful, Present, Superseded, Replaced
  <2>1. TypeOK /\ RegistryNotBehind /\ p \in Path
    <3>1. TypeOK /\ RegistryNotBehind
      BY DEF InvalidationInv
    <3>2. index' \in [Element \cup Capability -> SUBSET Path]
      BY <3>1, NextType DEF TypeOK
    <3>3. QED  BY <3>1, <3>2
  <2>2. CASE Stored(p)
    <3>1. records'[p].generation # 0
      BY <2>1, <2>2, GenerationGrows, StoredProperties
    <3>2. QED  BY <2>1, <2>2, <3>1, StoredFaithful
  <2>3. CASE ~Stored(p)
    <3>1. p \in index[s]
      BY <2>1, <2>3, IndexedStep
    <3>2. Present(p) /\ Registered(records[p].definition)
      BY <2>1, <3>1 DEF IndexFaithful, RegistryNotBehind
    <3>3. /\ records'[p].definition = records[p].definition
          /\ records'[p].evidence = records[p].evidence
          /\ records[p].definition \in Definition
      BY <2>1, <2>3, DefinitionStep
    <3>4. records'[p].generation # 0
      BY <2>1, <3>2, GenerationGrows DEF Present
    <3>5. constraint_sets'[SetOf[records'[p].definition]] = BoundTo[records'[p].definition]
              => ~Superseded(p)
      BY <2>1, <3>2, <3>3, SupersededStep DEF Superseded
    <3>6. QED  BY <3>1, <3>3, <3>4, <3>5 DEF IndexFaithful
  <2>4. QED  BY <2>2, <2>3
<1>3. QED  BY <1>1, <1>2, InvalidationInvariant, PTL DEF Spec, FaithfulInv

\* A notification about one element or capability changes the records of its
\* dependents and of nobody else.
LEMMA NotificationStep ==
    ASSUME TypeOK, [Next]_vars, NEW p \in Path, NEW s \in Element \cup Capability,
           watermarks'[s] # watermarks[s], p \notin index[s]
    PROVE  records'[p] = records[p]
<1>1. ~\E t \in Thread : Begin(t) \/ Proceed(t)
  BY CallsLeave
<1>2. PICK q \in Subject : \E g \in Announced(q) :
          InvalidateScalar(q, g) \/ InvalidateDependents(q, g)
  BY <1>1 DEF Next, Withdraw, Revoke, Retire, InvalidateConstraints, InvalidatePublisher,
              RegisterConstraintSet, MarkSuperseded, SourceChange, runtime, vars
<1>3. PICK g : InvalidateScalar(q, g) \/ InvalidateDependents(q, g)
  BY <1>2
<1>4. s \in Subject /\ s \notin Scalar
  BY SubjectFacts, SubjectsAssumption
<1>5. CASE InvalidateScalar(q, g)
  BY <1>4, <1>5 DEF InvalidateScalar, Invalidate, TypeOK
<1>6. CASE InvalidateDependents(q, g)
  <2>1. q = s
    BY <1>4, <1>6 DEF InvalidateDependents, Invalidate, TypeOK
  <2>2. QED  BY <1>6, <2>1 DEF InvalidateDependents, Invalidate, MarkAll
<1>7. QED  BY <1>3, <1>5, <1>6

\* A change of one element or capability never touches the record of a path whose
\* decision does not bind it.
THEOREM UnrelatedAlwaysUntouched == Spec => UnrelatedUntouched
<1>1. FaithfulInv /\ [Next]_vars =>
        [\A s \in Element \cup Capability, p \in Path :
          /\ watermarks'[s] # watermarks[s]
          /\ s \notin Bound(records[p].definition, records[p].evidence["POLICY"])
          /\ ~Superseded(p)
          => records'[p] = records[p]]_vars
  <2> SUFFICES ASSUME FaithfulInv, [Next]_vars, NEW s \in Element \cup Capability, NEW p \in Path,
                      watermarks'[s] # watermarks[s], ~Superseded(p),
                      s \notin Bound(records[p].definition, records[p].evidence["POLICY"])
               PROVE  records'[p] = records[p]
    OBVIOUS
  <2>1. TypeOK
    BY DEF FaithfulInv, InvalidationInv
  <2>2. p \notin index[s]
    BY DEF FaithfulInv, IndexFaithful
  <2>3. QED  BY <2>1, <2>2, NotificationStep
<1>2. QED  BY <1>1, FaithfulInvariant, PTL DEF Spec, UnrelatedUntouched

-----------------------------------------------------------------------------
(* Calls made one after the other.                                         *)

\* Callers who wait for each other are callers.
LEMMA SerialRefines == SerialSpec => Spec
<1>1. [SerialNext]_vars => [Next]_vars
  BY DEF SerialNext
<1>2. QED  BY <1>1, PTL DEF SerialSpec, Spec

OneAtATime ==
    /\ \A t \in Thread : op[t].pc = "idle" => op[t] = Idle
    /\ \A t, u \in Thread : op[t] # Idle /\ op[u] # Idle => t = u
    /\ superseding # {} => \A t \in Thread : op[t] = Idle

\* While a call is under way it is the one that moves; while a registration is,
\* it marks another record.
LEMMA SerialStep ==
    ASSUME TypeOK, OneAtATime, [SerialNext]_vars
    PROVE  \/ UNCHANGED vars
           \/ /\ Quiet
              /\ \/ Withdraw
                 \/ \E t \in Thread : Begin(t)
                 \/ \E c \in ConstraintSet : RegisterConstraintSet(c)
                 \/ \E s \in Subject : SourceChange(s)
           \/ \E t \in Thread : op[t] # Idle /\ superseding = {} /\ Proceed(t)
           \/ /\ \A t \in Thread : op[t] = Idle
              /\ \E m \in superseding : MarkSuperseded(m[1], m[2])
<1>1. ASSUME NEW t \in Thread, Begin(t), ~Quiet, SerialNext PROVE FALSE
  <2>1. op[t].pc = "idle" /\ op'[t].pc = "epoch"
    BY <1>1, CallBegins DEF Begun
  <2>2. op[t] = Idle /\ op'[t] # Idle
    BY <2>1, IdleFacts DEF OneAtATime
  <2>3. QED  BY <1>1, <2>2 DEF SerialNext
<1>2. ASSUME NEW t \in Thread, Proceed(t)
      PROVE  op[t] # Idle /\ superseding = {}
  <2>1. op[t].pc # "idle"
    BY <1>2 DEF Proceed, ReadEpoch, CheckConstraints, CheckAttempt, CheckExisting, ReadEvidence,
                RejectCommit, ReplayCommit, ExhaustedCommit, AcceptCommit
  <2>2. QED  BY <2>1, IdleFacts DEF OneAtATime
<1>3. ASSUME NEW c \in ConstraintSet, RegisterConstraintSet(c)
      PROVE  op' = op /\ superseding \subseteq superseding'
  BY <1>3 DEF RegisterConstraintSet
<1>4. ASSUME Withdraw \/ \E s \in Subject : SourceChange(s)
      PROVE  op' = op /\ superseding' = superseding
  BY <1>4 DEF Withdraw, Revoke, Retire, InvalidateScalar, InvalidateDependents, Invalidate,
              InvalidateConstraints, InvalidatePublisher, SourceChange
<1>5. ASSUME NEW m \in superseding PROVE \A t \in Thread : op[t] = Idle
  BY DEF OneAtATime
<1>6. ASSUME op' = op, superseding \subseteq superseding', SerialNext PROVE Quiet
  <2>1. superseding' \subseteq superseding => superseding' = superseding
    BY <1>6
  <2>2. QED  BY <1>6, <2>1 DEF SerialNext
<1>7. QED  BY <1>1, <1>2, <1>3, <1>4, <1>5, <1>6 DEF SerialNext, Next

LEMMA OneAtATimeStep ==
    ASSUME TypeOK, OneAtATime, [SerialNext]_vars
    PROVE  OneAtATime'
<1>1. CASE op' = op /\ (superseding' \subseteq superseding \/ \A t \in Thread : op[t] = Idle)
  BY <1>1 DEF OneAtATime
<1>2. ASSUME NEW t \in Thread, Begin(t), Quiet PROVE OneAtATime'
  <2>1. /\ op'[t].pc = "epoch" /\ superseding' = {}
        /\ \A u \in Thread \ {t} : op'[u] = Idle
    BY <1>2, CallBegins DEF Begun, Quiet
  <2>2. QED  BY <2>1, IdleFacts DEF OneAtATime
<1>3. ASSUME NEW t \in Thread, op[t] # Idle, superseding = {}, Proceed(t) PROVE OneAtATime'
  <2>1. \A u \in Thread \ {t} : op'[u] = Idle
    BY <1>3, CallReads DEF OneAtATime
  <2>2. superseding' = {}
    BY <1>3, ReadsType DEF Proceed, RejectCommit, ReplayCommit, ExhaustedCommit, AcceptCommit
  <2>3. op'[t].pc = "idle" => op'[t] = Idle
    <3>1. CASE op'[t] = Idle
      BY <3>1
    <3>2. CASE Read(t)
      BY <3>2, ReadProperties DEF AfterConstraints, AfterAttempt, AfterExisting
    <3>3. QED  BY <1>3, <3>1, <3>2, CallReads
  <2>4. QED  BY <2>1, <2>2, <2>3 DEF OneAtATime
<1>4. CASE \/ Quiet /\ (Withdraw \/ \E s \in Subject : SourceChange(s))
           \/ Quiet /\ \E c \in ConstraintSet : RegisterConstraintSet(c)
           \/ \E m \in superseding : MarkSuperseded(m[1], m[2])
           \/ UNCHANGED vars
  <2>1. op' = op /\ (superseding' \subseteq superseding \/ Quiet)
    BY <1>4 DEF Withdraw, Revoke, Retire, InvalidateScalar, InvalidateDependents, Invalidate,
                InvalidateConstraints, InvalidatePublisher, RegisterConstraintSet,
                MarkSuperseded, SourceChange, vars
  <2>2. QED  BY <1>1, <2>1 DEF Quiet
<1>5. QED  BY <1>2, <1>3, <1>4, SerialStep

\* What a call in flight has found stays true until it commits: the constraint set is
\* the registered one, the path is not revoked and still authorized if it was, the
\* attempt id is free or remembered for this very input.
AttemptSeen(t) == IF t \in Evaluator THEN {"existing", "evidence", "commit"} ELSE {"commit"}

CallUpToDate ==
    \A t \in Thread :
        /\ op[t].pc # "idle" => op[t].evidence["POLICY"] # 0
        /\ op[t].pc \notin {"idle", "epoch"} => op[t].evidence["EPOCH"] # 0
        /\ op[t].pc \in {"attempt", "existing", "evidence", "commit"} => ~Replaced(op[t].definition)
        /\ op[t].pc \in Withheld(t) => ~Revoked(PathIn(t))
        /\ op[t].attempt # NoAttempt /\ op[t].pc \in AttemptSeen(t) =>
              attempts[op[t].attempt] \in {NoInput, InputDigest(op[t].definition, op[t].evidence)}
        /\ t \in Evaluator /\ op[t].pc \in Withheld(t) /\ op[t].existing_authorized =>
              Authorizing(PathIn(t))

SourcesStarted == \A s \in Subject : sources[s] # 0

OutcomeIsState == \A p \in Path : is_authorizing_outcome(records[p].outcome) => Authorizing(p)

\* A registration under way marks for the generation that is registered.
SupersedingCurrent ==
    \A m \in superseding : m[2] = constraint_sets[SetOf[records[m[1]].definition]]

SerialInv ==
    /\ TypeOK /\ AuthorityIsStored /\ EvidenceReaders
    /\ OneAtATime /\ SourcesStarted /\ OutcomeIsState
    /\ CallUpToDate /\ SupersedingCurrent /\ RevokedNeverAuthorizing /\ SupersededIsWithdrawn

LEMMA WithdrawalOutcomes ==
    ASSUME NEW r \in Record, can_advance(r.generation)
    PROVE  /\ \A reason \in Reason : WithRevocation(r, reason).outcome = "REVOKED"
           /\ WithRetirement(r).outcome = "PATH_RETIRED"
BY DEF WithRevocation, WithRetirement, Sealed, Record

LEMMA SourcesStartedStep ==
    ASSUME TypeOK, SourcesStarted, [Next]_vars
    PROVE  SourcesStarted'
BY SourcesGrow DEF SourcesStarted

LEMMA OutcomeIsStateStep ==
    ASSUME TypeOK, OutcomeIsState, [Next]_vars
    PROVE  OutcomeIsState'
<1> SUFFICES ASSUME NEW p \in Path, is_authorizing_outcome(records'[p].outcome)
             PROVE  records'[p].state \in AuthorizingState
  BY DEF OutcomeIsState, Authorizing
<1>1. records[p] \in Record
  BY DEF TypeOK
<1>2. CASE records'[p] = records[p]
  BY <1>2 DEF OutcomeIsState, Authorizing
<1>3. CASE Marked(p)
  BY <1>1, <1>2, <1>3, MarkProperties DEF Marked, is_authorizing_outcome
<1>4. CASE Stored(p)
  <2>1. PICK t \in Thread :
          /\ records'[p].state = state_for_outcome(records'[p].outcome)
          /\ records'[p].outcome = PrimaryOutcome(op[t].definition, op[t].evidence,
                                                  op[t].existing_authorized)
    BY <1>4, StoredProperties
  <2>2. QED  BY <2>1, PrimaryOutcomeType, StateForOutcomeType DEF is_authorizing_outcome
<1>5. CASE Withdrawn(p)
  <2>1. records'[p].outcome \in {"REVOKED", "PATH_RETIRED"}
    BY <1>1, <1>5, WithdrawalOutcomes DEF Withdrawn
  <2>2. QED  BY <2>1 DEF is_authorizing_outcome
<1>6. QED  BY <1>2, <1>3, <1>4, <1>5, RecordStep

\* What CallUpToDate says of one call.
UpToDate(t) ==
    /\ op[t].pc # "idle" => op[t].evidence["POLICY"] # 0
    /\ op[t].pc \notin {"idle", "epoch"} => op[t].evidence["EPOCH"] # 0
    /\ op[t].pc \in {"attempt", "existing", "evidence", "commit"} => ~Replaced(op[t].definition)
    /\ op[t].pc \in Withheld(t) => ~Revoked(PathIn(t))
    /\ op[t].attempt # NoAttempt /\ op[t].pc \in AttemptSeen(t) =>
          attempts[op[t].attempt] \in {NoInput, InputDigest(op[t].definition, op[t].evidence)}
    /\ t \in Evaluator /\ op[t].pc \in Withheld(t) /\ op[t].existing_authorized =>
          Authorizing(PathIn(t))

LEMMA ReadUpToDate ==
    ASSUME SerialInv, NEW t \in Thread, Read(t), UNCHANGED <<runtime, superseding, sources>>
    PROVE  UpToDate(t)'
<1>1. /\ TypeOK /\ op[t] \in Call /\ op[t].evidence \in Evidence /\ UpToDate(t)
      /\ "EPOCH" \in Subject /\ "POLICY" \in Subject
  BY SubjectFacts DEF SerialInv, TypeOK, Call, CallUpToDate, UpToDate
<1>2. /\ op'[t].definition = op[t].definition /\ op'[t].attempt = op[t].attempt
      /\ \/ EpochRead(t) /\ op'[t].pc = "constraints"
         \/ ConstraintsChecked(t) /\ op'[t].pc = AfterConstraints(t)
         \/ AttemptChecked(t) /\ op'[t].pc = AfterAttempt(t)
         \/ ExistingChecked(t) /\ op'[t].pc = AfterExisting(t)
         \/ EvidenceRead(t) /\ op'[t].pc \in {"evidence", "commit"}
      /\ ~ExistingChecked(t) => op'[t].existing_authorized = op[t].existing_authorized
  BY <1>1, ReadProperties
<1>3. /\ op[t].pc # "idle"
      /\ EpochRead(t) => op[t].pc = "epoch"
      /\ ConstraintsChecked(t) => op[t].pc = "constraints"
      /\ AttemptChecked(t) => op[t].pc = "attempt"
      /\ ExistingChecked(t) => op[t].pc = "existing"
      /\ EvidenceRead(t) => op[t].pc = "evidence" /\ t \in Evaluator
  BY DEF Read, EpochRead, ConstraintsChecked, AttemptChecked, ExistingChecked, EvidenceRead,
         SerialInv, EvidenceReaders
<1>4. /\ op'[t].evidence["POLICY"] = op[t].evidence["POLICY"] /\ op[t].evidence["POLICY"] # 0
      /\ op[t].pc # "epoch" => /\ op'[t].evidence["EPOCH"] = op[t].evidence["EPOCH"]
                               /\ op[t].evidence["EPOCH"] # 0
      /\ op[t].pc = "epoch" => op'[t].evidence["EPOCH"] # 0
  <2>1. \A s \in Subject :
           \/ op'[t].evidence[s] = op[t].evidence[s]
           \/ /\ op'[t].evidence[s] = sources[s]
              /\ \/ op[t].pc = "epoch" /\ s = "EPOCH"
                 \/ op[t].pc = "evidence" /\ s \in Unread(t)
    BY <1>1, ReadProperties
  <2>2. op[t].pc = "epoch" => op'[t].evidence["EPOCH"] = sources["EPOCH"]
    BY <1>1, ReadProperties
  <2>3. \A s \in Unread(t) : op[t].evidence[s] = 0
    BY DEF Unread
  <2>4. sources["EPOCH"] # 0
    BY <1>1 DEF SerialInv, SourcesStarted
  <2>5. op[t].evidence["POLICY"] # 0 /\ (op[t].pc # "epoch" => op[t].evidence["EPOCH"] # 0)
    BY <1>1, <1>3 DEF UpToDate
  <2>6. QED  BY <1>1, <2>1, <2>2, <2>3, <2>4, <2>5
<1>5. /\ constraint_sets' = constraint_sets /\ records' = records /\ attempts' = attempts
  BY DEF runtime
<1>6. /\ op'[t].pc # "idle" => op'[t].evidence["POLICY"] # 0
      /\ op'[t].pc \notin {"idle", "epoch"} => op'[t].evidence["EPOCH"] # 0
  BY <1>4
<1>7. op'[t].pc \in {"attempt", "existing", "evidence", "commit"} =>
          constraint_sets'[SetOf[op'[t].definition]] = BoundTo[op'[t].definition]
  <2>1. CASE ConstraintsChecked(t)
    BY <1>2, <1>5, <2>1 DEF ConstraintsChecked, Replaced
  <2>2. CASE ~ConstraintsChecked(t) /\ ~EpochRead(t)
    BY <1>1, <1>2, <1>3, <1>5, <2>2 DEF UpToDate, Replaced
  <2>3. QED  BY <1>2, <1>3, <2>1, <2>2
<1>8. op'[t].pc \in Withheld(t) => records'[PathOf[op'[t].definition]].revocation = NoRevocation
  <2>1. CASE ExistingChecked(t)
    BY <1>2, <1>5, <2>1 DEF ExistingChecked, Revoked, PathIn
  <2>2. CASE ~ExistingChecked(t)
    <3>1. op'[t].pc \in Withheld(t) => op[t].pc \in Withheld(t)
      BY <1>2, <1>3, <2>2 DEF Withheld, AfterConstraints, AfterAttempt
    <3>2. QED  BY <1>1, <1>2, <1>5, <3>1 DEF UpToDate, Revoked, PathIn
  <2>3. QED  BY <2>1, <2>2
<1>9. op'[t].attempt # NoAttempt /\ op'[t].pc \in AttemptSeen(t) =>
          attempts'[op'[t].attempt] \in {NoInput, InputDigest(op'[t].definition, op'[t].evidence)}
  <2>1. CASE EpochRead(t)
    BY <1>2, <1>3, <2>1 DEF AttemptSeen
  <2>2. CASE ~EpochRead(t)
    <3>1. InputDigest(op'[t].definition, op'[t].evidence)
            = InputDigest(op[t].definition, op[t].evidence)
      BY <1>2, <1>3, <1>4, <2>2 DEF InputDigest
    <3>2. CASE AttemptChecked(t)
      BY <1>2, <1>5, <3>1, <3>2 DEF AttemptChecked
    <3>3. CASE ~AttemptChecked(t)
      <4>1. op'[t].pc \in AttemptSeen(t) => op[t].pc \in AttemptSeen(t)
        BY <1>2, <1>3, <2>2, <3>3 DEF AttemptSeen, AfterConstraints, AfterExisting
      <4>2. QED  BY <1>1, <1>2, <1>5, <3>1, <4>1 DEF UpToDate
    <3>4. QED  BY <3>2, <3>3
  <2>3. QED  BY <2>1, <2>2
<1>10. t \in Evaluator /\ op'[t].pc \in Withheld(t) /\ op'[t].existing_authorized =>
          records'[PathOf[op'[t].definition]].state \in AuthorizingState
  <2>1. CASE ExistingChecked(t)
    <3>1. PICK b \in BOOLEAN :
            /\ (t \in Evaluator /\ b) => is_authorizing_outcome(RecordIn(t).outcome)
            /\ op'[t] = [op[t] EXCEPT !.pc = AfterExisting(t), !.existing_authorized = b]
      BY <2>1 DEF ExistingChecked
    <3>2. op'[t].existing_authorized = b
      BY <1>1, <3>1 DEF Call
    <3>3. PathIn(t) \in Path /\ RecordIn(t) = records[PathIn(t)]
      BY <1>1, DecisionType DEF RecordIn
    <3>4. is_authorizing_outcome(RecordIn(t).outcome) => Authorizing(PathIn(t))
      BY <3>3 DEF SerialInv, OutcomeIsState
    <3>5. QED  BY <1>2, <1>5, <3>1, <3>2, <3>4 DEF Authorizing, PathIn
  <2>2. CASE ~ExistingChecked(t)
    <3>1. t \in Evaluator /\ op'[t].pc \in Withheld(t) => op[t].pc \in Withheld(t)
      BY <1>2, <1>3, <2>2 DEF Withheld, AfterConstraints, AfterAttempt
    <3>2. QED  BY <1>1, <1>2, <1>5, <2>2, <3>1 DEF UpToDate, Authorizing, PathIn
  <2>3. QED  BY <2>1, <2>2
<1>11. QED
  BY <1>6, <1>7, <1>8, <1>9, <1>10
     DEF UpToDate, Replaced, Revoked, PathIn, Authorizing

LEMMA CallUpToDateStep ==
    ASSUME SerialInv, [SerialNext]_vars
    PROVE  CallUpToDate'
<1>1. TypeOK /\ OneAtATime /\ \A t \in Thread : UpToDate(t)
  BY DEF SerialInv, CallUpToDate, UpToDate
<1>2. ASSUME NEW t \in Thread, op'[t] = Idle PROVE UpToDate(t)'
  <2>1. op'[t].pc = "idle"
    BY <1>2, IdleFacts
  <2>2. QED  BY <2>1 DEF UpToDate, Withheld, AttemptSeen
<1>3. CASE \A t \in Thread : op'[t] = Idle
  BY <1>2, <1>3 DEF CallUpToDate, UpToDate
<1>4. CASE UNCHANGED vars
  <2>1. ASSUME NEW t \in Thread PROVE UpToDate(t)'
    <3>1. UpToDate(t) /\ op' = op /\ records' = records /\ attempts' = attempts
          /\ constraint_sets' = constraint_sets
      BY <1>1, <1>4 DEF vars, runtime
    <3>2. QED  BY <3>1 DEF UpToDate, Replaced, Revoked, PathIn, Authorizing
  <2>2. QED  BY <2>1 DEF CallUpToDate, UpToDate
<1>5. ASSUME NEW t \in Thread, Begin(t), Quiet PROVE CallUpToDate'
  <2>1. /\ op'[t].pc = "epoch" /\ op'[t].evidence["POLICY"] = sources["POLICY"]
        /\ \A u \in Thread \ {t} : op'[u] = Idle
    BY <1>1, <1>5, CallBegins DEF Begun, Quiet
  <2>2. op'[t].evidence["POLICY"] # 0
    BY <2>1, SubjectFacts DEF SerialInv, SourcesStarted
  <2>3. UpToDate(t)'
    BY <2>1, <2>2 DEF UpToDate, Withheld, AttemptSeen
  <2>4. \A u \in Thread : UpToDate(u)'
    BY <1>2, <2>1, <2>3
  <2>5. QED  BY <2>4 DEF CallUpToDate, UpToDate
<1>6. ASSUME NEW t \in Thread, op[t] # Idle, Proceed(t) PROVE CallUpToDate'
  <2>1. \A u \in Thread \ {t} : op'[u] = Idle
    BY <1>1, <1>6, CallReads DEF OneAtATime
  <2>2. UpToDate(t)'
    BY <1>1, <1>2, <1>6, CallReads, ReadUpToDate
  <2>3. \A u \in Thread : UpToDate(u)'
    BY <1>2, <2>1, <2>2
  <2>4. QED  BY <2>3 DEF CallUpToDate, UpToDate
<1>7. CASE \/ Quiet /\ (Withdraw \/ \E s \in Subject : SourceChange(s))
           \/ Quiet /\ \E c \in ConstraintSet : RegisterConstraintSet(c)
           \/ (\A t \in Thread : op[t] = Idle) /\ \E m \in superseding : MarkSuperseded(m[1], m[2])
  <2>1. op' = op /\ \A t \in Thread : op[t] = Idle
    BY <1>7 DEF Withdraw, Revoke, Retire, InvalidateScalar, InvalidateDependents, Invalidate,
                InvalidateConstraints, InvalidatePublisher, RegisterConstraintSet,
                MarkSuperseded, SourceChange, Quiet
  <2>2. QED  BY <1>3, <2>1
<1>8. QED  BY <1>1, <1>4, <1>5, <1>6, <1>7, SerialStep

LEMMA IdleStoresNothing ==
    ASSUME \A t \in Thread : op[t] = Idle, NEW p \in Path
    PROVE  ~Stored(p)
BY IdleFacts DEF Stored, AcceptCommit

LEMMA SerialStored ==
    ASSUME SerialInv, NEW p \in Path, Stored(p)
    PROVE  /\ records'[p].revocation = NoRevocation
           /\ constraint_sets'[SetOf[records'[p].definition]] = BoundTo[records'[p].definition]
           /\ superseding' = {}
<1>1. PICK t \in Thread : AcceptCommit(t) /\ PathIn(t) = p /\ records'[p] = Committed(t)
  BY DEF Stored
<1>2. /\ op[t].pc = "commit" /\ can_advance(RecordIn(t).generation)
      /\ constraint_sets' = constraint_sets /\ superseding' = superseding
      /\ RecordIn(t) = records[p]
  BY <1>1 DEF AcceptCommit, RecordIn
<1>3. records'[p].definition = op[t].definition /\ records'[p].revocation = records[p].revocation
  BY <1>1, <1>2, CommittedProperties DEF SerialInv
<1>4. ~Replaced(op[t].definition) /\ ~Revoked(p)
  BY <1>1, <1>2 DEF SerialInv, CallUpToDate, Withheld
<1>5. superseding = {}
  BY <1>2, IdleFacts DEF SerialInv, OneAtATime
<1>6. QED  BY <1>2, <1>3, <1>4, <1>5 DEF Replaced, Revoked

LEMMA RevokedStep ==
    ASSUME SerialInv, [SerialNext]_vars
    PROVE  RevokedNeverAuthorizing'
<1> SUFFICES ASSUME NEW p \in Path, records'[p].state \in AuthorizingState
             PROVE  records'[p].revocation = NoRevocation
  BY DEF RevokedNeverAuthorizing, Revoked, Authorizing
<1>1. TypeOK /\ [Next]_vars
  BY DEF SerialInv, SerialNext
<1>2. CASE records'[p] = records[p]
  BY <1>2 DEF SerialInv, RevokedNeverAuthorizing, Revoked, Authorizing
<1>3. CASE Stored(p)
  BY <1>3, SerialStored
<1>4. QED  BY <1>1, <1>2, <1>3, AuthorityStep DEF Authorizing

LEMMA SupersedingCurrentStep ==
    ASSUME SerialInv, [SerialNext]_vars
    PROVE  SupersedingCurrent'
<1>1. TypeOK /\ OneAtATime /\ SupersedingCurrent /\ [Next]_vars
  BY DEF SerialInv, SerialNext
<1>2. CASE superseding' = {}
  BY <1>2 DEF SupersedingCurrent
<1>3. ASSUME superseding' \subseteq superseding, constraint_sets' = constraint_sets,
             \A t \in Thread : op[t] = Idle
      PROVE  SupersedingCurrent'
  <2> SUFFICES ASSUME NEW m \in superseding'
               PROVE  m[2] = constraint_sets'[SetOf[records'[m[1]].definition]]
    BY DEF SupersedingCurrent
  <2>1. m \in superseding /\ m[1] \in Path
    BY <1>1, <1>3 DEF TypeOK
  <2>2. records'[m[1]].definition = records[m[1]].definition
    BY <1>1, <1>3, <2>1, IdleStoresNothing, DefinitionStep
  <2>3. QED  BY <1>1, <1>3, <2>1, <2>2 DEF SupersedingCurrent
<1>4. ASSUME NEW c \in ConstraintSet, RegisterConstraintSet(c), superseding = {}
      PROVE  SupersedingCurrent'
  <2> SUFFICES ASSUME NEW m \in superseding'
               PROVE  m[2] = constraint_sets'[SetOf[records'[m[1]].definition]]
    BY DEF SupersedingCurrent
  <2>1. PICK p \in Path : m = <<p, constraint_sets[c] + 1>> /\ SetOf[records[p].definition] = c
    BY <1>4 DEF RegisterConstraintSet
  <2>2. records' = records /\ constraint_sets'[c] = constraint_sets[c] + 1
    BY <1>1, <1>4 DEF RegisterConstraintSet, TypeOK
  <2>3. QED  BY <2>1, <2>2
<1>5. ASSUME NEW t \in Thread, op[t] # Idle, superseding = {}, Proceed(t) PROVE superseding' = {}
  BY <1>1, <1>5, ReadsType DEF Proceed, RejectCommit, ReplayCommit, ExhaustedCommit, AcceptCommit
<1>6. ASSUME Quiet, Withdraw \/ (\E t \in Thread : Begin(t)) \/ \E s \in Subject : SourceChange(s)
      PROVE  superseding' = {}
  BY <1>1, <1>6, CallBegins DEF Quiet, Withdraw, Revoke, Retire, InvalidateScalar,
         InvalidateDependents, Invalidate, InvalidateConstraints, InvalidatePublisher, SourceChange
<1>7. ASSUME NEW m \in superseding, MarkSuperseded(m[1], m[2])
      PROVE  superseding' \subseteq superseding /\ constraint_sets' = constraint_sets
  BY <1>7 DEF MarkSuperseded
<1>8. CASE UNCHANGED vars
  BY <1>1, <1>8 DEF vars, runtime, SupersedingCurrent
<1>9. QED  BY <1>1, <1>2, <1>3, <1>4, <1>5, <1>6, <1>7, <1>8, SerialStep DEF Quiet

LEMMA SupersededIsWithdrawnStep ==
    ASSUME SerialInv, [SerialNext]_vars
    PROVE  SupersededIsWithdrawn'
<1>1. TypeOK /\ OneAtATime /\ SupersedingCurrent /\ AuthorityIsStored /\ [Next]_vars
  BY DEF SerialInv, SerialNext
<1> SUFFICES ASSUME NEW p \in Path, records'[p].state \in AuthorizingState,
                    can_advance(records'[p].generation),
                    constraint_sets'[SetOf[records'[p].definition]]
                        # BoundTo[records'[p].definition]
             PROVE  \E m \in superseding' : m[1] = p
  BY DEF SupersededIsWithdrawn, Authorizing, Superseded, Replaced
<1>2. records'[p] = records[p]
  BY <1>1, SerialStored, AuthorityStep DEF Authorizing
<1>3. Authorizing(p) /\ can_advance(records[p].generation) /\ Present(p)
  BY <1>1, <1>2 DEF Authorizing, AuthorityIsStored
<1>4. Superseded(p) => \E m \in superseding : m[1] = p
  BY <1>3 DEF SerialInv, SupersededIsWithdrawn
<1>5. ASSUME constraint_sets' = constraint_sets PROVE \E m \in superseding : m[1] = p
  BY <1>2, <1>4, <1>5 DEF Superseded, Replaced
<1>6. CASE superseding' = superseding /\ constraint_sets' = constraint_sets
  BY <1>5, <1>6
<1>7. ASSUME NEW c \in ConstraintSet, RegisterConstraintSet(c)
      PROVE  \E m \in superseding' : m[1] = p
  <2>1. CASE SetOf[records[p].definition] = c
    <3>1. <<p, constraint_sets[c] + 1>> \in superseding'
      BY <1>3, <1>7, <2>1 DEF RegisterConstraintSet
    <3>2. QED  BY <3>1
  <2>2. CASE SetOf[records[p].definition] # c
    <3>1. Superseded(p)
      BY <1>1, <1>2, <1>7, <2>2 DEF RegisterConstraintSet, TypeOK, Superseded, Replaced
    <3>2. QED  BY <1>4, <1>7, <3>1 DEF RegisterConstraintSet
  <2>3. QED  BY <2>1, <2>2
<1>8. ASSUME NEW m \in superseding, MarkSuperseded(m[1], m[2])
      PROVE  \E n \in superseding' : n[1] = p
  <2>1. /\ constraint_sets' = constraint_sets /\ superseding' = superseding \ {<<m[1], m[2]>>}
        /\ m = <<m[1], m[2]>> /\ m[1] \in Path
    BY <1>1, <1>8 DEF MarkSuperseded, TypeOK
  <2>2. PICK n \in superseding : n[1] = p
    BY <1>5, <2>1
  <2>3. CASE n # m
    BY <2>1, <2>2, <2>3
  <2>4. CASE n = m
    <3>1. BoundTo[records[p].definition] # m[2]
      <4>1. m[2] = constraint_sets[SetOf[records[p].definition]]
        BY <1>1, <2>2, <2>4 DEF SupersedingCurrent
      <4>2. QED  BY <1>2, <2>1, <4>1
    <3>2. records'[p] = MarkRevalidationRequired(records[p])
      BY <1>3, <1>8, <2>2, <2>4, <3>1 DEF MarkSuperseded, MarkAll
    <3>3. records[p] \in Record
      BY <1>1 DEF TypeOK
    <3>4. QED  BY <1>3, <1>2, <3>2, <3>3, MarkProperties DEF Authorizing, AuthorizingState
  <2>5. QED  BY <2>3, <2>4
<1>9. ASSUME NEW t \in Thread, Begin(t) \/ Proceed(t)
      PROVE  superseding' = superseding /\ constraint_sets' = constraint_sets
  BY <1>1, <1>9, CallBegins, CallsLeave, ReadsType
     DEF Proceed, RejectCommit, ReplayCommit, ExhaustedCommit, AcceptCommit
<1>10. ASSUME Withdraw \/ (\E s \in Subject : SourceChange(s)) \/ UNCHANGED vars
       PROVE  superseding' = superseding /\ constraint_sets' = constraint_sets
  BY <1>10 DEF Withdraw, Revoke, Retire, InvalidateScalar, InvalidateDependents, Invalidate,
               InvalidateConstraints, InvalidatePublisher, SourceChange, vars, runtime
<1>11. QED  BY <1>1, <1>6, <1>7, <1>8, <1>9, <1>10 DEF Next

LEMMA SerialInvariant == SerialSpec => []SerialInv
<1> DEFINE Known == TypeOK /\ AuthorityIsStored /\ EvidenceReaders
           Rest == /\ OneAtATime /\ SourcesStarted /\ OutcomeIsState /\ CallUpToDate
                   /\ SupersedingCurrent /\ RevokedNeverAuthorizing /\ SupersededIsWithdrawn
<1>1. Init => Rest
  <2> SUFFICES ASSUME Init PROVE Rest
    OBVIOUS
  <2>1. \A p \in Path : ~Authorizing(p) /\ ~is_authorizing_outcome(records[p].outcome)
    BY DEF Init, Authorizing, AuthorizingState, Absent, is_authorizing_outcome
  <2>2. (\A t \in Thread : op[t] = Idle /\ op[t].pc = "idle") /\ superseding = {}
    BY IdleFacts DEF Init
  <2>3. SourcesStarted
    BY DEF Init, SourcesStarted
  <2>4. OneAtATime /\ SupersedingCurrent
    BY <2>2 DEF OneAtATime, SupersedingCurrent
  <2>5. CallUpToDate
    BY <2>2 DEF CallUpToDate, Withheld, AttemptSeen
  <2>6. QED
    BY <2>1, <2>3, <2>4, <2>5 DEF OutcomeIsState, RevokedNeverAuthorizing, SupersededIsWithdrawn
<1>2. Known /\ Rest /\ [SerialNext]_vars => Rest'
  <2> SUFFICES ASSUME Known, Rest, [SerialNext]_vars PROVE Rest'
    OBVIOUS
  <2>1. SerialInv /\ [Next]_vars
    BY DEF SerialInv, SerialNext
  <2>2. QED
    BY <2>1, OneAtATimeStep, SourcesStartedStep, OutcomeIsStateStep, CallUpToDateStep,
       SupersedingCurrentStep, RevokedStep, SupersededIsWithdrawnStep
<1>3. ExpectationInv /\ InvalidationInv => Known
  BY DEF ExpectationInv, InvalidationInv
<1>4. Known /\ Rest => SerialInv
  BY DEF SerialInv
<1> HIDE DEF Known, Rest
<1>5. QED
  BY <1>1, <1>2, <1>3, <1>4, SerialRefines, ExpectationInvariant, InvalidationInvariant, PTL
     DEF SerialSpec

\* "a revoked path never returns to authority": true of callers that wait for each
\* other, for any number of them.
THEOREM RevokedNeverReturns == SerialSpec => []RevokedNeverAuthorizing
<1>1. SerialInv => RevokedNeverAuthorizing
  BY DEF SerialInv
<1>2. QED  BY <1>1, SerialInvariant, PTL

\* Authority under a replaced constraint set always is about to be withdrawn.
THEOREM SupersededIsAlwaysWithdrawn == SerialSpec => []SupersededIsWithdrawn
<1>1. SerialInv => SupersededIsWithdrawn
  BY DEF SerialInv
<1>2. QED  BY <1>1, SerialInvariant, PTL

\* An attempt id is never taken over by another input while it is remembered.
THEOREM AttemptAlwaysKeepsInput == SerialSpec => AttemptKeepsInput
<1>1. SerialInv /\ [SerialNext]_vars =>
        [\A a \in Attempt :
            attempts[a] # NoInput => attempts'[a] \in {NoInput, attempts[a]}]_attempts
  <2> SUFFICES ASSUME SerialInv, [SerialNext]_vars, NEW a \in Attempt, attempts[a] # NoInput
               PROVE  attempts'[a] \in {NoInput, attempts[a]}
    OBVIOUS
  <2>1. TypeOK /\ [Next]_vars
    BY DEF SerialInv, SerialNext
  <2>2. CASE attempts' = attempts
    BY <2>2
  <2>3. ASSUME NEW t \in Thread, ReplayCommit(t) \/ AcceptCommit(t)
        PROVE  attempts'[a] \in {NoInput, attempts[a]}
    <3> DEFINE input == InputDigest(op[t].definition, op[t].evidence)
    <3>1. op[t].pc = "commit" /\ RememberAttempt(op[t].attempt, input)
      BY <2>3 DEF ReplayCommit, AcceptCommit
    <3>2. op[t].attempt # NoAttempt => attempts[op[t].attempt] \in {NoInput, input}
      BY <3>1 DEF SerialInv, CallUpToDate, AttemptSeen
    <3>3. attempts \in [Attempt -> Input \cup {NoInput}]
      BY <2>1 DEF TypeOK
    <3> HIDE DEF input
    <3>4. QED  BY <3>1, <3>2, <3>3 DEF RememberAttempt
  <2>4. ASSUME NEW t \in Thread, Begin(t) \/ Proceed(t), ~ReplayCommit(t), ~AcceptCommit(t)
        PROVE  attempts' = attempts
    BY <2>1, <2>4, CallBegins, ReadsType DEF Proceed, RejectCommit, ExhaustedCommit, runtime
  <2>5. ASSUME \/ Withdraw
               \/ \E c \in ConstraintSet : RegisterConstraintSet(c)
               \/ \E m \in superseding : MarkSuperseded(m[1], m[2])
               \/ \E s \in Subject : SourceChange(s)
               \/ UNCHANGED vars
        PROVE  attempts' = attempts
    BY <2>5 DEF Withdraw, Revoke, Retire, InvalidateScalar, InvalidateDependents, Invalidate,
                InvalidateConstraints, InvalidatePublisher, RegisterConstraintSet,
                MarkSuperseded, SourceChange, runtime, vars
  <2>6. QED  BY <2>1, <2>2, <2>3, <2>4, <2>5 DEF Next
<1>2. QED  BY <1>1, SerialInvariant, PTL DEF SerialSpec, AttemptKeepsInput

\* What an evaluation authorizes on a path without authority, it would authorize on a
\* path nobody knows: a draining element never lets new authority through.
THEOREM DrainingAlwaysRefusesNewAuthority == SerialSpec => DrainingRefusesNewAuthority
<1>1. SerialInv /\ [SerialNext]_vars =>
        [\A t \in Evaluator :
          LET p == PathIn(t) IN
          /\ op[t].pc = "commit" /\ op'[t].pc = "idle"
          /\ ~Authorizing(p)
          /\ records'[p].state \in AuthorizingState
          => is_authorizing_outcome(PrimaryOutcome(records'[p].definition,
                                                   records'[p].evidence, FALSE))]_vars
  <2> SUFFICES ASSUME SerialInv, [SerialNext]_vars, NEW t \in Evaluator,
                      op[t].pc = "commit", ~Authorizing(PathIn(t)),
                      records'[PathIn(t)].state \in AuthorizingState
               PROVE  is_authorizing_outcome(PrimaryOutcome(records'[PathIn(t)].definition,
                                                            records'[PathIn(t)].evidence, FALSE))
    OBVIOUS
  <2> DEFINE p == PathIn(t)
  <2>1. TypeOK /\ OneAtATime /\ [Next]_vars /\ t \in Thread
    BY DEF SerialInv, SerialNext, Thread
  <2>2. p \in Path
    BY <2>1, DecisionType
  <2>3. Stored(p)
    BY <2>1, <2>2, AuthorityStep DEF Authorizing
  <2>4. PICK u \in Thread :
          /\ AcceptCommit(u)
          /\ records'[p].state = state_for_outcome(records'[p].outcome)
          /\ records'[p].definition = op[u].definition
          /\ records'[p].evidence = op[u].evidence
          /\ records'[p].outcome = PrimaryOutcome(op[u].definition, op[u].evidence,
                                                  op[u].existing_authorized)
    BY <2>1, <2>2, <2>3, StoredProperties
  <2>5. u = t
    BY <2>1, <2>4, IdleFacts DEF AcceptCommit, OneAtATime
  <2>6. op[t].existing_authorized = FALSE
    <3>1. op[t].existing_authorized \in BOOLEAN
      BY <2>1 DEF TypeOK, Call
    <3>2. op[t].existing_authorized => Authorizing(p)
      BY <2>1 DEF SerialInv, CallUpToDate, Withheld
    <3>3. QED  BY <3>1, <3>2
  <2>7. QED  BY <2>4, <2>5, <2>6, StateForOutcomeType DEF is_authorizing_outcome
<1>2. QED  BY <1>1, SerialInvariant, PTL DEF SerialSpec, DrainingRefusesNewAuthority

=============================================================================
