-------------------------- MODULE PathRuntimeContract --------------------------
(***************************************************************************)
(* PathRuntime implements AuthorityContract, for every value of the        *)
(* constants: each step of a call, a notification or a registration is one *)
(* step of the contract or leaves everything the contract speaks of alone. *)
(***************************************************************************)
EXTENDS PathRuntimeProofs

\* The variables of the contract, as the runtime's state gives them.
AuthorityNow == [p \in Path |-> AuthorityOf(records[p])]
Question(t) == IF op[t].pc \in DecidingPcs(t) THEN <<PathIn(t), op[t].expected>> ELSE <<>>
AskedNow == [t \in Thread |-> Question(t)]

Stutters == AuthorityNow' = AuthorityNow /\ AskedNow' = AskedNow
Implemented == Contract!Next \/ Stutters

-----------------------------------------------------------------------------
(* Records.                                                                *)

LEMMA AuthorityOfAbsent == AuthorityOf(Absent) = Contract!Undecided
BY DEF AuthorityOf, Absent, Contract!Undecided, NoWorker

\* What the contract's operators do to the authority of a record.
LEMMA AdvancedIs ==
    ASSUME NEW r, NEW state
    PROVE  Contract!Advanced(AuthorityOf(r), state)
             = [generation |-> r.generation + 1, state |-> state,
                revoked |-> r.revocation # NoRevocation, retired |-> r.retired,
                worker |-> r.worker]
<1> DEFINE a == AuthorityOf(r)
           next == [generation |-> r.generation + 1, state |-> r.state,
                    revoked |-> r.revocation # NoRevocation, retired |-> r.retired,
                    worker |-> r.worker]
<1>1. [a EXCEPT !.generation = a.generation + 1] = next
  BY SMT DEF AuthorityOf
<1>2. [next EXCEPT !.state = state]
        = [generation |-> r.generation + 1, state |-> state,
           revoked |-> r.revocation # NoRevocation, retired |-> r.retired, worker |-> r.worker]
  BY SMT
<1>3. Contract!Advanced(a, state)
        = [[a EXCEPT !.generation = a.generation + 1] EXCEPT !.state = state]
  BY SMT DEF Contract!Advanced
<1> HIDE DEF a, next
<1>4. QED  BY <1>1, <1>2, <1>3 DEF a

\* The next generation of a record: marked, decided, revoked and retired.
LEMMA AuthorityOfAdvanced ==
    ASSUME NEW r, NEW n, NEW state, n.generation = r.generation + 1, n.state = state,
           n.revocation = r.revocation, n.retired = r.retired, n.worker = r.worker
    PROVE  AuthorityOf(n) = Contract!Advanced(AuthorityOf(r), state)
BY AdvancedIs, Zenon DEF AuthorityOf

LEMMA AuthorityOfDecided ==
    ASSUME NEW r, NEW n, NEW state, n.generation = r.generation + 1, n.state = state,
           n.revocation = r.revocation, n.retired = r.retired
    PROVE  AuthorityOf(n)
             = [Contract!Advanced(AuthorityOf(r), state) EXCEPT !.worker = n.worker]
<1> DEFINE a == Contract!Advanced(AuthorityOf(r), state)
           next(v) == [generation |-> r.generation + 1, state |-> state,
                      revoked |-> r.revocation # NoRevocation, retired |-> r.retired, worker |-> v]
<1>1. \A v : [a EXCEPT !.worker = v] = next(v)
  BY AdvancedIs
<1>2. AuthorityOf(n) = next(n.worker)
  BY Zenon DEF AuthorityOf
<1> HIDE DEF a, next
<1>3. QED  BY <1>1, <1>2 DEF a

LEMMA AuthorityOfRevoked ==
    ASSUME NEW r, NEW n, NEW state, n.generation = r.generation + 1, n.state = state,
           n.worker = r.worker, n.retired = r.retired, n.revocation # NoRevocation
    PROVE  AuthorityOf(n)
             = [Contract!Advanced(AuthorityOf(r), state) EXCEPT !.revoked = TRUE]
<1> DEFINE a == Contract!Advanced(AuthorityOf(r), state)
           next(v) == [generation |-> r.generation + 1, state |-> state,
                      revoked |-> v, retired |-> r.retired, worker |-> r.worker]
<1>1. \A v : [a EXCEPT !.revoked = v] = next(v)
  BY AdvancedIs
<1>2. AuthorityOf(n) = next(TRUE)
  BY Zenon DEF AuthorityOf
<1> HIDE DEF a, next
<1>3. QED  BY <1>1, <1>2 DEF a

LEMMA AuthorityOfRetired ==
    ASSUME NEW r, NEW n, NEW state, n.generation = r.generation + 1, n.state = state,
           n.worker = r.worker, n.revocation = r.revocation, n.retired = TRUE
    PROVE  AuthorityOf(n)
             = [Contract!Advanced(AuthorityOf(r), state) EXCEPT !.retired = TRUE]
<1> DEFINE a == Contract!Advanced(AuthorityOf(r), state)
           next(v) == [generation |-> r.generation + 1, state |-> state,
                      revoked |-> r.revocation # NoRevocation, retired |-> v, worker |-> r.worker]
<1>1. \A v : [a EXCEPT !.retired = v] = next(v)
  BY AdvancedIs
<1>2. AuthorityOf(n) = next(TRUE)
  BY Zenon DEF AuthorityOf
<1> HIDE DEF a, next
<1>3. QED  BY <1>1, <1>2 DEF a

LEMMA AuthorityOfMarked ==
    ASSUME TypeOK, NEW p \in Path
    PROVE  AuthorityOf(MarkRevalidationRequired(records[p])) = Contract!Marked(p)
<1>1. records[p] \in Record
  BY DEF TypeOK
<1>2. CASE records[p].state = "REVALIDATION_REQUIRED" \/ ~can_advance(records[p].generation)
  BY <1>1, <1>2
     DEF MarkRevalidationRequired, Contract!Marked, Contract!Exhausted, AuthorityOf, can_advance
<1>3. CASE ~(records[p].state = "REVALIDATION_REQUIRED" \/ ~can_advance(records[p].generation))
  <2> DEFINE n == MarkRevalidationRequired(records[p])
  <2>1. /\ n.generation = records[p].generation + 1 /\ n.state = "REVALIDATION_REQUIRED"
        /\ n.worker = records[p].worker /\ n.revocation = records[p].revocation
        /\ n.retired = records[p].retired
    <3>1. n # records[p]
      BY <1>1, <1>3, MarkProperties
    <3>2. QED  BY <1>1, <1>3, MarkProperties
  <2> HIDE DEF n
  <2>2. AuthorityOf(n)
          = Contract!Advanced(AuthorityOf(records[p]), "REVALIDATION_REQUIRED")
    BY <2>1, AuthorityOfAdvanced
  <2>3. Contract!Marked(p)
          = Contract!Advanced(AuthorityOf(records[p]), "REVALIDATION_REQUIRED")
    BY <1>3 DEF Contract!Marked, Contract!Exhausted, AuthorityOf, can_advance
  <2>4. QED  BY <2>2, <2>3 DEF n
<1>4. QED  BY <1>2, <1>3

LEMMA NowType ==
    ASSUME TypeOK, NEW p \in Path
    PROVE  /\ AuthorityNow[p] = AuthorityOf(records[p])
           /\ AuthorityNow[p].generation = records[p].generation
           /\ AuthorityNow[p].retired = records[p].retired
           /\ AuthorityNow[p].revoked = Revoked(p)
BY DEF AuthorityNow, AuthorityOf, Revoked

-----------------------------------------------------------------------------
(* Steps that are no one's call.                                           *)

LEMMA QuestionsStay ==
    ASSUME UNCHANGED op
    PROVE  AskedNow' = AskedNow
BY DEF AskedNow, Question, DecidingPcs, PathIn

\* A mark of any records that exist is the contract's Invalidate.
LEMMA MarksImplement ==
    ASSUME TypeOK, NEW paths \in SUBSET Path, MarkAll(paths), \A p \in paths : Present(p),
           UNCHANGED op
    PROVE  Contract!Next
<1>1. \A p \in paths : Contract!Decided(p)
  BY DEF Contract!Decided, Present, AuthorityOf
<1>2. AuthorityNow' = [p \in Path |-> IF p \in paths THEN Contract!Marked(p) ELSE AuthorityNow[p]]
  <2>1. AuthorityNow' = [p \in Path |-> AuthorityOf(records'[p])]
    BY DEF AuthorityNow, AuthorityOf
  <2>2. ASSUME NEW p \in Path
        PROVE  AuthorityOf(records'[p]) = IF p \in paths THEN Contract!Marked(p) ELSE AuthorityNow[p]
    BY AuthorityOfMarked, NowType DEF MarkAll
  <2>3. QED  BY <2>1, <2>2
<1>3. Contract!Invalidate(paths)
  BY <1>1, <1>2, QuestionsStay DEF Contract!Invalidate, AuthorityNow, AskedNow, Question
<1>4. QED  BY <1>3 DEF Contract!Next

\* revoke() and retire() are the contract's.
LEMMA WithdrawalsImplement ==
    ASSUME TypeOK, NEW p \in Path,
           (\E reason \in Reason : Revoke(p, reason)) \/ Retire(p)
    PROVE  Contract!Next
<1>1. records[p] \in Record /\ Present(p) /\ can_advance(records[p].generation)
  BY DEF Revoke, Retire, TypeOK
<1>2. Contract!Decided(p) /\ ~Contract!Exhausted(p)
  BY <1>1 DEF Contract!Decided, Contract!Exhausted, Present, can_advance, AuthorityOf
<1>3. ASSUME NEW r, records' = [records EXCEPT ![p] = r]
      PROVE  AuthorityNow' = [AuthorityNow EXCEPT ![p] = AuthorityOf(r)]
  BY <1>3 DEF AuthorityNow, AuthorityOf, TypeOK
<1>4. ASSUME NEW reason \in Reason, Revoke(p, reason) PROVE Contract!Revoke(p)
  <2> DEFINE r == WithRevocation(records[p], reason)
  <2>1. /\ r.generation = records[p].generation + 1 /\ r.state = "REVOKED"
        /\ r.revocation = reason /\ r.retired = records[p].retired
        /\ r.worker = records[p].worker
    BY <1>1, RevokedProperties
  <2>2. records' = [records EXCEPT ![p] = r] /\ UNCHANGED op
    BY <1>4 DEF Revoke
  <2> HIDE DEF r
  <2>3. AuthorityOf(r)
          = [Contract!Advanced(AuthorityOf(records[p]), "REVOKED") EXCEPT !.revoked = TRUE]
    BY <2>1, SubjectsAssumption, AuthorityOfRevoked
  <2>4. AuthorityNow' = [AuthorityNow EXCEPT ![p] =
                            [Contract!Advanced(@, "REVOKED") EXCEPT !.revoked = TRUE]]
    BY <1>3, <2>2, <2>3, NowType
  <2>5. QED
    BY <1>2, <2>2, <2>4, QuestionsStay
       DEF Contract!Revoke, AuthorityNow, AskedNow, Question
<1>5. ASSUME Retire(p) PROVE Contract!Retire(p)
  <2> DEFINE r == WithRetirement(records[p])
  <2>1. /\ r.generation = records[p].generation + 1 /\ r.state = "RETIRED"
        /\ r.revocation = records[p].revocation /\ r.retired = TRUE
        /\ r.worker = records[p].worker
    BY <1>1, RetiredProperties DEF Record
  <2>2. /\ records' = [records EXCEPT ![p] = r] /\ UNCHANGED op
        /\ ~AuthorityNow[p].retired
    BY <1>5, NowType DEF Retire
  <2> HIDE DEF r
  <2>3. AuthorityOf(r)
          = [Contract!Advanced(AuthorityOf(records[p]), "RETIRED") EXCEPT !.retired = TRUE]
    BY <2>1, AuthorityOfRetired, ZenonT(60)
  <2>4. AuthorityNow' = [AuthorityNow EXCEPT ![p] =
                            [Contract!Advanced(@, "RETIRED") EXCEPT !.retired = TRUE]]
    BY <1>3, <2>2, <2>3, NowType
  <2>5. QED
    BY <1>2, <2>2, <2>4, QuestionsStay
       DEF Contract!Retire, AuthorityNow, AskedNow, Question
<1>6. QED  BY <1>4, <1>5 DEF Contract!Next

-----------------------------------------------------------------------------
(* Steps of a call.                                                        *)

\* A call is one thread's step.
LEMMA OthersWait ==
    ASSUME TypeOK, NEW t \in Thread, Begin(t) \/ Proceed(t), NEW u \in Thread, u # t
    PROVE  op'[u] = op[u]
<1>1. CASE Begin(t)
  BY <1>1 DEF Begin, BeginEvaluate, BeginPublish, TypeOK
<1>2. CASE Proceed(t)
  BY <1>2 DEF Proceed, ReadEpoch, CheckConstraints, CheckAttempt, CheckExisting, ReadEvidence,
              RejectCommit, ReplayCommit, ExhaustedCommit, AcceptCommit, Goto, Return, TypeOK
<1>3. QED  BY <1>1, <1>2

LEMMA QuestionMoves ==
    ASSUME TypeOK, NEW t \in Thread, Begin(t) \/ Proceed(t)
    PROVE  AskedNow' = [AskedNow EXCEPT ![t] = Question(t)']
<1>1. \A u \in Thread : u # t => Question(u)' = Question(u)
  BY OthersWait DEF Question, DecidingPcs, PathIn
<1>2. AskedNow' = [u \in Thread |-> Question(u)']
  BY DEF AskedNow
<1>3. AskedNow = [u \in Thread |-> Question(u)]
  BY DEF AskedNow
<1> HIDE DEF AskedNow
<1>4. QED  BY <1>1, <1>2, <1>3, Zenon

LEMMA SameQuestion ==
    ASSUME TypeOK, NEW t \in Thread, Begin(t) \/ Proceed(t), Question(t)' = Question(t)
    PROVE  AskedNow' = AskedNow
<1>1. \A u \in Thread : Question(u)' = Question(u)
  BY OthersWait DEF Question, DecidingPcs, PathIn
<1>2. AskedNow' = [u \in Thread |-> Question(u)']
  BY DEF AskedNow
<1>3. QED  BY <1>1, <1>2, Zenon DEF AskedNow

LEMMA SameAuthority ==
    ASSUME UNCHANGED records
    PROVE  AuthorityNow' = AuthorityNow
BY DEF AuthorityNow, AuthorityOf

\* The steps before a call has looked at its path, and the reads after it.
LEMMA QuietSteps ==
    ASSUME ExpectationInv, NEW t \in Thread,
           \/ Begin(t) \/ ReadEpoch(t) \/ CheckConstraints(t)
           \/ \E s \in Subject : ReadEvidence(t, s)
    PROVE  Stutters
<1>1. TypeOK /\ EvidenceReaders
  BY DEF ExpectationInv
<1>2. UNCHANGED records
  BY <1>1, ReadsType DEF Begin, BeginEvaluate, BeginPublish, runtime
<1>3. op'[t] = op[t] \/ op'[t].pc = "idle" \/ Started(t) \/ Continued(t)
  BY <1>1, BeginStep, ProceedStep DEF Proceed
<1>4. op \in [Thread -> Call] /\ op[t] \in Call
  BY <1>1 DEF TypeOK
<1>5. Question(t)' = Question(t)
  <2>1. CASE Begin(t)
    <3>1. op[t].pc = "idle" /\ op'[t].pc \notin {"evidence", "commit", "attempt"}
      BY <1>1, <1>3, <2>1, BeginStep DEF Begin, BeginEvaluate, BeginPublish, Started
    <3>2. QED  BY <3>1 DEF Question, DecidingPcs
  <2>2. CASE ReadEpoch(t)
    <3>1. op[t].pc = "epoch" /\ op'[t].pc \in {"idle", "constraints", "epoch"}
      BY <1>3, <1>4, <2>2, IdleFacts DEF ReadEpoch, Goto, Return, Call
    <3>2. QED  BY <3>1 DEF Question, DecidingPcs
  <2>3. CASE CheckConstraints(t)
    <3>1. op[t].pc = "constraints" /\ op'[t].pc \in {"idle", AfterConstraints(t)}
      BY <1>4, <2>3, IdleFacts DEF CheckConstraints, Goto, Return, Call
    <3>2. QED  BY <3>1 DEF Question, DecidingPcs, AfterConstraints
  <2>4. CASE \E s \in Subject : ReadEvidence(t, s)
    <3>1. /\ op[t].pc = "evidence" /\ op'[t].pc \in {"evidence", "commit"}
          /\ op'[t].definition = op[t].definition /\ op'[t].expected = op[t].expected
          /\ t \in Evaluator
      <4>1. PICK s \in Subject, pc \in {"evidence", "commit"} :
                op' = [op EXCEPT ![t].evidence[s] = sources[s], ![t].pc = pc]
        BY <2>4 DEF ReadEvidence
      <4>2. op[t].pc = "evidence"
        BY <2>4 DEF ReadEvidence
      <4>3. QED  BY <1>1, <1>4, <4>1, <4>2 DEF EvidenceReaders, Call
    <3>2. QED  BY <3>1 DEF Question, DecidingPcs, PathIn
  <2>5. QED  BY <2>1, <2>2, <2>3, <2>4
<1>6. Begin(t) \/ Proceed(t)
  BY DEF Proceed
<1>7. QED  BY <1>1, <1>2, <1>5, <1>6, SameQuestion, SameAuthority DEF Stutters

LEMMA Asked ==
    ASSUME TypeOK, NEW t \in Thread, op[t].pc \in DecidingPcs(t)
    PROVE  /\ AskedNow[t] = <<PathIn(t), op[t].expected>>
           /\ AskedNow[t] # <<>>
           /\ AskedNow[t][1] = PathIn(t) /\ AskedNow[t][2] = op[t].expected
BY DEF AskedNow, Question

\* A call that returns without a decision declines, if it had asked.
LEMMA ReturnsImplement ==
    ASSUME TypeOK, NEW t \in Thread, Proceed(t), Return(t), UNCHANGED records
    PROVE  Implemented
<1>1. op'[t].pc = "idle"
  BY IdleFacts DEF Return, TypeOK
<1>2. Question(t)' = <<>>
  BY <1>1 DEF Question, DecidingPcs
<1>3. CASE op[t].pc \in DecidingPcs(t)
  <2>1. AskedNow' = [AskedNow EXCEPT ![t] = <<>>]
    BY <1>2, QuestionMoves
  <2>2. Contract!Decline(t)
    BY <1>3, <2>1, Asked, SameAuthority
       DEF Contract!Decline, Contract!NoQuestion, AskedNow, Question, AuthorityNow
  <2>3. QED  BY <2>2 DEF Contract!Next, Implemented
<1>4. CASE op[t].pc \notin DecidingPcs(t)
  BY <1>2, <1>4, SameQuestion, SameAuthority DEF Question, Implemented, Stutters
<1>5. QED  BY <1>3, <1>4

\* The attempt index changes no question: only a publication asks before it.
LEMMA AttemptImplements ==
    ASSUME TypeOK, NEW t \in Thread, CheckAttempt(t)
    PROVE  Implemented
<1>1. UNCHANGED records /\ op \in [Thread -> Call] /\ op[t] \in Call
  BY DEF CheckAttempt, runtime, TypeOK
<1>2. CASE Return(t)
  BY <1>1, <1>2, ReturnsImplement DEF Proceed
<1>3. CASE Goto(t, AfterAttempt(t))
  <2>1. /\ op[t].pc = "attempt" /\ op'[t].pc = AfterAttempt(t)
        /\ op'[t].definition = op[t].definition /\ op'[t].expected = op[t].expected
    BY <1>1, <1>3 DEF CheckAttempt, Goto, Call
  <2>2. Question(t)' = Question(t)
    BY <2>1 DEF Question, DecidingPcs, PathIn, AfterAttempt
  <2>3. QED
    BY <1>1, <2>2, SameQuestion, SameAuthority DEF Proceed, Implemented, Stutters
<1>4. QED  BY <1>2, <1>3 DEF CheckAttempt

\* A call asks for its decision when it sees that its path is not withdrawn.
LEMMA ExistingImplements ==
    ASSUME ExpectationInv, NEW t \in Thread, CheckExisting(t)
    PROVE  Implemented
<1>1. /\ TypeOK /\ ExpectationNotAhead /\ UNCHANGED records
      /\ op \in [Thread -> Call] /\ op[t] \in Call
  BY DEF ExpectationInv, CheckExisting, runtime, TypeOK
<1>2. CASE Return(t)
  BY <1>1, <1>2, ReturnsImplement DEF Proceed
<1>3. CASE ~Return(t)
  <2> DEFINE p == PathIn(t)
             expected == op[t].expected
  <2>1. PICK b : /\ op' = [op EXCEPT ![t].pc = AfterExisting(t), ![t].existing_authorized = b]
                 /\ op[t].pc = "existing" /\ ~Revoked(p) /\ ~records[p].retired
    BY <1>3 DEF CheckExisting, Revoked, RecordIn
  <2>2. /\ op'[t].pc = AfterExisting(t)
        /\ op'[t].definition = op[t].definition /\ op'[t].expected = op[t].expected
    BY <1>1, <2>1 DEF Call
  <2>3. /\ Question(t)' = <<p, expected>> /\ AskedNow[t] = <<>>
    <3>1. AfterExisting(t) \in DecidingPcs(t) /\ op[t].pc \notin DecidingPcs(t)
      BY <2>1 DEF DecidingPcs, AfterExisting
    <3>2. DecidingPcs(t)' = DecidingPcs(t) /\ PathIn(t)' = PathIn(t)
      BY <2>2 DEF DecidingPcs, PathIn
    <3>3. QED  BY <2>2, <3>1, <3>2 DEF Question, AskedNow
  <2>4. p \in Path /\ records[p].generation \in Generation
    BY <1>1, DecisionType DEF TypeOK, Record
  <2>5. expected \in {NoExpectation} \cup (0..records[p].generation)
    <3>1. expected \in {NoExpectation} \cup Generation
      BY <1>1 DEF Call
    <3>2. expected # NoExpectation => expected <= records[p].generation
      BY <1>1, <2>1 DEF ExpectationNotAhead, RecordIn
    <3>3. QED  BY <2>4, <3>1, <3>2, ConstantsAssumption DEF Generation
  <2>6. expected \in {NoExpectation} \cup (0..MaxGeneration)
    BY <1>1 DEF Call, Generation
  <2>7. AskedNow' = [AskedNow EXCEPT ![t] = <<p, expected>>]
    BY <1>1, <2>3, QuestionMoves DEF Proceed
  <2>8. ~Contract!Withdrawn(p)
    BY <1>1, <2>1, <2>4, NowType DEF Contract!Withdrawn, AuthorityNow
  <2>9. /\ expected \in {Contract!NoExpectation} \cup (0..AuthorityNow[p].generation)
        /\ expected \in {Contract!NoExpectation} \cup (0..MaxGeneration)
    BY <1>1, <2>4, <2>5, <2>6, NowType DEF Contract!NoExpectation, NoExpectation
  <2> HIDE DEF p, expected
  <2>10. PICK q, e : q = p /\ e = expected
    OBVIOUS
  <2>11. Contract!Ask(t, q, e)
    BY <1>1, <2>3, <2>7, <2>8, <2>9, <2>10, SameAuthority
       DEF Contract!Ask, Contract!NoQuestion, AskedNow, Question, AuthorityNow
  <2>12. q \in Path /\ e \in {Contract!NoExpectation} \cup (0..MaxGeneration)
    BY <2>4, <2>9, <2>10
  <2>13. QED  BY <2>11, <2>12 DEF Contract!Next, Implemented
<1>4. QED  BY <1>2, <1>3

\* commit() stores the decision the call had asked for.
LEMMA CommitImplements ==
    ASSUME TypeOK, NEW t \in Thread, AcceptCommit(t)
    PROVE  Implemented
<1> DEFINE p == PathIn(t)
           r == Committed(t)
<1>1. /\ op[t].pc = "commit" /\ can_advance(records[p].generation)
      /\ op[t].expected \in {NoExpectation, records[p].generation}
      /\ records' = [records EXCEPT ![p] = r] /\ Return(t)
  BY DEF AcceptCommit, CommitRejected, UnexpectedGeneration, RecordIn
<1>2. /\ r.generation = records[p].generation + 1 /\ r.state = state_for_outcome(r.outcome)
      /\ r.revocation = records[p].revocation /\ r.retired = records[p].retired
      /\ r.worker = op[t].worker
      /\ r.outcome \in {"HARD_FAILURE", "AUTHORIZED", "CONDITIONALLY_AUTHORIZED"}
  BY <1>1, CommittedProperties, PrimaryOutcomeType DEF RecordIn
<1>3. r.state \in Contract!DecidedState /\ op[t].worker \in Worker /\ p \in Path
  <2>1. op[t] \in Call /\ p \in Path
    BY DecisionType DEF TypeOK
  <2>2. r.state \in {"REJECTED", "AUTHORIZED", "CONDITIONALLY_AUTHORIZED"}
    BY <1>2 DEF state_for_outcome
  <2>3. QED  BY <2>1, <2>2 DEF Contract!DecidedState, Contract!AuthorizingState, Call
<1> HIDE DEF p, r
<1>4. AuthorityOf(r)
        = [Contract!Advanced(AuthorityOf(records[p]), r.state) EXCEPT !.worker = r.worker]
  BY <1>2, AuthorityOfDecided
<1>5. PICK q, state, w : q = p /\ state = r.state /\ w = op[t].worker
  OBVIOUS
<1>6. AuthorityNow' = [AuthorityNow EXCEPT ![q] =
                          [Contract!Advanced(@, state) EXCEPT !.worker = w]]
  <2>1. AuthorityNow' = [AuthorityNow EXCEPT ![p] = AuthorityOf(r)]
    BY <1>1, <1>3 DEF AuthorityNow, AuthorityOf, TypeOK
  <2>2. QED  BY <1>2, <1>3, <1>4, <1>5, <2>1, NowType
<1>7. /\ AskedNow[t][1] = q /\ AskedNow[t] # <<>>
      /\ AskedNow[t][2] \in {NoExpectation, AuthorityNow[q].generation}
  <2>1. op[t].pc \in DecidingPcs(t)
    BY <1>1 DEF DecidingPcs
  <2>2. QED  BY <1>1, <1>3, <1>5, <2>1, Asked, NowType DEF p
<1>8. AskedNow' = [AskedNow EXCEPT ![t] = <<>>]
  <2>1. op'[t].pc = "idle"
    BY <1>1, IdleFacts DEF Return, TypeOK
  <2>2. Question(t)' = <<>>
    BY <2>1 DEF Question, DecidingPcs
  <2>3. QED  BY <2>2, QuestionMoves DEF Proceed
<1>9. ~Contract!Exhausted(q)
  BY <1>1, <1>3, <1>5, NowType DEF Contract!Exhausted, can_advance, AuthorityNow, p
<1>10. Contract!Decide(t, state, w)
  BY <1>6, <1>7, <1>8, <1>9
     DEF Contract!Decide, Contract!NoQuestion, Contract!NoExpectation, NoExpectation,
         AskedNow, Question, AuthorityNow
<1>11. QED  BY <1>3, <1>5, <1>10 DEF Contract!Next, Implemented

-----------------------------------------------------------------------------
(* The refinement.                                                         *)

LEMMA InitImplements == Init => Contract!Init
<1> SUFFICES ASSUME Init PROVE Contract!Init
  OBVIOUS
<1>1. AuthorityNow = [p \in Path |-> Contract!Undecided]
  BY AuthorityOfAbsent DEF Init, AuthorityNow
<1>2. AskedNow = [t \in Thread |-> <<>>]
  BY IdleFacts DEF Init, AskedNow, Question, DecidingPcs
<1>3. QED
  BY <1>1, <1>2 DEF Contract!Init, Contract!NoQuestion, AuthorityNow, AskedNow, Question

LEMMA StepImplements ==
    ASSUME ExpectationInv, [Next]_vars
    PROVE  Implemented
<1>1. TypeOK
  BY DEF ExpectationInv
<1>2. ASSUME NEW t \in Thread, Begin(t) PROVE Implemented
  BY <1>2, QuietSteps DEF Implemented
<1>3. ASSUME NEW t \in Thread, Proceed(t) PROVE Implemented
  <2>1. CASE ReadEpoch(t) \/ CheckConstraints(t) \/ \E s \in Subject : ReadEvidence(t, s)
    BY <2>1, QuietSteps DEF Implemented
  <2>2. CASE RejectCommit(t) \/ ReplayCommit(t) \/ ExhaustedCommit(t)
    BY <1>1, <1>3, <2>2, ReturnsImplement
       DEF RejectCommit, ReplayCommit, ExhaustedCommit, runtime
  <2>3. QED
    BY <1>1, <1>3, <2>1, <2>2, AttemptImplements, ExistingImplements, CommitImplements
       DEF Proceed
<1>4. CASE Withdraw
  <2>1. ASSUME NEW s \in Subject, NEW g, InvalidateScalar(s, g) \/ InvalidateDependents(s, g)
        PROVE  Contract!Next
    <3>1. PICK candidates \in SUBSET Path : Invalidate(s, g, candidates)
      BY <1>1, <2>1 DEF InvalidateScalar, InvalidateDependents, TypeOK
    <3>2. QED  BY <1>1, <3>1, MarksImplement DEF Invalidate
  <2>2. CASE InvalidateConstraints
    <3>1. PICK paths \in SUBSET Path : MarkAll(paths) /\ \A p \in paths : Present(p)
      BY <2>2 DEF InvalidateConstraints
    <3>2. QED  BY <1>1, <2>2, <3>1, MarksImplement DEF InvalidateConstraints, Implemented
  <2>3. ASSUME NEW w \in Worker, InvalidatePublisher(w) PROVE Contract!Next
    BY <1>1, <2>3, MarksImplement DEF InvalidatePublisher
  <2>4. QED
    BY <1>1, <1>4, <2>1, <2>2, <2>3, WithdrawalsImplement DEF Withdraw, Implemented
<1>5. ASSUME NEW m \in superseding, MarkSuperseded(m[1], m[2]) PROVE Implemented
  <2>1. m[1] \in Path
    BY <1>1 DEF TypeOK
  <2>2. QED  BY <1>1, <1>5, <2>1, MarksImplement DEF MarkSuperseded, Implemented
<1>6. CASE \/ \E c \in ConstraintSet : RegisterConstraintSet(c)
           \/ \E s \in Subject : SourceChange(s)
           \/ UNCHANGED vars
  <2>1. UNCHANGED <<records, op>>
    BY <1>6 DEF RegisterConstraintSet, SourceChange, vars, runtime
  <2>2. QED  BY <2>1, SameAuthority, QuestionsStay DEF Implemented, Stutters
<1>7. QED  BY <1>2, <1>3, <1>4, <1>5, <1>6 DEF Next

\* PathAuthorityRuntime keeps its contract: in every interleaving of evaluations,
\* publications, notifications, withdrawals and registrations each call takes effect at
\* one moment, or not at all.
THEOREM RuntimeImplementsContract == Spec => ImplementsContract
<1>1. ExpectationInv /\ [Next]_vars => [Contract!Next]_(Contract!contract)
  BY StepImplements
     DEF Implemented, Stutters, AuthorityNow, AskedNow, Question, Contract!contract
<1>2. QED
  BY <1>1, InitImplements, ExpectationInvariant, PTL
     DEF Spec, ImplementsContract, Contract!Spec
=============================================================================
