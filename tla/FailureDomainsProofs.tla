------------------------- MODULE FailureDomainsProofs -------------------------
(***************************************************************************)
(* Theorems about FailureDomains, for every value of its constants: any    *)
(* path, any history of memberships and domains, any number of threads.    *)
(***************************************************************************)
EXTENDS FailureDomains, SequenceTheorems, TLAPS

-----------------------------------------------------------------------------
(* The type invariant.                                                     *)

LEMMA HopFacts ==
    /\ DOMAIN Hops = 1..Len(Hops) /\ Len(Hops) \in Nat /\ Len(Hops) > 0
    /\ \A i \in DOMAIN Hops : Hops[i] \in Hop
<1>1. Hops \in Seq(Hop) /\ Hops # <<>>
  BY FailureDomainsAssumption
<1>2. QED  BY <1>1, LenProperties, EmptySeq DEF Hop

LEMMA SubjectFacts ==
    /\ \A h \in Hop : ElementOf(h) \in Subject /\ MemberOf(h) \in Subject
    /\ \A d \in Domain : RecordOf(d) \in Subject
BY DEF ElementOf, MemberOf, RecordOf, Subject, Elements

LEMMA NamedFacts ==
    ASSUME NEW r \in RuleSet
    PROVE  Named(r) \subseteq Subject
BY SubjectFacts, FailureDomainsAssumption DEF RuleSet, NoRules, Named

LEMMA ConstantTypes ==
    /\ NoEvidence \in EvidenceVector /\ Unseen \in [Hop -> Sight]
    /\ Idle \in Call /\ Absent \in Record
    /\ Resting \in [pc : {"idle", "current"}, copy : Copy, current : EvidenceVector, fresh : BOOLEAN]
<1>1. NoEvidence \in EvidenceVector
  BY DEF NoEvidence, EvidenceVector
<1>2. Unseen \in [Hop -> Sight]
  BY DEF Unseen, Sight
<1>3. NoRules \in RuleSet /\ "PATH_UNKNOWN" \in Outcome /\ 1 \in DOMAIN Hops
      /\ 0 \in 0..MaxGeneration
  BY HopFacts, FailureDomainsAssumption DEF RuleSet, Outcome
<1>4. Idle \in Call
  BY <1>1, <1>2, <1>3 DEF Idle, Call
<1>5. Absent \in Record
  BY <1>1, <1>2, <1>3 DEF Absent, Record
<1>6. [f \in Copied |-> Absent[f]] \in Copy
  BY <1>1, <1>3 DEF Absent, Copied, Copy
<1>7. QED  BY <1>1, <1>2, <1>4, <1>5, <1>6 DEF Resting

\* What a step of an evaluation does to its thread: it has bound nothing but what the
\* views have now beside what it had bound before.
Bound(t, call) ==
    /\ call \in Call /\ op' = [op EXCEPT ![t] = call]
    /\ \A s \in Subject : call.evidence[s] \in {op[t].evidence[s], sources[s], Unbound}

LEMMA EvidenceBound ==
    ASSUME TypeOK, NEW t \in Evaluator, NEW s \in Subject
    PROVE  LET e == [op[t].evidence EXCEPT ![s] = sources[s]] IN
           /\ e \in EvidenceVector
           /\ \A q \in Subject : e[q] \in {op[t].evidence[q], sources[q], Unbound}
<1>1. op[t].evidence \in EvidenceVector /\ sources[s] \in Nat
  BY DEF TypeOK, Call
<1>2. QED  BY <1>1 DEF EvidenceVector

LEMMA EvaluateStep ==
    ASSUME TypeOK, NEW t \in Evaluator, Evaluate(t)
    PROVE  /\ \E call : Bound(t, call)
           /\ UNCHANGED <<sources, watermarks, reading>>
           /\ record' = record \/ Commit(t)
<1>1. /\ op \in [Evaluator -> Call] /\ op[t] \in Call /\ op[t].evidence \in EvidenceVector
      /\ op[t].seen \in [Hop -> Sight] /\ op[t].hop \in DOMAIN Hops /\ AtHop(t) \in Hop
      /\ sources \in [Subject -> Nat]
  BY HopFacts DEF TypeOK, Call, AtHop
<1> DEFINE h == AtHop(t)
<1>2. ASSUME op' = [op EXCEPT ![t] = Idle] PROVE Bound(t, Idle)
  BY <1>2, ConstantTypes DEF Bound, Idle, NoEvidence
<1>3. ASSUME NEW sight \in Sight, NEW pc \in {"coverage", "generation"},
             op' = [op EXCEPT ![t] = [op[t] EXCEPT !.pc = pc,
                                                   !.seen = [op[t].seen EXCEPT ![h] = sight]]]
      PROVE  \E call : Bound(t, call)
  <2> DEFINE call == [op[t] EXCEPT !.pc = pc, !.seen = [op[t].seen EXCEPT ![h] = sight]]
  <2>1. [op[t].seen EXCEPT ![h] = sight] \in [Hop -> Sight]
    BY <1>1
  <2>2. call \in Call /\ call.evidence = op[t].evidence
    BY <1>1, <2>1 DEF Call
  <2>3. op' = [op EXCEPT ![t] = call]
    BY <1>1, <1>3
  <2> HIDE DEF call
  <2>4. QED  BY <2>2, <2>3 DEF Bound
<1>4. ASSUME NEW r \in Rules, Begin(t, r) PROVE \E call : Bound(t, call)
  <2> DEFINE call == [Idle EXCEPT !.rules = r, !.pc = "structural"]
  <2>1. call \in Call /\ call.evidence = NoEvidence
    BY ConstantTypes DEF Idle, Call, RuleSet
  <2>2. op' = [op EXCEPT ![t] = call]
    BY <1>4 DEF Begin
  <2> HIDE DEF call
  <2>3. QED  BY <2>1, <2>2 DEF Bound, NoEvidence
<1>5. ASSUME ReadElement(t) PROVE \E call : Bound(t, call)
  <2> DEFINE s == ElementOf(h)
             hop == IF op[t].hop = Len(Hops) THEN 1 ELSE op[t].hop + 1
             evidence == [op[t].evidence EXCEPT ![s] = sources[s]]
  <2>1. PICK pc \in {"structural", "members", "commit"} :
            op' = [op EXCEPT ![t].evidence[s] = sources[s], ![t].hop = hop, ![t].pc = pc]
    BY <1>5 DEF ReadElement
  <2>2. hop \in DOMAIN Hops
    BY <1>1, HopFacts
  <2>3. /\ evidence \in EvidenceVector
        /\ \A q \in Subject : evidence[q] \in {op[t].evidence[q], sources[q], Unbound}
    BY <1>1, SubjectFacts, EvidenceBound
  <2> HIDE DEF hop
  <2>4. op' = [op EXCEPT ![t] = [op[t] EXCEPT !.evidence = evidence, !.hop = hop, !.pc = pc]]
    BY <1>1, <2>1 DEF Call
  <2> HIDE DEF evidence
  <2> DEFINE call == [op[t] EXCEPT !.evidence = evidence, !.hop = hop, !.pc = pc]
  <2>5. call \in Call /\ call.evidence = evidence
    BY <1>1, <2>2, <2>3 DEF Call
  <2>6. op' = [op EXCEPT ![t] = call]
    BY <2>4
  <2> HIDE DEF call
  <2>7. QED  BY <2>3, <2>5, <2>6 DEF Bound
<1>6. ASSUME ReadMembers(t) PROVE \E call : Bound(t, call)
  <2> DEFINE sight == [op[t].seen[h] EXCEPT !.members = sources[MemberOf(h)]]
  <2>1. sight \in Sight
    BY <1>1, SubjectFacts DEF Sight
  <2>2. op' = [op EXCEPT ![t] = [op[t] EXCEPT !.pc = "coverage",
                                             !.seen = [op[t].seen EXCEPT ![h] = sight]]]
    BY <1>1, <1>6 DEF ReadMembers, Call, Sight
  <2> HIDE DEF sight
  <2>3. QED  BY <1>3, <2>1, <2>2
<1>7. ASSUME ReadCoverage(t) PROVE \E call : Bound(t, call)
  <2> DEFINE sight == [op[t].seen[h] EXCEPT !.coverage = sources[MemberOf(h)]]
  <2>1. sight \in Sight
    BY <1>1, SubjectFacts DEF Sight
  <2>2. op' = [op EXCEPT ![t] = [op[t] EXCEPT !.pc = "generation",
                                             !.seen = [op[t].seen EXCEPT ![h] = sight]]]
    BY <1>1, <1>7 DEF ReadCoverage, Call, Sight
  <2> HIDE DEF sight
  <2>3. QED  BY <1>3, <2>1, <2>2
<1>8. ASSUME ReadGeneration(t) PROVE \E call : Bound(t, call)
  <2> DEFINE s == MemberOf(h)
             evidence == [op[t].evidence EXCEPT ![s] = sources[s]]
             call == [op[t] EXCEPT !.pc = "domains", !.evidence = evidence]
  <2>1. /\ evidence \in EvidenceVector
        /\ \A q \in Subject : evidence[q] \in {op[t].evidence[q], sources[q], Unbound}
    BY <1>1, SubjectFacts, EvidenceBound
  <2>2. op' = [op EXCEPT ![t] = call]
    BY <1>1, <1>8 DEF ReadGeneration, Call
  <2> HIDE DEF evidence
  <2>3. call \in Call /\ call.evidence = evidence
    BY <1>1, <2>1 DEF Call
  <2> HIDE DEF call
  <2>4. QED  BY <2>1, <2>2, <2>3 DEF Bound
<1>9. ASSUME NEW d \in Domain, ReadDomain(t, d) PROVE \E call : Bound(t, call)
  <2> DEFINE s == RecordOf(d)
             evidence == [op[t].evidence EXCEPT ![s] = sources[s]]
             sight == [op[t].seen[h] EXCEPT !.domains = [op[t].seen[h].domains EXCEPT ![d] = sources[s]]]
             seen == [op[t].seen EXCEPT ![h] = sight]
             call == [op[t] EXCEPT !.evidence = evidence, !.seen = seen]
  <2>1. /\ evidence \in EvidenceVector
        /\ \A q \in Subject : evidence[q] \in {op[t].evidence[q], sources[q], Unbound}
    BY <1>1, SubjectFacts, EvidenceBound
  <2>2. sight \in Sight
    BY <1>1, SubjectFacts DEF Sight
  <2>3. op' = [op EXCEPT ![t] = call]
    BY <1>1, <1>9 DEF ReadDomain, Call, Sight
  <2> HIDE DEF evidence, sight
  <2>4. seen \in [Hop -> Sight]
    BY <1>1, <2>2
  <2> HIDE DEF seen
  <2>5. call \in Call /\ call.evidence = evidence
    BY <1>1, <2>1, <2>4 DEF Call
  <2> HIDE DEF call
  <2>6. QED  BY <2>1, <2>3, <2>5 DEF Bound
<1>10. ASSUME NextHop(t) PROVE \E call : Bound(t, call)
  <2> DEFINE pc == IF op[t].hop = Len(Hops) THEN "commit" ELSE "members"
             hop == IF op[t].hop = Len(Hops) THEN op[t].hop ELSE op[t].hop + 1
             call == [op[t] EXCEPT !.pc = pc, !.hop = hop]
  <2>1. op' = [op EXCEPT ![t] = call]
    BY <1>1, <1>10 DEF NextHop, Call
  <2>2. call \in Call /\ call.evidence = op[t].evidence
    <3>1. hop \in DOMAIN Hops /\ pc \in {"commit", "members"}
      BY <1>1, HopFacts
    <3> HIDE DEF hop, pc
    <3>2. QED  BY <1>1, <3>1 DEF Call
  <2> HIDE DEF call
  <2>3. QED  BY <2>1, <2>2 DEF Bound
<1>11. \E call : Bound(t, call)
  BY <1>2, <1>4, <1>5, <1>6, <1>7, <1>8, <1>9, <1>10 DEF Evaluate, Decline, Commit
<1>12. /\ UNCHANGED <<sources, watermarks, reading>>
       /\ record' = record \/ Commit(t)
  BY DEF Evaluate, Begin, ReadElement, ReadMembers, ReadCoverage, ReadGeneration, ReadDomain,
         NextHop, Decline, Commit
<1>13. QED  BY <1>11, <1>12

LEMMA SourceTypes ==
    ASSUME TypeOK, NEW s \in Subject
    PROVE  /\ sources[s] \in Nat /\ watermarks[s] \in Nat /\ watermarks[s] <= sources[s]
           /\ sources[s] \in Generation(s) /\ Generation(s) \subseteq Nat
BY FailureDomainsAssumption DEF TypeOK

LEMMA CommitType ==
    ASSUME TypeOK, NEW t \in Evaluator, Commit(t)
    PROVE  record' \in Record
<1>1. op[t] \in Call /\ record \in Record
  BY DEF TypeOK
<1>2. record.generation + 1 \in 0..MaxGeneration
  BY <1>1, FailureDomainsAssumption DEF Commit, can_advance, Record
<1>3. "AUTHORIZED" \in Outcome /\ "HARD_FAILURE" \in Outcome
  BY DEF Outcome, EvaluationOutcome
<1>4. QED  BY <1>1, <1>2, <1>3 DEF Commit, Decision, Record, Call

LEMMA InvalidateType ==
    ASSUME TypeOK, NEW s \in Subject, NEW g \in Generation(s), Invalidate(s, g)
    PROVE  TypeOK'
<1>1. g \in Nat /\ g <= sources[s]
  BY SourceTypes DEF Invalidate
<1>2. \A q \in Subject : watermarks'[q] \in 0..sources[q]
  BY <1>1, SourceTypes DEF Invalidate, TypeOK
<1>3. watermarks' \in [Subject -> Nat]
  BY <1>1 DEF Invalidate, TypeOK
<1>4. record' \in Record
  <2>1. record \in Record /\ "REVALIDATION_REQUIRED" \in Outcome
    BY DEF TypeOK, Outcome, EvaluationOutcome
  <2>2. can_advance => record.generation + 1 \in 0..MaxGeneration
    BY <2>1, FailureDomainsAssumption DEF can_advance, Record
  <2>3. CASE Marked(s, g) /\ can_advance
    <3>1. record' = [record EXCEPT !.generation = @ + 1, !.outcome = "REVALIDATION_REQUIRED"]
      BY <2>3 DEF Invalidate
    <3>2. QED  BY <2>1, <2>2, <2>3, <3>1 DEF Record
  <2>4. QED  BY <2>1, <2>3 DEF Invalidate
<1>5. QED  BY <1>2, <1>3, <1>4 DEF Invalidate, TypeOK

Reading == [pc : {"idle", "current"}, copy : Copy, current : EvidenceVector, fresh : BOOLEAN]

LEMMA AskType ==
    ASSUME TypeOK, NEW t \in Reader, Ask(t)
    PROVE  /\ reading' \in [Reader -> Reading]
           /\ reading'[t].pc = "current" /\ reading'[t].current = NoEvidence
           /\ reading'[t].fresh = Unchanged(record)
           /\ reading'[t].copy.evidence = record.evidence
<1> DEFINE copy == [f \in Copied |-> record[f]]
           query == [pc |-> "current", current |-> NoEvidence, fresh |-> Unchanged(record),
                     copy |-> copy]
<1>1. record \in Record /\ reading \in [Reader -> Reading]
  BY DEF TypeOK, Reading
<1>2. copy \in Copy /\ copy.evidence = record.evidence
  BY <1>1 DEF Copy, Copied, Record
<1> HIDE DEF copy
<1>3. Unchanged(record) \in BOOLEAN
  BY DEF Unchanged
<1>4. query \in Reading
  BY <1>2, <1>3, ConstantTypes DEF Reading
<1>5. reading' = [reading EXCEPT ![t] = query]
  BY DEF Ask, copy
<1>6. QED  BY <1>1, <1>2, <1>4, <1>5

LEMMA ReadCurrentType ==
    ASSUME TypeOK, NEW t \in Reader, NEW s \in Subject, ReadCurrent(t, s)
    PROVE  /\ reading' \in [Reader -> Reading]
           /\ reading'[t].pc = "current" /\ reading[t].pc = "current"
           /\ reading'[t].copy = reading[t].copy /\ reading'[t].fresh = reading[t].fresh
           /\ \A q \in Subject : reading'[t].current[q] \in {reading[t].current[q], sources[q]}
<1> DEFINE current == [reading[t].current EXCEPT ![s] = sources[s]]
           query == [reading[t] EXCEPT !.current = current]
<1>1. reading \in [Reader -> Reading] /\ reading[t] \in Reading
      /\ reading[t].current \in EvidenceVector /\ sources[s] \in Nat
  BY SourceTypes DEF TypeOK, Reading
<1>2. /\ current \in EvidenceVector
      /\ \A q \in Subject : current[q] \in {reading[t].current[q], sources[q]}
  BY <1>1 DEF EvidenceVector
<1>3. reading' = [reading EXCEPT ![t] = query]
  BY <1>1 DEF ReadCurrent, Reading
<1> HIDE DEF current
<1>4. query \in Reading /\ query.current = current /\ query.copy = reading[t].copy
      /\ query.fresh = reading[t].fresh /\ query.pc = reading[t].pc
  BY <1>1, <1>2 DEF Reading
<1>5. QED  BY <1>1, <1>2, <1>3, <1>4 DEF ReadCurrent

LEMMA QueryStep ==
    ASSUME TypeOK, NEW t \in Reader, Query(t)
    PROVE  /\ reading' \in [Reader -> Reading]
           /\ UNCHANGED <<sources, watermarks, record, op>>
<1>1. CASE Answer(t)
  BY <1>1, ConstantTypes DEF Answer, TypeOK, Reading
<1>2. QED  BY <1>1, AskType, ReadCurrentType DEF Query, Ask, ReadCurrent

LEMMA NextType == TypeOK /\ [Next]_vars => TypeOK'
<1> SUFFICES ASSUME TypeOK, [Next]_vars PROVE TypeOK'
  OBVIOUS
<1>1. ASSUME NEW t \in Evaluator, Evaluate(t) PROVE TypeOK'
  <2>1. /\ op' \in [Evaluator -> Call]
        /\ UNCHANGED <<sources, watermarks, reading>>
        /\ record' = record \/ Commit(t)
    BY <1>1, EvaluateStep DEF Bound, TypeOK
  <2>2. record' \in Record
    BY <2>1, CommitType DEF TypeOK
  <2>3. QED  BY <2>1, <2>2 DEF TypeOK
<1>2. ASSUME NEW t \in Reader, Query(t) PROVE TypeOK'
  BY <1>2, QueryStep DEF TypeOK, Reading
<1>3. ASSUME NEW s \in Subject, SourceChange(s) PROVE TypeOK'
  <2>1. sources[s] + 1 \in Generation(s) /\ sources' = [sources EXCEPT ![s] = sources[s] + 1]
    BY <1>3 DEF SourceChange
  <2>2. /\ sources' \in [Subject -> Nat]
        /\ \A q \in Subject : sources'[q] \in Generation(q) /\ sources'[q] >= sources[q]
    BY <2>1, SourceTypes DEF TypeOK
  <2>3. \A q \in Subject : watermarks[q] \in 0..sources'[q]
    BY <2>2, SourceTypes
  <2>4. QED  BY <1>3, <2>2, <2>3 DEF SourceChange, TypeOK
<1>4. ASSUME NEW s \in Subject, NEW g \in Generation(s), Invalidate(s, g) PROVE TypeOK'
  BY <1>4, InvalidateType
<1>5. CASE UNCHANGED vars
  BY <1>5 DEF vars, TypeOK
<1>6. QED  BY <1>1, <1>2, <1>3, <1>4, <1>5 DEF Next

LEMMA InitType == Init => TypeOK
<1> SUFFICES ASSUME Init PROVE TypeOK
  OBVIOUS
<1>1. sources \in [Subject -> Nat] /\ watermarks \in [Subject -> Nat]
      /\ \A s \in Subject : sources[s] = 0 /\ watermarks[s] = 0
  BY DEF Init, First
<1>2. \A s \in Subject : sources[s] \in Generation(s) /\ watermarks[s] \in 0..sources[s]
  BY <1>1, FailureDomainsAssumption
<1>3. QED  BY <1>1, <1>2, ConstantTypes DEF Init, TypeOK

\* Evidence, watermarks, the record and every call keep their types; no announcement
\* is ahead of the view.
THEOREM DomainsTypeCorrect == Spec => []TypeOK
<1>1. QED  BY InitType, NextType, PTL DEF Spec

-----------------------------------------------------------------------------
(* The record.                                                             *)

\* What a step does to the record: commit() stores a decision, a notification marks
\* it, everything else leaves it and what was announced alone.
Notified(s, g) ==
    /\ g \in Generation(s) /\ g <= sources[s]
    /\ watermarks' = [watermarks EXCEPT ![s] = IF g > @ THEN g ELSE @]
    /\ \/ Marked(s, g) /\ can_advance /\ record'.outcome = "REVALIDATION_REQUIRED"
                       /\ record'.evidence = record.evidence
       \/ ~(Marked(s, g) /\ can_advance) /\ record' = record

LEMMA RecordStep ==
    ASSUME TypeOK, [Next]_vars
    PROVE  \/ UNCHANGED <<record, watermarks>>
           \/ (\E t \in Evaluator : Commit(t)) /\ watermarks' = watermarks
           \/ \E s \in Subject, g \in Nat : Notified(s, g)
<1>1. ASSUME NEW t \in Evaluator, Evaluate(t)
      PROVE  (record' = record \/ Commit(t)) /\ watermarks' = watermarks
  BY <1>1, EvaluateStep
<1>2. ASSUME NEW t \in Reader, Query(t) PROVE UNCHANGED <<record, watermarks>>
  BY <1>2, QueryStep
<1>3. ASSUME NEW s \in Subject, SourceChange(s) PROVE UNCHANGED <<record, watermarks>>
  BY <1>3 DEF SourceChange
<1>4. ASSUME NEW s \in Subject, NEW g \in Generation(s), Invalidate(s, g)
      PROVE  g \in Nat /\ Notified(s, g)
  <2>1. record \in Record
    BY DEF TypeOK
  <2>2. CASE Marked(s, g) /\ can_advance
    <3>1. record' = [record EXCEPT !.generation = @ + 1, !.outcome = "REVALIDATION_REQUIRED"]
      BY <1>4, <2>2 DEF Invalidate
    <3>2. record'.outcome = "REVALIDATION_REQUIRED" /\ record'.evidence = record.evidence
      BY <2>1, <3>1 DEF Record
    <3>3. QED  BY <1>4, <2>2, <3>2, SourceTypes DEF Invalidate, Notified
  <2>3. QED  BY <1>4, <2>2, SourceTypes DEF Invalidate, Notified
<1>5. CASE UNCHANGED vars
  BY <1>5 DEF vars
<1>6. QED  BY <1>1, <1>2, <1>3, <1>4, <1>5 DEF Next

\* Whatever came first, live authority is not left on what was announced as replaced.
THEOREM AlwaysAboveWatermark == Spec => []NotifiedAboveWatermark
<1>1. Init => NotifiedAboveWatermark
  BY DEF Init, NotifiedAboveWatermark, Live, Absent, is_authorizing_outcome
<1>2. TypeOK /\ NotifiedAboveWatermark /\ [Next]_vars => NotifiedAboveWatermark'
  <2> SUFFICES ASSUME TypeOK, NotifiedAboveWatermark, [Next]_vars,
                      Live', can_advance', NEW s \in Indexed', record'.evidence[s] # Unbound
               PROVE  record'.evidence[s] >= watermarks'[s]
    BY DEF NotifiedAboveWatermark
  <2>1. s \in Subject
    <3>1. record' \in Record
      BY NextType DEF TypeOK
    <3>2. QED  BY <3>1, NamedFacts DEF Indexed, Record
  <2>2. CASE UNCHANGED <<record, watermarks>>
    BY <2>2 DEF NotifiedAboveWatermark, Live, can_advance, Indexed
  <2>3. ASSUME NEW t \in Evaluator, Commit(t), watermarks' = watermarks
        PROVE  record'.evidence[s] >= watermarks'[s]
    <3>1. record'.evidence = op[t].evidence /\ ~Stale(op[t].evidence)
      BY <2>3 DEF Commit, Decision
    <3>2. op[t].evidence \in EvidenceVector
      BY DEF TypeOK, Call
    <3>3. QED  BY <2>1, <2>3, <3>1, <3>2, SourceTypes DEF Stale, EvidenceVector, Unbound
  <2>4. ASSUME NEW q \in Subject, NEW g \in Nat, Notified(q, g)
        PROVE  record'.evidence[s] >= watermarks'[s]
    <3>1. record' = record /\ ~(Marked(q, g) /\ can_advance)
      BY <2>4 DEF Notified, Live, is_authorizing_outcome
    <3>2. Live /\ can_advance /\ s \in Indexed
      BY <3>1 DEF Live, can_advance, Indexed
    <3>3. record.outcome # "REVALIDATION_REQUIRED"
      BY <3>2 DEF Live, is_authorizing_outcome
    <3>4. record.evidence[s] >= watermarks[s] /\ record.evidence[s] \in Nat
      <4>1. record.evidence \in EvidenceVector
        BY DEF TypeOK, Record
      <4>2. QED  BY <2>1, <3>1, <3>2, <4>1 DEF NotifiedAboveWatermark, EvidenceVector
    <3>5. q = s => record.evidence[s] = g
      BY <3>1, <3>2, <3>3 DEF Marked
    <3>6. watermarks'[s] = watermarks[s] \/ (q = s /\ watermarks'[s] = g)
      BY <2>1, <2>4 DEF Notified, TypeOK
    <3>7. QED  BY <3>1, <3>4, <3>5, <3>6
  <2>5. QED  BY <2>2, <2>3, <2>4, RecordStep
<1>3. QED  BY <1>1, <1>2, DomainsTypeCorrect, PTL DEF Spec

\* Live authority over constrained failure domains binds, of every hop whose membership
\* held still, complete coverage and domains that none of the rules forbids.
THEOREM DomainAuthorityAlwaysJustified == Spec => []AuthorityJustified
<1>1. Init => AuthorityJustified
  BY DEF Init, AuthorityJustified, Live, Absent, is_authorizing_outcome
<1>2. TypeOK /\ AuthorityJustified /\ [Next]_vars => AuthorityJustified'
  <2> SUFFICES ASSUME TypeOK, AuthorityJustified, [Next]_vars, Live'
               PROVE  AuthorityJustified'
    BY DEF AuthorityJustified
  <2>1. CASE record' = record
    BY <2>1 DEF AuthorityJustified, Live, SeenAsBound, BoundOutside
  <2>2. ASSUME NEW t \in Evaluator, Commit(t) PROVE AuthorityJustified'
    <3> SUFFICES ASSUME record'.rules # NoRules, NEW h \in Hop, SeenAsBound(h)'
                 PROVE  BoundOutside(h)'
      BY DEF AuthorityJustified
    <3>1. /\ record'.rules = op[t].rules /\ record'.seen = op[t].seen
          /\ record'.outcome = IF op[t].rules = NoRules \/ \A k \in Hop : Outside(op[t].rules, op[t].seen, k)
                               THEN "AUTHORIZED" ELSE "HARD_FAILURE"
      BY <2>2 DEF Commit, Decision
    <3>2. Outside(record'.rules, record'.seen, h)
      BY <3>1 DEF Live, is_authorizing_outcome
    <3>3. QED  BY <3>2 DEF SeenAsBound, BoundOutside, Outside, ListedAt
  <2>3. ASSUME NEW q \in Subject, NEW g \in Nat, Notified(q, g) PROVE AuthorityJustified'
    BY <2>1, <2>3 DEF Notified, Live, is_authorizing_outcome
  <2>4. QED  BY <2>1, <2>2, <2>3, RecordStep
<1>3. QED  BY <1>1, <1>2, DomainsTypeCorrect, PTL DEF Spec

-----------------------------------------------------------------------------
(* What a query says.                                                      *)

\* Nothing is bound that the views have not reached.
EvidenceReached ==
    \A s \in Subject :
        /\ record.evidence[s] <= sources[s]
        /\ \A t \in Evaluator : op[t].evidence[s] <= sources[s]

\* A copy that was already behind the views when it was taken has a subject in which
\* what the query reads, or has read, is newer.
BehindIsSeen ==
    \A t \in Reader :
        reading[t].pc = "current" /\ ~reading[t].fresh =>
            \E s \in Subject :
                LET bound == reading[t].copy.evidence[s]
                    current == reading[t].current[s]
                IN  /\ bound # Unbound /\ bound < sources[s]
                    /\ current = Unbound \/ bound < current

LEMMA SourcesGrow ==
    ASSUME TypeOK, [Next]_vars, NEW s \in Subject
    PROVE  sources[s] \in Nat /\ sources'[s] \in Nat /\ sources'[s] >= sources[s]
<1>1. sources[s] \in Nat
  BY SourceTypes
<1>2. ASSUME NEW q \in Subject, SourceChange(q) PROVE sources'[s] \in {sources[s], sources[s] + 1}
  BY <1>2 DEF SourceChange, TypeOK
<1>3. CASE sources' = sources
  BY <1>1, <1>3
<1>4. QED  BY <1>1, <1>2, <1>3, EvaluateStep, QueryStep DEF Next, Invalidate, vars

QueryInv == TypeOK /\ EvidenceReached /\ BehindIsSeen

LEMMA QueryInvariant == Spec => []QueryInv
<1>1. Init => EvidenceReached /\ BehindIsSeen
  BY DEF Init, First, EvidenceReached, BehindIsSeen, Absent, Idle, Resting, NoEvidence, Unbound
<1>2. QueryInv /\ [Next]_vars => EvidenceReached'
  <2> SUFFICES ASSUME QueryInv, [Next]_vars, NEW s \in Subject
               PROVE  /\ record'.evidence[s] <= sources'[s]
                      /\ \A t \in Evaluator : op'[t].evidence[s] <= sources'[s]
    BY DEF EvidenceReached
  <2>1. /\ TypeOK
        /\ sources[s] \in Nat /\ sources'[s] \in Nat /\ sources'[s] >= sources[s]
        /\ record.evidence[s] \in {Unbound} \cup Nat
        /\ record.evidence[s] <= sources[s]
        /\ \A t \in Evaluator : /\ op[t].evidence[s] \in {Unbound} \cup Nat
                                /\ op[t].evidence[s] <= sources[s]
    <3>1. TypeOK /\ EvidenceReached
      BY DEF QueryInv
    <3>2. record.evidence \in EvidenceVector /\ \A t \in Evaluator : op[t].evidence \in EvidenceVector
      BY <3>1 DEF TypeOK, Record, Call
    <3>3. QED  BY <3>1, <3>2, SourcesGrow DEF EvidenceReached, EvidenceVector
  <2>2. record'.evidence[s] <= sources'[s]
    <3>1. record'.evidence = record.evidence \/ \E t \in Evaluator : record'.evidence = op[t].evidence
      BY <2>1, RecordStep DEF Notified, Commit, Decision
    <3>2. QED  BY <2>1, <3>1 DEF Unbound
  <2>3. ASSUME NEW t \in Evaluator PROVE op'[t].evidence[s] <= sources'[s]
    <3>1. op'[t].evidence[s] \in {op[t].evidence[s], sources[s], Unbound}
      <4>1. ASSUME NEW u \in Evaluator, Evaluate(u)
            PROVE  op'[t].evidence[s] \in {op[t].evidence[s], sources[s], Unbound}
        BY <2>1, <4>1, EvaluateStep DEF Bound, TypeOK
      <4>2. CASE op' = op
        BY <4>2
      <4>3. QED  BY <2>1, <4>1, <4>2, QueryStep DEF Next, SourceChange, Invalidate, vars
    <3>2. QED  BY <2>1, <3>1 DEF Unbound
  <2>4. QED  BY <2>2, <2>3
<1>3. QueryInv /\ [Next]_vars => BehindIsSeen'
  <2> SUFFICES ASSUME QueryInv, [Next]_vars, NEW t \in Reader,
                      reading'[t].pc = "current", ~reading'[t].fresh
               PROVE  \E s \in Subject :
                          /\ reading'[t].copy.evidence[s] # Unbound
                          /\ reading'[t].copy.evidence[s] < sources'[s]
                          /\ \/ reading'[t].current[s] = Unbound
                             \/ reading'[t].copy.evidence[s] < reading'[t].current[s]
    BY DEF BehindIsSeen
  <2>1. /\ TypeOK /\ reading \in [Reader -> Reading]
        /\ \A s \in Subject : /\ sources[s] \in Nat /\ sources'[s] \in Nat
                              /\ sources'[s] >= sources[s]
    BY SourcesGrow DEF QueryInv, TypeOK, Reading
  <2>2. /\ reading[t].copy.evidence \in EvidenceVector
        /\ reading[t].current \in EvidenceVector
    BY <2>1 DEF Reading, Copy
  <2>3. ASSUME reading[t].pc = "current", ~reading[t].fresh,
               reading'[t].copy = reading[t].copy,
               \A q \in Subject : reading'[t].current[q] \in {reading[t].current[q], sources[q]}
        PROVE  \E s \in Subject :
                   /\ reading'[t].copy.evidence[s] # Unbound
                   /\ reading'[t].copy.evidence[s] < sources'[s]
                   /\ \/ reading'[t].current[s] = Unbound
                      \/ reading'[t].copy.evidence[s] < reading'[t].current[s]
    <3>1. PICK s \in Subject :
            /\ reading[t].copy.evidence[s] # Unbound
            /\ reading[t].copy.evidence[s] < sources[s]
            /\ \/ reading[t].current[s] = Unbound
               \/ reading[t].copy.evidence[s] < reading[t].current[s]
      BY <2>3 DEF QueryInv, BehindIsSeen
    <3>2. reading[t].copy.evidence[s] \in Int
      BY <2>2 DEF EvidenceVector, Unbound
    <3>3. QED  BY <2>1, <2>3, <3>1, <3>2
  <2>4. CASE reading'[t] = reading[t]
    BY <2>3, <2>4
  <2>5. CASE Ask(t)
    <3>1. /\ reading'[t].current = NoEvidence
          /\ ~Unchanged(record) /\ reading'[t].copy.evidence = record.evidence
      BY <2>1, <2>5, AskType
    <3>2. PICK s \in Subject : record.evidence[s] \notin {Unbound, sources[s]}
      BY <3>1 DEF Unchanged
    <3>3. record.evidence[s] \in Int /\ record.evidence[s] <= sources[s]
      <4>1. record.evidence \in EvidenceVector
        BY <2>1 DEF TypeOK, Record
      <4>2. QED  BY <4>1 DEF QueryInv, EvidenceReached, EvidenceVector, Unbound
    <3>4. QED  BY <2>1, <3>1, <3>2, <3>3 DEF NoEvidence
  <2>6. ASSUME NEW q \in Subject, ReadCurrent(t, q)
        PROVE  \E s \in Subject :
                   /\ reading'[t].copy.evidence[s] # Unbound
                   /\ reading'[t].copy.evidence[s] < sources'[s]
                   /\ \/ reading'[t].current[s] = Unbound
                      \/ reading'[t].copy.evidence[s] < reading'[t].current[s]
    BY <2>1, <2>3, <2>6, ReadCurrentType
  <2>7. CASE Answer(t)
    BY <2>1, <2>7 DEF Answer, Resting
  <2>8. ASSUME NEW u \in Reader, u # t, Query(u) PROVE reading'[t] = reading[t]
    BY <2>1, <2>8 DEF Query, Ask, ReadCurrent, Answer
  <2>9. ASSUME ~\E u \in Reader : Query(u) PROVE reading' = reading
    BY <2>1, <2>9, EvaluateStep DEF Next, SourceChange, Invalidate, vars
  <2>10. QED  BY <2>4, <2>5, <2>6, <2>7, <2>8, <2>9 DEF Query
<1>4. QED  BY <1>1, <1>2, <1>3, DomainsTypeCorrect, PTL DEF Spec, QueryInv

\* A snapshot that calls itself current was so when its record was copied, whatever
\* changed while it was put together.
THEOREM CurrentAlwaysWasTrue == Spec => []CurrentWasTrue
<1>1. QueryInv => CurrentWasTrue
  <2> SUFFICES ASSUME QueryInv, NEW t \in Reader, Current(t), ~reading[t].fresh
               PROVE  FALSE
    BY DEF CurrentWasTrue
  <2>1. reading[t].pc = "current"
    BY DEF Current, Read
  <2>2. PICK s \in Subject :
          /\ reading[t].copy.evidence[s] # Unbound
          /\ \/ reading[t].current[s] = Unbound
             \/ reading[t].copy.evidence[s] < reading[t].current[s]
    BY <2>1 DEF QueryInv, BehindIsSeen
  <2>3. reading[t].copy.evidence[s] = reading[t].current[s]
    BY DEF Current, Deltas
  <2>4. reading[t].current[s] \in Int
    <3>1. reading[t].current \in EvidenceVector
      BY DEF QueryInv, TypeOK
    <3>2. QED  BY <3>1 DEF EvidenceVector, Unbound
  <2>5. QED  BY <2>2, <2>3, <2>4
<1>2. QED  BY <1>1, QueryInvariant, PTL

=============================================================================
