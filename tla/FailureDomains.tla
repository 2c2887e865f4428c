--------------------------- MODULE FailureDomains ---------------------------
(***************************************************************************)
(* Failure domains as evidence, and what query() says of evidence          *)
(* (runtime.cpp).  An evaluation reads of every hop its structural record, *)
(* which domains it is in, whether that list is complete, the generation   *)
(* of both and the record of each of the domains, one call of a view after *)
(* the other.  A query copies the record and compares what it binds with   *)
(* what it reads by itself, without the runtime's lock.                    *)
(*                                                                         *)
(* One path; its other evidence stays (PathRuntime).  The content of a     *)
(* generation is a constant, so that a call of the view is known by the    *)
(* generation it met; the structural content is never against the path.    *)
(***************************************************************************)
EXTENDS AuthorityTypes, Integers, Sequences, FiniteSets

CONSTANTS
    Hops,           \* the elements of the path, in order
    Domain,         \* failure domains
    Membership,     \* Membership[h][g]: the domains an element is in, and whether
                    \* that is all of them
    DomainClass,    \* DomainClass[d][g]: the class in the domain's record
    Rules,          \* the domains a constraint set names, those of them it forbids
                    \* (else it has a limit that is not reached), and the classes it
                    \* or the policy forbids
    Evaluator,      \* threads calling evaluate()
    Reader,         \* threads calling query()
    MaxStructural,  \* bound: the last structural generation of each element
    MaxGeneration   \* the last authority generation (2^64 - 1 in the code)

Hop == {Hops[i] : i \in DOMAIN Hops}

Elements == {"element"} \X Hop
Subject == Elements \cup {"member"} \X Hop \cup {"domain"} \X Domain

\* The generations a subject goes through.
Generation(s) ==
    CASE s[1] = "element" -> 0..MaxStructural[s[2]]
      [] s[1] = "member"  -> DOMAIN Membership[s[2]]
      [] s[1] = "domain"  -> DOMAIN DomainClass[s[2]]

ASSUME FailureDomainsAssumption ==
    /\ Hops \in Seq(Hop) /\ Hops # <<>>
    /\ MaxStructural \in [Hop -> Nat] /\ MaxGeneration \in Nat \ {0}
    /\ \A s \in Subject : 0 \in Generation(s) /\ Generation(s) \subseteq Nat
    /\ \A h \in Hop : \A g \in DOMAIN Membership[h] :
          Membership[h][g] \in [domains : SUBSET Domain, covered : BOOLEAN]
    /\ \A r \in Rules : r.forbidden \subseteq r.named /\ r.named \subseteq Domain

VARIABLES
    sources,     \* the current generation of every subject
    watermarks,  \* the highest announced one
    record,      \* the record of the path; generation 0: no record
    op,          \* the evaluation each evaluator is in
    reading      \* the query each reader is in

vars == <<sources, watermarks, record, op, reading>>

Unbound == -1
NoEvidence == [s \in Subject |-> Unbound]
NoRules == [named |-> {}, forbidden |-> {}, classes |-> {}]
First == [s \in Subject |-> 0]

\* Of every hop, the generations at which its list, its coverage and the records of its
\* domains were read.
Unseen == [h \in Hop |-> [members |-> Unbound, coverage |-> Unbound,
                          domains |-> [d \in Domain |-> Unbound]]]

Absent == [generation |-> 0, outcome |-> "PATH_UNKNOWN", rules |-> NoRules,
           evidence |-> NoEvidence, seen |-> Unseen]

Idle == [pc |-> "idle", rules |-> NoRules, hop |-> 1, evidence |-> NoEvidence, seen |-> Unseen]

\* The decision itself, which is what a digest and the verdict of a query look at.
Copied == {"outcome", "rules", "evidence"}

\* fresh: whether all that is bound was what the views had when the copy was taken.
Resting == [pc |-> "idle", copy |-> [f \in Copied |-> Absent[f]], current |-> NoEvidence,
            fresh |-> FALSE]

Live == is_authorizing_outcome(record.outcome)
can_advance == record.generation # MaxGeneration

-----------------------------------------------------------------------------
(* evaluate(): the failure-domain stage.                                   *)

Begin(t, r) ==
    /\ op[t].pc = "idle"
    /\ op' = [op EXCEPT ![t] = [Idle EXCEPT !.rules = r, !.pc = "structural"]]
    /\ UNCHANGED <<sources, watermarks, record, reading>>

AtHop(t) == Hops[op[t].hop]
ElementOf(h) == <<"element", h>>
MemberOf(h) == <<"member", h>>
RecordOf(d) == <<"domain", d>>

\* Domains are looked at after every structural record, and only if there is a rule
\* about them.
ReadElement(t) ==
    LET s == ElementOf(AtHop(t))
        last == op[t].hop = Len(Hops)
    IN  /\ op[t].pc = "structural"
        /\ op' = [op EXCEPT ![t].evidence[s] = sources[s],
                            ![t].hop = IF last THEN 1 ELSE @ + 1,
                            ![t].pc = IF ~last THEN "structural"
                                      ELSE IF op[t].rules = NoRules THEN "commit"
                                      ELSE "members"]
        /\ UNCHANGED <<sources, watermarks, record, reading>>

ReadMembers(t) ==
    /\ op[t].pc = "members"
    /\ op' = [op EXCEPT ![t].pc = "coverage",
                        ![t].seen[AtHop(t)].members = sources[MemberOf(AtHop(t))]]
    /\ UNCHANGED <<sources, watermarks, record, reading>>

ReadCoverage(t) ==
    /\ op[t].pc = "coverage"
    /\ op' = [op EXCEPT ![t].pc = "generation",
                        ![t].seen[AtHop(t)].coverage = sources[MemberOf(AtHop(t))]]
    /\ UNCHANGED <<sources, watermarks, record, reading>>

\* The only one of the three that becomes evidence.
ReadGeneration(t) ==
    /\ op[t].pc = "generation"
    /\ op' = [op EXCEPT ![t].pc = "domains",
                        ![t].evidence[MemberOf(AtHop(t))] = sources[MemberOf(AtHop(t))]]
    /\ UNCHANGED <<sources, watermarks, record, reading>>

ListedAt(seen, h) == Membership[h][seen[h].members].domains

Unread(t) == {d \in ListedAt(op[t].seen, AtHop(t)) : op[t].seen[AtHop(t)].domains[d] = Unbound}

\* A domain two hops are in is read for both; the later generation is bound.
ReadDomain(t, d) ==
    /\ op[t].pc = "domains" /\ d \in Unread(t)
    /\ op' = [op EXCEPT ![t].evidence[RecordOf(d)] = sources[RecordOf(d)],
                        ![t].seen[AtHop(t)].domains[d] = sources[RecordOf(d)]]
    /\ UNCHANGED <<sources, watermarks, record, reading>>

NextHop(t) ==
    LET last == op[t].hop = Len(Hops)
    IN  /\ op[t].pc = "domains" /\ Unread(t) = {}
        /\ op' = [op EXCEPT ![t].pc = IF last THEN "commit" ELSE "members",
                            ![t].hop = IF last THEN @ ELSE @ + 1]
        /\ UNCHANGED <<sources, watermarks, record, reading>>

\* Mutant: a domain's class is kept from the first hop that is in it.
OutsideCached(r, seen, h) ==
    /\ Membership[h][seen[h].coverage].covered
    /\ ListedAt(seen, h) \cap r.forbidden = {}
    /\ \A d \in ListedAt(seen, h) \cap ListedAt(seen, Hops[1]) :
          DomainClass[d][seen[Hops[1]].domains[d]] \notin r.classes

\* What the rules ask of a hop, by what was read of it.
Outside(r, seen, h) ==
    /\ Membership[h][seen[h].coverage].covered
    /\ ListedAt(seen, h) \cap r.forbidden = {}
    /\ \A d \in ListedAt(seen, h) : DomainClass[d][seen[h].domains[d]] \notin r.classes

Decision(t) ==
    LET r == op[t].rules IN
    [generation |-> record.generation + 1,
     outcome    |-> IF r = NoRules \/ \A h \in Hop : Outside(r, op[t].seen, h)
                    THEN "AUTHORIZED" ELSE "HARD_FAILURE",
     rules |-> r, evidence |-> op[t].evidence, seen |-> op[t].seen]

-----------------------------------------------------------------------------
(* commit() and the notifications.                                         *)

\* Mutant: of the failure domains, only their own records are compared.
StaleNamed(evidence) ==
    \E s \in Subject : s[1] # "member" /\ evidence[s] # Unbound /\ evidence[s] < watermarks[s]

\* stale_evidence()
Stale(evidence) == \E s \in Subject : evidence[s] # Unbound /\ evidence[s] < watermarks[s]

\* The digest has neither the generation nor what was seen.
Replayed(t) ==
    /\ record.generation # 0
    /\ \A f \in Copied : record[f] = Decision(t)[f]

\* Refused as stale, the same decision again, or no generation left.
Decline(t) ==
    /\ op[t].pc = "commit"
    /\ Stale(op[t].evidence) \/ Replayed(t) \/ ~can_advance
    /\ op' = [op EXCEPT ![t] = Idle]
    /\ UNCHANGED <<sources, watermarks, record, reading>>

Commit(t) ==
    /\ op[t].pc = "commit"
    /\ ~Stale(op[t].evidence) /\ ~Replayed(t) /\ can_advance
    /\ record' = Decision(t)
    /\ op' = [op EXCEPT ![t] = Idle]
    /\ UNCHANGED <<sources, watermarks, reading>>

\* Named(r): the domains rebuild_record_dependencies() finds in the constraint set.
Named(r) == {RecordOf(d) : d \in r.named}

\* The subjects whose notifications reach the record: the structure and the membership
\* of every hop, constrained or not, and of the domains only those that are named.
Indexed ==
    IF record.generation = 0 THEN {}
    ELSE {s \in Subject : s[1] # "domain"} \cup Named(record.rules)

Marked(s, g) ==
    /\ s \in Indexed /\ record.evidence[s] # g
    /\ record.outcome # "REVALIDATION_REQUIRED"

\* Mutant: the generation is not checked for exhaustion.
InvalidatePastExhaustion(s, g) ==
    /\ g <= sources[s]
    /\ watermarks' = [watermarks EXCEPT ![s] = IF g > @ THEN g ELSE @]
    /\ record' = IF Marked(s, g)
                 THEN [record EXCEPT !.generation = @ + 1, !.outcome = "REVALIDATION_REQUIRED"]
                 ELSE record
    /\ UNCHANGED <<sources, op, reading>>

\* invalidate_element(), invalidate_membership(), invalidate_failure_domain():
\* generation g of s was seen; late, twice or not at all.
Invalidate(s, g) ==
    /\ g <= sources[s]
    /\ watermarks' = [watermarks EXCEPT ![s] = IF g > @ THEN g ELSE @]
    /\ record' = IF Marked(s, g) /\ can_advance
                 THEN [record EXCEPT !.generation = @ + 1, !.outcome = "REVALIDATION_REQUIRED"]
                 ELSE record
    /\ UNCHANGED <<sources, op, reading>>

SourceChange(s) ==
    /\ sources[s] + 1 \in Generation(s)
    /\ sources' = [sources EXCEPT ![s] = @ + 1]
    /\ UNCHANGED <<watermarks, record, op, reading>>

-----------------------------------------------------------------------------
(* query(): the copy is taken under the lock, what is current is read      *)
(* without it.                                                             *)

\* What current_evidence() reads are the lists the commit left, not what the evidence
\* binds.  The memberships among them are skipped: "member:" is taken for the kind of
\* an element, and there is no such kind.
Listed(copy) == Elements \cup Named(copy.rules)

Unchanged(copy) == \A s \in Subject : copy.evidence[s] \in {Unbound, sources[s]}

\* A path without a record has no snapshot.  Of the copy, this is what the verdict needs.
Ask(t) ==
    /\ reading[t].pc = "idle" /\ record.generation # 0
    /\ reading' = [reading EXCEPT ![t] =
                 [pc |-> "current", current |-> NoEvidence, fresh |-> Unchanged(record),
                  copy |-> [f \in Copied |-> record[f]]]]
    /\ UNCHANGED <<sources, watermarks, record, op>>

\* What is read before a subject: the elements of the hops before, every element.
Before(s) ==
    IF s \in Elements
    THEN {ElementOf(Hops[j]) : j \in {j \in DOMAIN Hops :
             \A i \in DOMAIN Hops : s = ElementOf(Hops[i]) => j < i}}
    ELSE Elements

ReadCurrent(t, s) ==
    /\ reading[t].pc = "current"
    /\ s \in Listed(reading[t].copy) /\ reading[t].current[s] = Unbound
    /\ \A e \in Before(s) : reading[t].current[e] # Unbound
    /\ reading' = [reading EXCEPT ![t].current[s] = sources[s]]
    /\ UNCHANGED <<sources, watermarks, record, op>>

\* current_evidence() is complete.
Read(t) ==
    /\ reading[t].pc = "current"
    /\ \A s \in Listed(reading[t].copy) : reading[t].current[s] # Unbound

\* Mutant: only what is in both vectors is compared.
CommonDeltas(before, after) ==
    {s \in Subject : before[s] # Unbound /\ after[s] # Unbound /\ before[s] # after[s]}

\* diff_evidence()
Deltas(before, after) == {s \in Subject : before[s] # after[s]}

\* snapshot_from_record(): the verdict of the snapshot.
Current(t) ==
    /\ Read(t)
    /\ reading[t].copy.outcome # "REVALIDATION_REQUIRED"
    /\ Deltas(reading[t].copy.evidence, reading[t].current) = {}

Answer(t) ==
    /\ Read(t)
    /\ reading' = [reading EXCEPT ![t] = Resting]
    /\ UNCHANGED <<sources, watermarks, record, op>>

-----------------------------------------------------------------------------
Init ==
    /\ sources = First
    /\ watermarks = First
    /\ record = Absent
    /\ op = [t \in Evaluator |-> Idle]
    /\ reading = [t \in Reader |-> Resting]

Evaluate(t) ==
    \/ \E r \in Rules : Begin(t, r)
    \/ ReadElement(t) \/ ReadMembers(t) \/ ReadCoverage(t) \/ ReadGeneration(t)
    \/ \E d \in Domain : ReadDomain(t, d)
    \/ NextHop(t) \/ Decline(t) \/ Commit(t)

Query(t) == Ask(t) \/ (\E s \in Subject : ReadCurrent(t, s)) \/ Answer(t)

Next ==
    \/ \E t \in Evaluator : Evaluate(t)
    \/ \E t \in Reader : Query(t)
    \/ \E s \in Subject : SourceChange(s) \/ \E g \in Generation(s) : Invalidate(s, g)

Spec == Init /\ [][Next]_vars

-----------------------------------------------------------------------------
EvidenceVector == [Subject -> {Unbound} \cup Nat]
Sight == [members : {Unbound} \cup Nat, coverage : {Unbound} \cup Nat,
          domains : [Domain -> {Unbound} \cup Nat]]

Outcome == EvaluationOutcome \cup {"PATH_UNKNOWN"}
RuleSet == Rules \cup {NoRules}

Record == [generation : 0..MaxGeneration, outcome : Outcome, rules : RuleSet,
           evidence : EvidenceVector, seen : [Hop -> Sight]]

Copy == [outcome : Outcome, rules : RuleSet, evidence : EvidenceVector]

Call == [pc : {"idle", "structural", "members", "coverage", "generation", "domains", "commit"},
         rules : RuleSet, hop : DOMAIN Hops, evidence : EvidenceVector,
         seen : [Hop -> Sight]]

\* The type invariant.
TypeOK ==
    /\ sources \in [Subject -> Nat] /\ watermarks \in [Subject -> Nat]
    /\ \A s \in Subject : sources[s] \in Generation(s) /\ watermarks[s] \in 0..sources[s]
    /\ record \in Record
    /\ op \in [Evaluator -> Call]
    /\ reading \in [Reader -> [pc : {"idle", "current"}, copy : Copy,
                               current : EvidenceVector, fresh : BOOLEAN]]

\* A change of an element, of its membership or of a domain the constraint set names
\* that has been announced leaves no live authority on what it replaced, whatever of
\* reading, commit and announcement came first.
NotifiedAboveWatermark ==
    Live /\ can_advance =>
        \A s \in Indexed : record.evidence[s] # Unbound => record.evidence[s] >= watermarks[s]

\* The calls of the view for a hop all met the generation that became evidence.
SeenAsBound(h) ==
    LET m == MemberOf(h) IN
    /\ record.seen[h].members = record.evidence[m]
    /\ record.seen[h].coverage = record.evidence[m]
    /\ \A d \in ListedAt(record.seen, h) :
          record.seen[h].domains[d] = record.evidence[RecordOf(d)]

\* What the bound generations say of a hop is known and is not forbidden.
BoundOutside(h) ==
    LET content == Membership[h][record.evidence[MemberOf(h)]] IN
    /\ content.covered
    /\ \A d \in content.domains :
          /\ d \notin record.rules.forbidden
          /\ DomainClass[d][record.evidence[RecordOf(d)]] \notin record.rules.classes

\* Live authority binds failure domains that allow it: complete coverage, no forbidden
\* domain, no forbidden class, for every hop whose membership held still while it was
\* read.  (README 5 has what happens when it does not.)
AuthorityJustified ==
    Live /\ record.rules # NoRules => \A h \in Hop : SeenAsBound(h) => BoundOutside(h)

\* A snapshot that calls itself current was: everything its decision binds was what the
\* views had at the moment the record was copied, although they were read one after the
\* other and later, while evaluations and changes went on.
CurrentWasTrue ==
    \A t \in Reader : Current(t) => reading[t].fresh

-----------------------------------------------------------------------------
(* What the code does not keep; README 5 has the behaviours.               *)

\* The decision binds the generation whose content it saw.
SeenIsBound == Live /\ record.rules # NoRules => \A h \in Hop : SeenAsBound(h)

\* README 5: "a live currentness verdict with the exact evidence deltas that make it
\* stale": nothing that is bound has changed, so the snapshot is current.
UnchangedIsCurrent ==
    \A t \in Reader :
        /\ Read(t) /\ reading[t].copy.outcome # "REVALIDATION_REQUIRED"
        /\ Unchanged(reading[t].copy)
        => Current(t)
=============================================================================
