--------------------------- MODULE PathEvaluation ---------------------------
(***************************************************************************)
(* compute_evaluation() (runtime.cpp): one definition against one content  *)
(* of the evidence views, stage by stage.  PathRuntime has the interleaving*)
(* of its view calls with everything else; here is what they add up to.    *)
(*                                                                         *)
(* `input' is the definition, its constraint set, the policy, the limits   *)
(* and what the views and the records of other paths say; it never         *)
(* changes.  A violation is its code, severity and subject.                *)
(***************************************************************************)
EXTENDS EffectiveRules, PathShape, Requirement

\* One evaluation is about finitely many elements.
ASSUME EvaluationAssumption ==
    Kind \in [Element -> STRING] /\ IsFiniteSet(Element)

VARIABLES
    input,
    pc,            \* the next stage
    primary,       \* Computation::primary
    hard_failure,  \* Computation::hard_failure
    violations,    \* Computation::violations
    evidence,      \* the entries of Computation::evidence
    overflow       \* evidence.set() refused an entry

vars == <<input, pc, primary, hard_failure, violations, evidence, overflow>>

Stages == <<"STRUCTURAL_TOPOLOGY", "BOUND_INPUT_CURRENTNESS", "PORT_ADMINISTRATIVE",
            "LINK_STATE", "CAPABILITY", "FAILURE_DOMAIN", "POLICY">>

\* The codes a stage raises.
Codes == [STRUCTURAL_TOPOLOGY     |-> {"STRUCTURALLY_INVALID", "STALE_TOPOLOGY"},
          BOUND_INPUT_CURRENTNESS |-> {"REVALIDATION_REQUIRED"},
          PORT_ADMINISTRATIVE     |-> {"PORT_ADMIN_DISABLED", "PORT_REVALIDATION_REQUIRED"},
          LINK_STATE |-> {"LINK_DOWN", "LINK_DEGRADED", "LINK_STATE_UNKNOWN",
                          "REVALIDATION_REQUIRED"},
          CAPABILITY |-> {"CAPABILITY_MISSING", "CAPABILITY_UNKNOWN"},
          FAILURE_DOMAIN |-> {"FAILURE_DOMAIN_VIOLATION", "FAILURE_DOMAIN_COVERAGE_UNKNOWN"},
          POLICY |-> {"POLICY_REJECTED", "FAILURE_DOMAIN_COVERAGE_UNKNOWN"}]

Authorizing == {"AUTHORIZED", "CONDITIONALLY_AUTHORIZED"}

Severity == {"HARD", "CONDITION", "INFORMATIONAL"}

----------------------------------------------------------------------------

rules == combine_rules(input.constraints, input.policy, input.limits.max_hops)

Violation(severity, code, subject) ==
    <<[severity |-> severity, code |-> code, subject |-> subject]>>

Hard(code, subject) == Violation("HARD", code, subject)

\* A finding the rules tolerate: as a condition, or as it is.
Tolerated(is_conditional, code, subject) ==
    Violation(IF is_conditional THEN "CONDITION" ELSE "INFORMATIONAL", code, subject)

Hops == DOMAIN input.hops

\* What a check says of hop after hop.
OnHops(Check(_)) == FlattenSeq([i \in Hops |-> Check(input.hops[i])])

\* Several copies, for a finding about each of several things.
Repeat(n, entry) == FlattenSeq([i \in 1 .. n |-> entry])

----------------------------------------------------------------------------
(* The checks of each stage.                                               *)

\* Mutant: a superseded element passes.
CheckElementLeniently(hop) ==
    LET record == input.structure[hop.ref] IN
    IF record.status \in {"absent", "retired"}     THEN Hard("STRUCTURALLY_INVALID", hop.ref)
    ELSE IF record.generation # hop.generation     THEN Hard("STALE_TOPOLOGY", hop.ref)
    ELSE <<>>

CheckElement(hop) ==
    LET record == input.structure[hop.ref] IN
    IF record.status # "current"               THEN Hard("STRUCTURALLY_INVALID", hop.ref)
    ELSE IF record.generation # hop.generation THEN Hard("STALE_TOPOLOGY", hop.ref)
    ELSE <<>>

\* What the topology says of a hop to a hop: `adjacency' holds the directed pairs it
\* was told of, allowed or forbidden, `hop_layers' the layers of those that have some.
check_hop(from, to) ==
    LET pair    == <<from.ref, to.ref>>
        opposite == <<to.ref, from.ref>>
        status  == {input.structure[from.ref].status, input.structure[to.ref].status}
        known   == DOMAIN input.adjacency
    IN  IF "absent" \in status THEN "UNKNOWN_ELEMENT"
        ELSE IF "retired" \in status THEN "RETIRED_ELEMENT"
        ELSE IF Kind[from.ref] = "ENDPOINT" /\ Kind[to.ref] = "ENDPOINT" THEN "INVALID_PAIRING"
        ELSE IF /\ pair \in DOMAIN input.hop_layers
                /\ input.hop_layers[pair] # <<from.layer, to.layer>> THEN "WRONG_LAYER"
        ELSE IF pair \in known THEN IF input.adjacency[pair] THEN "LEGAL" ELSE "MISSING_ADJACENCY"
        ELSE IF opposite \in known THEN "WRONG_DIRECTION"
        ELSE "DISCONTINUITY"

CheckAdjacency(i) ==
    IF i = 1 \/ check_hop(input.hops[i - 1], input.hops[i]) = "LEGAL" THEN <<>>
    ELSE Hard("STRUCTURALLY_INVALID", input.hops[i].ref)

StructuralTopology == OnHops(CheckElement) \o FlattenSeq([i \in Hops |-> CheckAdjacency(i)])

\* The chain resolve_underlying() found; a definition without one binds nothing.
BoundInputCurrentness ==
    LET chain == input.underlying IN
    IF /\ chain.bound # 0
       /\ \/ ~chain.found
          \/ chain.generation # chain.bound
          \/ chain.outcome \notin Authorizing
    THEN Hard("REVALIDATION_REQUIRED", "underlying")
    ELSE <<>>

\* MAINTENANCE and DRAINING: what is authorized may stay, nothing new comes.
OnlyExisting(allowance, hop) ==
    Violation(IF input.existing_authorized /\ rules.port_admin[allowance]
              THEN "CONDITION" ELSE "HARD", "PORT_ADMIN_DISABLED", hop.ref)

CheckPort(hop) ==
    LET admin == input.port[hop.ref] IN
    IF Kind[hop.ref] # "PORT" THEN <<>>
    ELSE CASE admin = "ACTIVE"      -> <<>>
           [] admin = "MAINTENANCE" -> OnlyExisting("allow_maintenance_existing", hop)
           [] admin = "DRAINING"    -> OnlyExisting("allow_draining_existing", hop)
           [] admin \in {"ADMIN_DISABLED", "RETIRED", "SUPERSEDED"} ->
                  Hard("PORT_ADMIN_DISABLED", hop.ref)
           [] admin \in {"absent", "UNKNOWN", "REVALIDATION_REQUIRED"} ->
                  Hard("PORT_REVALIDATION_REQUIRED", hop.ref)

\* DEGRADED and UNKNOWN have no rule of their own: refused, conditional, or accepted.
CheckLink(hop) ==
    LET state == input.link[hop.ref]
        accept == rules.link_state
        Accept(allowed, is_conditional, code) ==
            IF allowed THEN Tolerated(is_conditional, code, hop.ref) ELSE Hard(code, hop.ref)
    IN  IF Kind[hop.ref] # "LINK" THEN <<>>
        ELSE CASE state = "UP" -> <<>>
               [] state \in {"DOWN", "FAULTED", "RETIRED"} -> Hard("LINK_DOWN", hop.ref)
               [] state = "REVALIDATION_REQUIRED" -> Hard("REVALIDATION_REQUIRED", hop.ref)
               [] state = "DEGRADED" ->
                      Accept(accept.allow_degraded, accept.degraded_is_conditional,
                             "LINK_DEGRADED")
               [] state \in {"absent", "UNKNOWN"} ->
                      Accept(accept.allow_unknown, accept.unknown_is_conditional,
                             "LINK_STATE_UNKNOWN")

\* The record of the entry's own key; the keys inside its expression are not looked at.
CheckCapability(requirement) ==
    LET record == input.record[requirement.subject]
        status == evaluate_requirement(requirement.expression, record, input.limits) IN
    CASE status = "SATISFIED"   -> <<>>
      [] status = "UNSATISFIED" -> Hard("CAPABILITY_MISSING", requirement.subject)
      [] status = "UNKNOWN"     ->
             Violation(IF requirement.fail_closed_on_unknown THEN "HARD" ELSE "CONDITION",
                       "CAPABILITY_UNKNOWN", requirement.subject)

----------------------------------------------------------------------------
(* Failure domains.                                                        *)

Covered(hop) == input.coverage[hop.ref]

CoverageUnknown(subject) == Hard("FAILURE_DOMAIN_COVERAGE_UNKNOWN", subject)

\* The domains of an element that are of a class.
OfClass(ref, class) == {d \in input.memberships[ref] : input.domain_class[d] = class}

\* Each hop by itself, if its coverage is complete.
OnCoveredHops(Check(_)) ==
    LET Unless(hop) == IF Covered(hop) THEN Check(hop) ELSE CoverageUnknown(hop.ref)
    IN  OnHops(Unless)

\* A count over the path needs the coverage of all of it.
CheckCount(members, max_members, subject) ==
    IF \E i \in Hops : ~Covered(input.hops[i]) THEN CoverageUnknown(subject)
    ELSE IF Cardinality(members) > max_members
    THEN Hard("FAILURE_DOMAIN_VIOLATION", subject)
    ELSE <<>>

Established(constraint) ==
    LET peer == input.peers[constraint.peer] IN peer.found /\ peer.outcome \in Authorizing

PeerElements(constraint) == input.peers[constraint.peer].elements

\* No classes named stands for all of them, UNKNOWN excepted.
DiversityClasses(constraint) ==
    IF constraint.diversity_classes = <<>> THEN Tail(DomainClassKinds)
    ELSE constraint.diversity_classes

\* The domains of a class a hop shares with elements of the peer.
SharedDomains(hop, constraint, class) ==
    {pair \in OfClass(hop.ref, class) \X PeerElements(constraint) :
        pair[1] \in input.memberships[pair[2]]}

CheckDiversity(constraint) ==
    LET SharesElement(hop) ==
            IF hop.ref \in PeerElements(constraint)
            THEN Hard("FAILURE_DOMAIN_VIOLATION", hop.ref) ELSE <<>>
        SharesClass(class) ==
            LET Shares(hop) == Repeat(Cardinality(SharedDomains(hop, constraint, class)),
                                      Hard("FAILURE_DOMAIN_VIOLATION", hop.ref))
            IN  OnHops(Shares)
        classes == DiversityClasses(constraint)
    IN  IF \/ ~Established(constraint)
           \/ \E ref \in PeerElements(constraint) : ~input.coverage[ref]
           \/ \E i \in Hops : ~Covered(input.hops[i])
        THEN CoverageUnknown(constraint.peer)
        ELSE OnHops(SharesElement)
                 \o FlattenSeq([i \in DOMAIN classes |-> SharesClass(classes[i])])

CheckDomains(constraint) ==
    LET InDomain(hop) == constraint.domain \in input.memberships[hop.ref]
        members == {i \in Hops : InDomain(input.hops[i])}
        of_class == {i \in Hops : OfClass(input.hops[i].ref, constraint.domain_class) # {}}
        Forbidden(hop) ==
            IF InDomain(hop) THEN Hard("FAILURE_DOMAIN_VIOLATION", hop.ref) ELSE <<>>
        Excluded(hop) ==
            Repeat(Cardinality(OfClass(hop.ref, constraint.domain_class)),
                   Hard("FAILURE_DOMAIN_VIOLATION", hop.ref))
        Nothing(hop) == <<>>
    IN  CASE constraint.kind = "FORBIDDEN_DOMAIN" -> OnCoveredHops(Forbidden)
          [] constraint.kind = "MAX_MEMBERS_FROM_DOMAIN" ->
                 CheckCount(members, constraint.max_members, constraint.domain)
          [] constraint.kind = "MAX_MEMBERS_FROM_CLASS" ->
                 CheckCount(of_class, constraint.max_members, constraint.domain_class)
          [] constraint.kind = "EXCLUDE_DOMAIN_CLASS" -> OnCoveredHops(Excluded)
          [] constraint.kind = "REQUIRE_COVERAGE_COMPLETENESS" -> OnCoveredHops(Nothing)
          [] constraint.kind = "DIVERSE_FROM_PEER_PATH" -> CheckDiversity(constraint)

FailureDomain ==
    FlattenSeq([i \in DOMAIN rules.failure_domains |-> CheckDomains(rules.failure_domains[i])])

----------------------------------------------------------------------------
(* Policy.                                                                 *)

PolicyRejected(subject) == Hard("POLICY_REJECTED", subject)

CheckLayer(hop) == IF allows(rules, hop.layer) THEN <<>> ELSE PolicyRejected(hop.ref)

\* A hop over an element that the path has been at.
CheckLoop(i) ==
    IF ~rules.allow_loops /\ \E j \in 1 .. i - 1 : input.hops[j].ref = input.hops[i].ref
    THEN PolicyRejected(input.hops[i].ref) ELSE <<>>

CheckForbiddenClass(class) ==
    LET Member(hop) == Repeat(Cardinality(OfClass(hop.ref, class)), PolicyRejected(hop.ref))
    IN  OnCoveredHops(Member)

Policy ==
    LET classes == rules.forbidden_domain_classes IN
    OnHops(CheckLayer)
        \o FlattenSeq([i \in Hops |-> CheckLoop(i)])
        \o (IF Len(input.hops) > rules.max_hops THEN PolicyRejected("path") ELSE <<>>)
        \o FlattenSeq([i \in DOMAIN classes |-> CheckForbiddenClass(classes[i])])

Capability ==
    FlattenSeq([i \in DOMAIN rules.capabilities |-> CheckCapability(rules.capabilities[i])])

Raised(stage) ==
    CASE stage = "STRUCTURAL_TOPOLOGY"     -> StructuralTopology
      [] stage = "BOUND_INPUT_CURRENTNESS" -> BoundInputCurrentness
      [] stage = "PORT_ADMINISTRATIVE"     -> OnHops(CheckPort)
      [] stage = "LINK_STATE"              -> OnHops(CheckLink)
      [] stage = "CAPABILITY"              -> Capability
      [] stage = "FAILURE_DOMAIN"          -> FailureDomain
      [] stage = "POLICY"                  -> Policy

----------------------------------------------------------------------------
(* Evidence: a stage remembers what it reads, absent or not.               *)

Scalars == {"EPOCH", "POLICY", "CONSTRAINTS", "TOPOLOGY"} \X {"self"}

OfKind(kind) == {input.hops[i].ref : i \in {j \in Hops : Kind[input.hops[j].ref] = kind}}

PathElements == {input.hops[i].ref : i \in Hops}

\* The elements the failure domain stage looks up: none unless a rule is about
\* domains, then those of the path and of the peers whose authority is established.
DomainElements ==
    IF rules.failure_domains = <<>> /\ rules.forbidden_domain_classes = <<>> THEN {}
    ELSE PathElements \cup
         UNION {PeerElements(c) : c \in {d \in ToSet(rules.failure_domains) :
                                           /\ d.kind = "DIVERSE_FROM_PEER_PATH"
                                           /\ Established(d)}}

\* Mutant: only domains that a constraint names are remembered, as they are indexed.
DomainReadsIndexed ==
    ({"MEMBERSHIP"} \X DomainElements)
        \cup {<<"DOMAIN", d>> : d \in {c.domain : c \in ToSet(rules.failure_domains)}}

DomainReads ==
    ({"MEMBERSHIP"} \X DomainElements)
        \cup ({"DOMAIN"} \X UNION {input.memberships[ref] : ref \in DomainElements})

Reads(stage) ==
    CASE stage = "STRUCTURAL_TOPOLOGY"     -> {"STRUCTURAL_ELEMENT"} \X PathElements
      [] stage = "BOUND_INPUT_CURRENTNESS" ->
             {<<"UNDERLYING_AUTHORITY", "underlying">> :
                 chain \in {c \in {input.underlying} : c.bound # 0 /\ c.found}}
      [] stage = "PORT_ADMINISTRATIVE"     -> {"PORT_CONFIG"} \X OfKind("PORT")
      [] stage = "LINK_STATE"              -> {"LINK_STATE"} \X OfKind("LINK")
      [] stage = "CAPABILITY"              ->
             {<<"CAPABILITY", r.subject>> : r \in ToSet(rules.capabilities)}
      [] stage = "FAILURE_DOMAIN"          -> DomainReads
      [] stage = "POLICY"                  -> {}

\* EvidenceVector::set() takes no new entry beyond the limit.  Which of a stage's
\* entries are refused then makes no difference: the decision is not authority.
Retained(entries, reads) ==
    LET all  == entries \cup reads
        room == input.limits.max_dependencies_per_path
    IN  IF Cardinality(all) <= room THEN all
        ELSE CHOOSE kept \in SUBSET all : entries \subseteq kept /\ Cardinality(kept) = room

Remember(reads) ==
    /\ evidence' = Retained(evidence, reads)
    /\ overflow' = (overflow \/ reads \ evidence' # {})

----------------------------------------------------------------------------
(* StageCollector.                                                         *)

IsHard(violation) == violation.severity = "HARD"

\* Mutant: the explanation is not bounded.
PushAll(entries) == violations' = violations \o entries

\* An entry the explanation has no room for is dropped, whatever its severity.
Push(entries) ==
    violations' = LET all == violations \o entries IN
                  SubSeq(all, 1, Min({Len(all), input.limits.max_explanation_entries}))

\* Mutant: the last hard violation is the primary outcome.
CollectLast(entries) ==
    LET last == SelectLastInSeq(entries, IsHard) IN
    /\ Push(entries)
    /\ IF last = 0
       THEN UNCHANGED <<hard_failure, primary>>
       ELSE hard_failure' = TRUE /\ primary' = entries[last].code

\* The first hard violation is the primary outcome.
Collect(entries) ==
    LET first == SelectInSeq(entries, IsHard) IN
    /\ Push(entries)
    /\ IF hard_failure \/ first = 0
       THEN UNCHANGED <<hard_failure, primary>>
       ELSE hard_failure' = TRUE /\ primary' = entries[first].code

----------------------------------------------------------------------------
(* What is evaluated.                                                      *)

\* A link or a port that its view does not know is absent.
LinkState == {"absent", "UNKNOWN", "UP", "DOWN", "DEGRADED", "FAULTED", "RETIRED",
              "REVALIDATION_REQUIRED"}
PortAdminState == {"absent", "UNKNOWN", "ACTIVE", "ADMIN_DISABLED", "RETIRED", "SUPERSEDED",
                   "MAINTENANCE", "REVALIDATION_REQUIRED", "DRAINING"}

\* Every view has something to say of every element, subject and domain.
ViewsOK ==
    /\ input.structure \in
          [Element -> [status : {"absent", "current", "retired", "superseded"}, generation : Nat]]
    /\ \A pair \in DOMAIN input.adjacency : input.adjacency[pair] \in BOOLEAN
    /\ input.port \in [Element -> PortAdminState]
    /\ input.link \in [Element -> LinkState]
    /\ IsFiniteSet(DOMAIN input.record)
    /\ input.record \in [DOMAIN input.record -> [known : BOOLEAN, value : CapabilityValue]]
    /\ IsFiniteSet(DOMAIN input.domain_class)
    /\ input.memberships \in [Element -> SUBSET DOMAIN input.domain_class]
    /\ input.coverage \in [Element -> BOOLEAN]
    /\ \A peer \in DOMAIN input.peers : input.peers[peer].elements \subseteq Element

\* What registration (of a set) and decoding (of a policy) let through.
RequirementsOK(entries) ==
    /\ entries \in Seq([rank : Nat, subject : DOMAIN input.record,
                        expression : Requirements(input.limits.max_requirement_depth),
                        fail_closed_on_unknown : BOOLEAN])
    /\ \A i \in DOMAIN entries : validate_requirement(entries[i].expression, input.limits)

SideOK(side) ==
    /\ side.link_state \in [allow_degraded : BOOLEAN, degraded_is_conditional : BOOLEAN,
                            allow_unknown : BOOLEAN, unknown_is_conditional : BOOLEAN]
    /\ side.port_admin \in [allow_draining_existing : BOOLEAN,
                            allow_maintenance_existing : BOOLEAN]
    /\ side.allow_loops \in BOOLEAN /\ side.max_hops \in Nat

ConstraintsOK ==
    /\ SideOK(input.constraints)
    /\ input.constraints.allowed_layers \subseteq Layer
    /\ RequirementsOK(input.constraints.capabilities)
    /\ input.constraints.failure_domains \in
          Seq([rank : Nat, kind : ToSet(FailureDomainConstraintKinds),
               domain : DOMAIN input.domain_class, domain_class : ToSet(DomainClassKinds),
               max_members : Nat, peer : DOMAIN input.peers,
               diversity_classes : Seq(ToSet(DomainClassKinds))])

PolicyOK ==
    /\ SideOK(input.policy)
    /\ input.policy.forbidden_layers \subseteq Layer
    /\ RequirementsOK(input.policy.required_capabilities)
    /\ input.policy.forbidden_domain_classes \subseteq ToSet(DomainClassKinds)
    /\ input.policy.allow_conditional_authorization \in BOOLEAN
    /\ input.policy.allow_unknown_link_state \in BOOLEAN

InputOK ==
    /\ input.hops \in Seq([ref : Element, generation : Nat, layer : Layer])
    /\ input.limits.max_hops \in Nat
    /\ input.limits.max_requirement_depth \in Nat
    /\ input.limits.max_explanation_entries \in Nat \ {0}
    /\ input.limits.max_dependencies_per_path \in Nat \ {0}
    /\ input.existing_authorized \in BOOLEAN
    /\ ViewsOK /\ ConstraintsOK /\ PolicyOK

\* The Computation before the first stage.
Start ==
    /\ pc = 0
    /\ primary = "AUTHORIZED"
    /\ hard_failure = FALSE
    /\ violations = <<>>
    /\ evidence = Retained({}, Scalars)
    /\ overflow = (evidence # Scalars)

Init == InputOK /\ Start

ShapeStatus ==
    validate_path_shape(input.type, input.hops, input.underlying.bound, input.limits.max_hops)

Resolution == Len(Stages) + 1
Limits == Len(Stages) + 2
Done == Len(Stages) + 3

\* A path that has no legal shape is not evaluated at all.
Decode ==
    /\ pc = 0
    /\ \/ /\ ShapeStatus = "VALID"
          /\ pc' = 1
          /\ UNCHANGED primary
       \/ /\ ShapeStatus # "VALID"
          /\ pc' = Done
          /\ primary' = IF ShapeStatus = "TOO_MANY_HOPS" THEN "RESOURCE_LIMIT"
                                                         ELSE "MALFORMED_PATH"
    /\ UNCHANGED <<input, hard_failure, violations, evidence, overflow>>

\* One stage; every stage runs, whatever the earlier ones found.
Stage ==
    /\ pc \in DOMAIN Stages
    /\ Remember(Reads(Stages[pc]))
    /\ Collect(Raised(Stages[pc]))
    /\ pc' = pc + 1
    /\ UNCHANGED input

Conditional == SelectInSeq(violations, LAMBDA v : v.severity = "CONDITION")

\* Mutant: conditions are resolved without asking the policy.
ResolveLeniently ==
    /\ pc = Resolution
    /\ pc' = Limits
    /\ primary' = IF ~hard_failure /\ Conditional # 0 THEN "CONDITIONALLY_AUTHORIZED"
                                                     ELSE primary
    /\ UNCHANGED <<input, hard_failure, violations, evidence, overflow>>

\* Conditions become an outcome: the conditional one, or, where the policy has none,
\* the first of them rejects.
Resolve ==
    /\ pc = Resolution
    /\ pc' = Limits
    /\ \/ /\ hard_failure \/ Conditional = 0
          /\ UNCHANGED <<primary, hard_failure, violations>>
       \/ /\ ~hard_failure /\ Conditional # 0
          /\ rules.allow_conditional_authorization
          /\ primary' = "CONDITIONALLY_AUTHORIZED"
          /\ UNCHANGED <<hard_failure, violations>>
       \/ /\ ~hard_failure /\ Conditional # 0
          /\ ~rules.allow_conditional_authorization
          /\ primary' = violations[Conditional].code
          /\ hard_failure' = TRUE
          /\ violations' = [violations EXCEPT ![Conditional].severity = "HARD"]
    /\ UNCHANGED <<input, evidence, overflow>>

\* Evidence that does not fit is a violation too, the last one.
CheckLimits ==
    /\ pc = Limits
    /\ pc' = Done
    /\ Collect(IF overflow THEN Hard("RESOURCE_LIMIT", "path") ELSE <<>>)
    /\ UNCHANGED <<input, evidence, overflow>>

Next == Decode \/ Stage \/ Resolve \/ CheckLimits

Spec == Init /\ [][Next]_vars

----------------------------------------------------------------------------
(* What a decision means, said of the definition, the views and the two    *)
(* sides' rules and not of the stages' order or their combination.         *)

\* A step along the path that the topology allows.
Adjacent(from, to) ==
    LET pair == <<from.ref, to.ref>> IN
    /\ {Kind[from.ref], Kind[to.ref]} # {"ENDPOINT"}
    /\ pair \in DOMAIN input.adjacency /\ input.adjacency[pair]
    /\ pair \in DOMAIN input.hop_layers => input.hop_layers[pair] = <<from.layer, to.layer>>

\* The values that an expression admits, as a set: between bounds of the value's own
\* type, and combined by intersection, union and complement.
MeaningOf(requirement, inner) ==
    LET op == requirement.op
        Between(low, high) ==
            {v \in CapabilityValue : v.type = low.type /\ v.rank \in low.rank .. high.rank}
        Above(low) == {v \in CapabilityValue : v.type = low.type /\ v.rank >= low.rank}
        Upto(high) == Between([high EXCEPT !.rank = 0], high)
    IN  CASE op = "SUPPORTS" -> {v \in CapabilityValue : v.rank # 0}
          [] op \in {"MINIMUM", "VERSION_AT_LEAST"} -> Above(requirement.values[1])
          [] op = "MAXIMUM" -> Upto(requirement.values[1])
          [] op = "RANGE_CONTAINS" -> Between(requirement.values[1], requirement.values[2])
          [] op = "IN_SET" -> ToSet(requirement.values)
          [] op = "ALL_OF" -> {v \in CapabilityValue : \A c \in ToSet(inner) : v \in c}
          [] op = "ANY_OF" -> UNION ToSet(inner)
          [] op = "NOT" -> CapabilityValue \ inner[1]

Meaning(requirement) == OnTree(requirement, input.limits.max_requirement_depth, MeaningOf)

\* Both sides' list of acceptances has it.
BothAllow(group, acceptance) ==
    input.constraints[group][acceptance] /\ input.policy[group][acceptance]

LinkTolerated(state) ==
    \/ state = "DEGRADED" /\ BothAllow("link_state", "allow_degraded")
    \/ /\ state \in {"UNKNOWN", "absent"}
       /\ BothAllow("link_state", "allow_unknown")
       /\ input.policy.allow_unknown_link_state

PortTolerated(admin) ==
    /\ input.existing_authorized
    /\ \/ admin = "DRAINING" /\ BothAllow("port_admin", "allow_draining_existing")
       \/ admin = "MAINTENANCE" /\ BothAllow("port_admin", "allow_maintenance_existing")

\* An element is not in a domain of the class.  A domain without a record is in none.
Outside(ref, class) == \A d \in input.memberships[ref] : input.domain_class[d] # class

AtMost(max_members, Member(_)) ==
    Cardinality({i \in Hops : Member(input.hops[i].ref)}) <= max_members

Disjoint(constraint) ==
    LET peer == input.peers[constraint.peer] IN
    /\ peer.found
    /\ peer.outcome \in Authorizing
    /\ \A ref \in peer.elements : input.coverage[ref] /\ ref \notin PathElements
    /\ \A ref \in PathElements, other \in peer.elements :
          \A d \in input.memberships[ref] \cap input.memberships[other] :
              input.domain_class[d] \notin ToSet(DiversityClasses(constraint))

\* A constraint of the set on failure domains holds, and that can be shown.
Satisfied(constraint) ==
    LET kind == constraint.kind IN
    /\ \A ref \in PathElements : input.coverage[ref]
    /\ kind = "FORBIDDEN_DOMAIN" =>
          \A ref \in PathElements : constraint.domain \notin input.memberships[ref]
    /\ kind = "MAX_MEMBERS_FROM_DOMAIN" =>
          AtMost(constraint.max_members, LAMBDA ref : constraint.domain \in input.memberships[ref])
    /\ kind = "MAX_MEMBERS_FROM_CLASS" =>
          AtMost(constraint.max_members, LAMBDA ref : ~Outside(ref, constraint.domain_class))
    /\ kind = "EXCLUDE_DOMAIN_CLASS" =>
          \A ref \in PathElements : Outside(ref, constraint.domain_class)
    /\ kind = "DIVERSE_FROM_PEER_PATH" => Disjoint(constraint)

LayerPermitted(layer) ==
    /\ layer \notin input.policy.forbidden_layers
    /\ input.constraints.allowed_layers # {} => layer \in input.constraints.allowed_layers

\* The two sides together leave no layer at all.
NoLayerLeft == \A layer \in Layer : ~LayerPermitted(layer)

WithinBound(bound) == bound = 0 \/ Len(input.hops) <= bound

\* Nothing a stage is about speaks against the path.
Proven(stage) ==
    CASE stage = "STRUCTURAL_TOPOLOGY" ->
            /\ \A i \in Hops :
                  LET record == input.structure[input.hops[i].ref] IN
                  record.status = "current" /\ record.generation = input.hops[i].generation
            /\ \A i \in Hops \ {1} : Adjacent(input.hops[i - 1], input.hops[i])
      [] stage = "BOUND_INPUT_CURRENTNESS" ->
            LET chain == input.underlying IN
            chain.bound # 0 => /\ chain.found
                               /\ chain.generation = chain.bound
                               /\ chain.outcome \in Authorizing
      [] stage = "PORT_ADMINISTRATIVE" ->
            \A ref \in OfKind("PORT") :
                input.port[ref] = "ACTIVE" \/ PortTolerated(input.port[ref])
      [] stage = "LINK_STATE" ->
            \A ref \in OfKind("LINK") :
                input.link[ref] = "UP" \/ LinkTolerated(input.link[ref])
      [] stage = "CAPABILITY" ->
            \A r \in ToSet(input.constraints.capabilities)
                      \cup ToSet(input.policy.required_capabilities) :
                IF input.record[r.subject].known
                THEN input.record[r.subject].value \in Meaning(r.expression)
                ELSE ~r.fail_closed_on_unknown
      [] stage = "FAILURE_DOMAIN" -> \A c \in ToSet(input.constraints.failure_domains) : Satisfied(c)
      [] stage = "POLICY" ->
            /\ NoLayerLeft \/ \A i \in Hops : LayerPermitted(input.hops[i].layer)
            /\ \/ Cardinality(PathElements) = Len(input.hops)
               \/ input.constraints.allow_loops /\ input.policy.allow_loops
            /\ WithinBound(input.constraints.max_hops) /\ WithinBound(input.policy.max_hops)
            /\ \A class \in input.policy.forbidden_domain_classes, ref \in PathElements :
                  input.coverage[ref] /\ Outside(ref, class)

\* Something about the path makes its authority conditional.
HasCondition ==
    \/ \E ref \in OfKind("PORT") : input.port[ref] # "ACTIVE"
    \/ \E ref \in OfKind("LINK") :
          \/ /\ input.link[ref] = "DEGRADED"
             /\ \/ input.constraints.link_state.degraded_is_conditional
                \/ input.policy.link_state.degraded_is_conditional
          \/ /\ input.link[ref] \in {"UNKNOWN", "absent"}
             /\ \/ input.constraints.link_state.unknown_is_conditional
                \/ input.policy.link_state.unknown_is_conditional
    \/ \E r \in ToSet(rules.capabilities) : ~input.record[r.subject].known

----------------------------------------------------------------------------

\* What a violation may be about.
Subjects == Element \cup DOMAIN input.record \cup DOMAIN input.domain_class
                \cup DOMAIN input.peers \cup ToSet(DomainClassKinds) \cup {"underlying", "path"}

Violations == [severity : Severity, subject : Subjects,
               code : {"RESOURCE_LIMIT"} \cup UNION {Codes[s] : s \in ToSet(Stages)}]

\* Every variable has its type, and the explanation stays within
\* max_explanation_entries, the evidence within max_dependencies_per_path.
TypeOK ==
    /\ InputOK
    /\ pc \in 0 .. Done
    /\ primary \in Authorizing \cup {"MALFORMED_PATH", "RESOURCE_LIMIT"}
          \cup UNION {Codes[s] : s \in ToSet(Stages)}
    /\ hard_failure \in BOOLEAN
    /\ \A i \in DOMAIN violations : violations[i] \in Violations
    /\ Len(violations) <= input.limits.max_explanation_entries
    /\ Cardinality(evidence) <= input.limits.max_dependencies_per_path
    /\ overflow \in BOOLEAN

\* Authority is granted only to a path that nothing speaks against: each hop and each
\* adjacency current, ports and links up or tolerated by both sides, no
\* capability missing, every failure domain constraint shown, the policy kept (the
\* set and the policy leaving no layer at all excepted, see ForbiddenLayerRefused).
\* compute_evaluation() as a whole: stages, tolerations and counts.
AuthorityIsProven ==
    pc = Done /\ primary \in Authorizing => ShapeStatus = "VALID" /\ \A s \in ToSet(Stages) : Proven(s)

\* A rejected path is rejected for the earliest stage that something speaks against
\* it in, with one of that stage's codes, and whatever later stages find.  A path
\* with nothing against it is rejected only where conditions may not stand or its
\* evidence does not fit (the README's deterministic rejection precedence).
EarliestStageDecides ==
    pc = Done /\ primary \notin Authorizing =>
        LET failing == {i \in DOMAIN Stages : ~Proven(Stages[i])} IN
        IF ShapeStatus # "VALID" THEN primary \in {"MALFORMED_PATH", "RESOURCE_LIMIT"}
        ELSE IF failing = {}
        THEN \/ HasCondition /\ ~input.policy.allow_conditional_authorization
             \/ primary = "RESOURCE_LIMIT" /\ overflow
        ELSE primary \in Codes[Stages[Min(failing)]]

\* Authority binds every view and record it was decided from, so that a change of any
\* of them withdraws it: an entry that did not fit, or a domain read through a
\* membership, is not left out.  (The authority of a peer path is read and not bound.)
AuthorityBindsReads ==
    pc = Done /\ primary \in Authorizing =>
        /\ Scalars \subseteq evidence
        /\ \A ref \in PathElements : <<"STRUCTURAL_ELEMENT", ref>> \in evidence
        /\ \A ref \in OfKind("PORT") : <<"PORT_CONFIG", ref>> \in evidence
        /\ \A ref \in OfKind("LINK") : <<"LINK_STATE", ref>> \in evidence
        /\ \A r \in ToSet(rules.capabilities) : <<"CAPABILITY", r.subject>> \in evidence
        /\ input.underlying.bound # 0 => <<"UNDERLYING_AUTHORITY", "underlying">> \in evidence
        /\ input.constraints.failure_domains # <<>> \/ input.policy.forbidden_domain_classes # {} =>
              \A ref \in PathElements :
                  /\ <<"MEMBERSHIP", ref>> \in evidence
                  /\ \A d \in input.memberships[ref] : <<"DOMAIN", d>> \in evidence
        /\ \A c \in ToSet(input.constraints.failure_domains) :
              c.kind = "DIVERSE_FROM_PEER_PATH" =>
                  \A ref \in input.peers[c.peer].elements :
                      /\ <<"MEMBERSHIP", ref>> \in evidence
                      /\ \A d \in input.memberships[ref] : <<"DOMAIN", d>> \in evidence

\* With room in the explanation, authority is unconditional only if nothing makes it
\* conditional, and conditional only if the policy lets conditions stand: the
\* resolution of conditional authorization in compute_evaluation().
ConditionsResolved ==
    pc = Done =>
        /\ primary = "AUTHORIZED" =>
              ~HasCondition \/ Len(violations) = input.limits.max_explanation_entries
        /\ primary = "CONDITIONALLY_AUTHORIZED" =>
              HasCondition /\ input.policy.allow_conditional_authorization

\* The README: "Diagnostic richness never changes the authoritative result."  How many
\* entries an explanation holds has no part in whether authority is conditional.
RichnessChangesNothing == pc = Done /\ primary = "AUTHORIZED" => ~HasCondition

\* The README: "The effective rules are the most restrictive combination of the path
\* constraint set and the policy."  No authority for a hop on a layer that either
\* refuses.
ForbiddenLayerRefused ==
    pc = Done /\ primary \in Authorizing => \A i \in Hops : LayerPermitted(input.hops[i].layer)

\* The README: "Mixed-type comparisons are a failure, never an implicit coercion."  A
\* requirement that the recorded value cannot be compared for gives no authority.
MixedTypesFail ==
    pc = Done /\ primary \in Authorizing =>
        \A r \in ToSet(rules.capabilities) :
            LET expression == r.expression
                leaf == IF expression.op = "NOT" THEN expression.children[1] ELSE expression
            IN  /\ input.record[r.subject].known
                /\ leaf.op \in {"MINIMUM", "MAXIMUM", "VERSION_AT_LEAST", "RANGE_CONTAINS"}
                => input.record[r.subject].value.type = leaf.values[1].type
=============================================================================
