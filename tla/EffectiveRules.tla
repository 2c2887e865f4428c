--------------------------- MODULE EffectiveRules ---------------------------
(***************************************************************************)
(* The rules a path is evaluated under: combine_rules() (constraints.cpp)  *)
(* merges the constraint set the path binds with the current policy.  A    *)
(* capability requirement has its position in the canonical order (entity, *)
(* key, rendered expression) as `rank', a failure domain constraint its    *)
(* own (kind, domain, class, rendering).                                   *)
(***************************************************************************)
EXTENDS Integers, Sequences, FiniteSetsExt, SequencesExt

Layer == {"PHYSICAL", "LOGICAL", "OVERLAY", "CONTROL"}

\* In the order of the enumeration, which is the order sorting gives them.
DomainClassKinds == <<"UNKNOWN", "POWER", "COOLING", "RACK", "LINE_CARD",
                      "SHARED_RISK_LINK_GROUP", "SITE", "REGION", "SHELF", "CHANNEL">>

FailureDomainConstraintKinds ==
    <<"FORBIDDEN_DOMAIN", "MAX_MEMBERS_FROM_DOMAIN", "MAX_MEMBERS_FROM_CLASS",
      "EXCLUDE_DOMAIN_CLASS", "REQUIRE_COVERAGE_COMPLETENESS", "DIVERSE_FROM_PEER_PATH">>

\* std::stable_sort(): entries of one rank stay in the order they came in.
InOrder(entries) ==
    LET Before(i, j) == \/ entries[i].rank < entries[j].rank
                        \/ entries[i].rank = entries[j].rank /\ i < j
        positions == DOMAIN entries
        order == CHOOSE p \in Bijection(positions, positions) :
                     \A i, j \in positions : i < j => Before(p[i], p[j])
    IN  [i \in positions |-> entries[order[i]]]

\* An acceptance holds if both sides give it, a condition if one side asks for it.
CombinedLinkState(constraints, policy) ==
    [allow_degraded |->
        constraints.link_state.allow_degraded /\ policy.link_state.allow_degraded,
     degraded_is_conditional |->
        \/ constraints.link_state.degraded_is_conditional
        \/ policy.link_state.degraded_is_conditional,
     allow_unknown |->
        /\ constraints.link_state.allow_unknown
        /\ policy.link_state.allow_unknown
        /\ policy.allow_unknown_link_state,
     unknown_is_conditional |->
        \/ constraints.link_state.unknown_is_conditional
        \/ policy.link_state.unknown_is_conditional]

CombinedPortAdmin(constraints, policy) ==
    [allowance \in {"allow_draining_existing", "allow_maintenance_existing"} |->
        constraints.port_admin[allowance] /\ policy.port_admin[allowance]]

\* An empty list of the constraint set stands for every layer.
CombinedLayers(constraints, policy) ==
    (IF constraints.allowed_layers = {} THEN Layer ELSE constraints.allowed_layers)
        \ policy.forbidden_layers

\* 0 is no bound of a set's or a policy's own.
CombinedMaxHops(constraints, policy, max_hops) ==
    Min({max_hops} \cup ({constraints.max_hops, policy.max_hops} \ {0}))

combine_rules(constraints, policy, max_hops) ==
    [link_state                      |-> CombinedLinkState(constraints, policy),
     port_admin                      |-> CombinedPortAdmin(constraints, policy),
     allowed_layers                  |-> CombinedLayers(constraints, policy),
     allow_loops                     |-> constraints.allow_loops /\ policy.allow_loops,
     max_hops                        |-> CombinedMaxHops(constraints, policy, max_hops),
     allow_conditional_authorization |-> policy.allow_conditional_authorization,
     capabilities    |-> InOrder(policy.required_capabilities \o constraints.capabilities),
     failure_domains |-> InOrder(constraints.failure_domains),
     forbidden_domain_classes |->
        FlattenSeq([i \in DOMAIN DomainClassKinds |->
                       IF DomainClassKinds[i] \in policy.forbidden_domain_classes
                       THEN <<DomainClassKinds[i]>> ELSE <<>>])]

\* PathLayerPolicy::allows(): an empty list here again stands for every layer.
allows(rules, layer) == rules.allowed_layers = {} \/ layer \in rules.allowed_layers
=============================================================================
