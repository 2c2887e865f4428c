-------------------------- MODULE MCPathEvaluation --------------------------
(***************************************************************************)
(* Evaluations for TLC.  All of them together are far too many, so each    *)
(* family varies what one or two stages look at, around a path that        *)
(* nothing speaks against, and keeps a reason of another stage at hand.    *)
(***************************************************************************)
EXTENDS PathEvaluation

CONSTANT Families  \* the families of this run

\* Two endpoints, a port and a link between them; a tunnel and a boundary, which are
\* also the path of the peer.
MCElement == {"e1", "e2", "p1", "l1", "t1", "b1"}
MCKind == [e1 |-> "ENDPOINT", e2 |-> "ENDPOINT", p1 |-> "PORT", l1 |-> "LINK",
           t1 |-> "TUNNEL", b1 |-> "FABRIC_BOUNDARY"]

Hop(ref, layer) == [ref |-> ref, generation |-> 1, layer |-> layer]
Current == [status |-> "current", generation |-> 1]

\* Both sides' acceptances.
LinkAcceptance == [allow_degraded : BOOLEAN, degraded_is_conditional : BOOLEAN,
                   allow_unknown : BOOLEAN, unknown_is_conditional : BOOLEAN]
PortAcceptance == [allow_draining_existing : BOOLEAN, allow_maintenance_existing : BOOLEAN]
StrictLinks == [allow_degraded |-> FALSE, degraded_is_conditional |-> FALSE,
                allow_unknown |-> FALSE, unknown_is_conditional |-> FALSE]
LenientLinks == [StrictLinks EXCEPT !.allow_degraded = TRUE, !.allow_unknown = TRUE]
LenientPorts == [allow_draining_existing |-> TRUE, allow_maintenance_existing |-> TRUE]

CleanConstraints ==
    [link_state |-> LenientLinks, port_admin |-> LenientPorts, allowed_layers |-> {},
     allow_loops |-> TRUE, max_hops |-> 0, capabilities |-> <<>>, failure_domains |-> <<>>]

CleanPolicy ==
    [link_state |-> LenientLinks, port_admin |-> LenientPorts, forbidden_layers |-> {},
     allow_loops |-> TRUE, max_hops |-> 0, required_capabilities |-> <<>>,
     forbidden_domain_classes |-> {}, allow_conditional_authorization |-> TRUE,
     allow_unknown_link_state |-> TRUE]

Value(type, rank) == [type |-> type, rank |-> rank]

MCCapabilityValue ==
    [type : {"UNSIGNED", "TEXT"}, rank : 0 .. 2] \cup [type : {"BOOLEAN", "VERSION"}, rank : 0 .. 1]

Recorded(type, rank) == [known |-> TRUE, value |-> Value(type, rank)]

Unrecorded == [known |-> FALSE, value |-> Value("UNSIGNED", 0)]

Clean ==
    [type |-> "PHYSICAL",
     hops |-> [i \in 1 .. 4 |-> Hop(<<"e1", "p1", "l1", "e2">>[i], "PHYSICAL")],
     structure |-> [e \in MCElement |-> Current],
     adjacency |-> [pair \in MCElement \X MCElement |-> TRUE],
     hop_layers |-> <<>>,
     underlying |-> [bound |-> 0, found |-> FALSE, generation |-> 0, outcome |-> "UNKNOWN"],
     port |-> [e \in MCElement |-> "ACTIVE"],
     link |-> [e \in MCElement |-> "UP"],
     record |-> [mtu |-> Recorded("UNSIGNED", 1), macsec |-> Recorded("BOOLEAN", 1)],
     memberships |-> [e \in MCElement |-> {}],
     coverage |-> [e \in MCElement |-> TRUE],
     domain_class |-> [d1 |-> "POWER", d2 |-> "RACK"],
     peers |-> [peer |-> [found |-> TRUE, outcome |-> "AUTHORIZED", elements |-> {"t1", "b1"}]],
     existing_authorized |-> TRUE,
     constraints |-> CleanConstraints,
     policy |-> CleanPolicy,
     limits |-> [max_hops |-> 5, max_explanation_entries |-> 9,
                 max_dependencies_per_path |-> 30,
                 max_requirement_nodes |-> 4, max_requirement_depth |-> 3]]

Structures == {Current, [status |-> "current", generation |-> 2],
               [status |-> "absent", generation |-> 0],
               [status |-> "retired", generation |-> 1],
               [status |-> "superseded", generation |-> 1]}

\* What the topology may hold of p1 -> l1.
Adjacencies ==
    LET pairs == (MCElement \X MCElement) \ {<<"p1", "l1">>} IN
    {[pair \in pairs |-> TRUE], [pair \in pairs \ {<<"l1", "p1">>} |-> TRUE]}
        \cup {[pair \in MCElement \X MCElement |-> pair # <<"p1", "l1">> \/ allowed] :
                 allowed \in BOOLEAN}

LayersOfHop == {<<>>} \cup {(<<"p1", "l1">> :> layers) :
                               layers \in {<<"PHYSICAL", "PHYSICAL">>, <<"PHYSICAL", "LOGICAL">>}}

\* Structure, adjacency, and an underlying path that is missing, moved or rejected.
Structural ==
    \/ \E s \in Structures, t \in Structures, adjacency \in Adjacencies, layers \in LayersOfHop,
          admin \in {"ACTIVE", "RETIRED"} :
          input = [Clean EXCEPT !.structure["p1"] = s, !.structure["l1"] = t,
                                !.adjacency = adjacency, !.hop_layers = layers,
                                !.port["p1"] = admin]
    \/ \E s \in Structures, admin \in {"ACTIVE", "RETIRED"}, direct \in BOOLEAN,
          chain \in {Clean.underlying} \cup
                    {c \in [bound : {1}, found : BOOLEAN, generation : 0 .. 2,
                            outcome : {"UNKNOWN", "AUTHORIZED", "LINK_DOWN"}] :
                        c.found <=> c.generation # 0} :
          input = [Clean EXCEPT !.structure["p1"] = s,
                                !.hops = IF direct THEN <<Clean.hops[1], Clean.hops[4]>>
                                                   ELSE Clean.hops,
                                !.type = "LOGICAL", !.underlying = chain,
                                !.port["p1"] = admin]

Ports ==
    \E admin \in PortAdminState, state \in {"UP", "REVALIDATION_REQUIRED"}, existing \in BOOLEAN,
       c \in PortAcceptance, p \in PortAcceptance, conditional \in BOOLEAN :
        input = [Clean EXCEPT !.port["p1"] = admin, !.link["l1"] = state,
                              !.existing_authorized = existing,
                              !.constraints.port_admin = c, !.policy.port_admin = p,
                              !.policy.allow_conditional_authorization = conditional]

Links ==
    \E state \in LinkState, c \in LinkAcceptance, p \in LinkAcceptance,
       unknown \in BOOLEAN, conditional \in BOOLEAN :
        input = [Clean EXCEPT !.link["l1"] = state,
                              !.constraints.link_state = c, !.policy.link_state = p,
                              !.policy.allow_unknown_link_state = unknown,
                              !.policy.allow_conditional_authorization = conditional]

Leaf(op, values) == [op |-> op, values |-> values, children |-> <<>>]

Entry(rank, expression, closed) ==
    [rank |-> rank, subject |-> IF rank = 1 THEN "mtu" ELSE "macsec", expression |-> expression,
     fail_closed_on_unknown |-> closed]

\* One capability of each side, and little room for explanation or evidence.
Capabilities ==
    \E s \in {Unrecorded, Recorded("UNSIGNED", 0), Recorded("UNSIGNED", 1)},
       t \in {Unrecorded, Recorded("BOOLEAN", 0), Recorded("BOOLEAN", 1)},
       c \in BOOLEAN, p \in BOOLEAN, state \in {"UP", "DEGRADED"},
       admin \in {"ACTIVE", "DRAINING"}, conditional \in BOOLEAN,
       entries \in {1, 2, 9}, dependencies \in {3, 11, 30} :
        input = [Clean EXCEPT !.record = [mtu |-> s, macsec |-> t],
                              !.link["l1"] = state, !.port["p1"] = admin,
                              !.constraints.capabilities =
                                  <<Entry(1, Leaf("MINIMUM", <<Value("UNSIGNED", 1)>>), c)>>,
                              !.policy.required_capabilities =
                                  <<Entry(2, Leaf("SUPPORTS", <<>>), p)>>,
                              !.policy.allow_conditional_authorization = conditional,
                              !.limits.max_explanation_entries = entries,
                              !.limits.max_dependencies_per_path = dependencies]

\* Leaves of every operator, well-formed or not.
Leaves ==
    {Leaf("SUPPORTS", <<>>), Leaf("VERSION_AT_LEAST", <<Value("VERSION", 1)>>),
     Leaf("IN_SET", <<Value("UNSIGNED", 0), Value("TEXT", 2)>>), Leaf("IN_SET", <<>>)}
        \cup {Leaf(op, <<bound>>) : op \in {"MINIMUM", "MAXIMUM"},
                                   bound \in {Value("UNSIGNED", 1), Value("TEXT", 1)}}
        \cup {Leaf("RANGE_CONTAINS", <<Value("UNSIGNED", low), Value(type, 1)>>) :
                 low \in {1, 2}, type \in {"UNSIGNED", "VERSION"}}

Node(op, children) == [op |-> op, values |-> <<>>, children |-> children]

Negations == {Node("NOT", <<leaf>>) : leaf \in Leaves}

Combinations ==
    {Node(op, <<r, s>>) : op \in {"ALL_OF", "ANY_OF"}, r \in Leaves, s \in Leaves \cup Negations}

\* Every shape of expression a constraint set may have.
RequirementTrees ==
    \E expression \in Leaves \cup Negations \cup Combinations
                         \cup {Node("NOT", <<r>>) : r \in Combinations} \cup {Node("ANY_OF", <<>>)},
       record \in {Unrecorded} \cup [known : {TRUE}, value : MCCapabilityValue] :
        /\ validate_requirement(expression, Clean.limits)
        /\ input = [Clean EXCEPT !.record["mtu"] = record,
                                 !.constraints.capabilities = <<Entry(1, expression, TRUE)>>]

Constraint(kind, classes) ==
    [rank |-> CHOOSE i \in DOMAIN FailureDomainConstraintKinds :
                  FailureDomainConstraintKinds[i] = kind,
     kind |-> kind, domain |-> "d1", domain_class |-> "POWER", max_members |-> 1,
     peer |-> "peer", diversity_classes |-> classes]

\* Memberships, coverage, records without a class, and a peer path.
Domains ==
    \E m \in SUBSET {"d1", "d2"}, n \in {{}, {"d1"}}, o \in {{}, {"d1"}, {"d2"}},
       covered \in BOOLEAN, peer_covered \in BOOLEAN, class \in {"POWER", "UNKNOWN"},
       forbidden \in {{}, {"POWER", "RACK"}},
       list \in {<<>>} \cup {<<Constraint(FailureDomainConstraintKinds[k], <<>>)>> : k \in 1 .. 5}
                \cup {<<Constraint("DIVERSE_FROM_PEER_PATH", c),
                        Constraint("FORBIDDEN_DOMAIN", <<>>)>> : c \in {<<>>, <<"RACK">>}},
       peer \in {Clean.peers["peer"], [Clean.peers["peer"] EXCEPT !.outcome = "LINK_DOWN"],
                 [Clean.peers["peer"] EXCEPT !.elements = {"l1", "b1"}]} :
        input = [Clean EXCEPT !.memberships = [Clean.memberships EXCEPT
                                                   !.p1 = m, !.l1 = n, !.t1 = o],
                              !.coverage["p1"] = covered, !.coverage["t1"] = peer_covered,
                              !.domain_class["d1"] = class,
                              !.constraints.failure_domains = list,
                              !.policy.forbidden_domain_classes = forbidden,
                              !.peers["peer"] = peer]

\* Layers, loops and bounds on the number of hops.
Policies ==
    \E middle \in {<<"p1", "l1">>, <<"t1", "p1", "t1">>}, layer \in {"PHYSICAL", "OVERLAY"},
       allowed \in SUBSET {"PHYSICAL", "LOGICAL", "OVERLAY"},
       forbidden \in SUBSET {"PHYSICAL", "LOGICAL"},
       loops \in BOOLEAN, c \in {0, 4}, p \in {0, 5} :
        input = [Clean EXCEPT !.type = "LOGICAL",
                              !.hops = <<Hop("e1", "PHYSICAL")>>
                                           \o [i \in DOMAIN middle |-> Hop(middle[i], layer)]
                                           \o <<Hop("e2", "LOGICAL")>>,
                              !.constraints.allowed_layers = allowed,
                              !.policy.forbidden_layers = forbidden,
                              !.constraints.allow_loops = loops,
                              !.constraints.max_hops = c, !.policy.max_hops = p]

\* Sequences of any shape.
Shapes ==
    \E n \in 1 .. 4, type \in {"PHYSICAL", "LOGICAL"}, bound \in 0 .. 1, max_hops \in {3, 5},
       loops \in BOOLEAN :
        \E refs \in [1 .. n -> {"e1", "p1", "l1", "t1", "b1"}] :
            input = [Clean EXCEPT !.type = type, !.hops = [i \in 1 .. n |-> Hop(refs[i], "PHYSICAL")],
                                  !.underlying.bound = bound, !.underlying.found = TRUE,
                                  !.underlying.generation = 1,
                                  !.underlying.outcome = "AUTHORIZED",
                                  !.policy.allow_loops = loops,
                                  !.limits.max_hops = max_hops]

MCInit ==
    /\ \/ "structural" \in Families /\ Structural
       \/ "ports" \in Families /\ Ports
       \/ "links" \in Families /\ Links
       \/ "capabilities" \in Families /\ Capabilities
       \/ "requirements" \in Families /\ RequirementTrees
       \/ "domains" \in Families /\ Domains
       \/ "policies" \in Families /\ Policies
       \/ "shapes" \in Families /\ Shapes
    /\ Start

MCSpec == MCInit /\ [][Next]_vars
=============================================================================
