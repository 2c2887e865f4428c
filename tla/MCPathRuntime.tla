---------------------------- MODULE MCPathRuntime ----------------------------
(***************************************************************************)
(* Small instances of PathRuntime.  d1 takes p1 through a port that drains *)
(* and d2 reroutes it over a link that fails, bound to the constraint set's*)
(* second generation; d3 is another path over that link.                   *)
(***************************************************************************)
EXTENDS PathRuntime, TLC

CONSTANTS p1, p2, c1, d1, d2, d3

OnePath == {p1}
TwoPaths == {p1, p2}

MCElement == {"port", "link"}
PortOnly == {"port"}
MCCapability == {"mtu", "macsec"}
NoCapability == {}
MCPathOf == [d \in Definition |-> IF d = d3 THEN p2 ELSE p1]
MCUses == [d \in Definition |-> IF d = d1 THEN {"port"} ELSE {"link"}]
PortUses == [d \in Definition |-> {"port"}]
MCSetOf == [d \in Definition |-> c1]
MCBoundTo == [d \in Definition |-> IF d = d2 THEN 2 ELSE 1]

\* The first generation asks for one capability, its replacement for another.
NoRequirements == [c \in ConstraintSet |-> <<{}>>]
OneCapability == [c \in ConstraintSet |-> <<{"mtu"}, {"macsec"}>>]
ReplacedOnce == [c \in ConstraintSet |-> <<{}, {}>>]
NoPolicyRequirements == <<{}>>
PolicyAsksMore == <<{}, {"macsec"}>>

Unchanging == [s \in Subject |-> <<"good">>]

DrainingPort ==
    [Unchanging EXCEPT !["port"] = <<"good", "existing">>]
MovingEpoch ==
    [Unchanging EXCEPT !["EPOCH"] = <<"good", "good">>]

MovingDependencies ==
    [Unchanging EXCEPT !["POLICY"] = <<"good", "strict">>,
                       !["macsec"] = <<"good", "conditional">>,
                       !["port"] = <<"good", "bad">>]
=============================================================================
