-------------------------- MODULE MCFailureDomains --------------------------
(***************************************************************************)
(* A port that may get into a forbidden room and is on a feed whose class  *)
(* changes; a link on the same feed.                                       *)
(***************************************************************************)
EXTENDS FailureDomains, TLC

CONSTANTS port, link, room, feed

PortOnly == <<port>>
PortAndLink == <<port, link>>

Structural == [h \in Hop |-> IF h = link THEN 1 ELSE 0]

In(domains, covered) == [domains |-> domains, covered |-> covered]

MCMembership ==
    [h \in Hop |->
        IF h = port
        THEN (0 :> In({feed}, TRUE) @@ 1 :> In({feed, room}, FALSE))
        ELSE (0 :> In({feed}, TRUE))]

\* A domain without a record is of an unknown class.
MCDomainClass ==
    [d \in Domain |-> IF d = feed THEN (0 :> "UNKNOWN" @@ 1 :> "POWER") ELSE (0 :> "SITE")]

MCRules == {NoRules, [named |-> {room, feed}, forbidden |-> {room}, classes |-> {"POWER"}]}
=============================================================================
