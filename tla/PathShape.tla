----------------------------- MODULE PathShape ------------------------------
(***************************************************************************)
(* validate_path_shape() (path.cpp): the paths an evaluation is about at   *)
(* all.  Identities, generations and enumerated fields are well-formed     *)
(* here; what is left is the shape of the sequence of hops.                *)
(***************************************************************************)
EXTENDS Integers, Sequences

CONSTANTS
    Element,     \* structural elements
    Kind         \* their kinds

TerminalKind == {"ENDPOINT", "LOGICAL_HOP", "FABRIC_BOUNDARY", "SITE_BOUNDARY"}

LoopExemptKind == {"TUNNEL", "SITE_BOUNDARY", "FABRIC_BOUNDARY"}

\* Begins or ends where no path does, or passes an endpoint.
EndpointPairing(hops) ==
    \/ Kind[hops[1].ref] \notin TerminalKind
    \/ Kind[hops[Len(hops)].ref] \notin TerminalKind
    \/ \E i \in 2 .. Len(hops) - 1 : Kind[hops[i].ref] = "ENDPOINT"

\* A logical path may be at a tunnel or a boundary again, a physical one at nothing.
AccidentalLoop(type, hops) ==
    \E i, j \in DOMAIN hops :
        /\ i < j
        /\ hops[i].ref = hops[j].ref
        /\ type = "LOGICAL" => Kind[hops[i].ref] \notin LoopExemptKind

\* `bound' is the underlying path's generation, 0 if there is no underlying path.
validate_path_shape(type, hops, bound, max_hops) ==
    IF Len(hops) < 2                          THEN "TOO_FEW_HOPS"
    ELSE IF Len(hops) > max_hops              THEN "TOO_MANY_HOPS"
    ELSE IF EndpointPairing(hops)             THEN "ENDPOINT_PAIRING"
    ELSE IF AccidentalLoop(type, hops)        THEN "ACCIDENTAL_LOOP"
    ELSE IF bound # 0 /\ type # "LOGICAL"     THEN "MALFORMED_ELEMENT"
    ELSE "VALID"
=============================================================================
