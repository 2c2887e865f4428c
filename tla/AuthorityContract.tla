-------------------------- MODULE AuthorityContract --------------------------
(***************************************************************************)
(* What PathAuthorityRuntime (runtime.hpp) promises its callers about the  *)
(* authority of paths, whatever the evidence says: decisions are asked for *)
(* by many callers at once and each takes effect at one moment, as the     *)
(* path's next generation; withdrawals take effect at once; a caller that  *)
(* names the generation it expects never decides over anything else.       *)
(*                                                                         *)
(* PathRuntime implements it, with evidence, watermarks and the index; the *)
(* Coordinator is built on it.                                             *)
(***************************************************************************)
EXTENDS AuthorityTypes, Integers

CONSTANTS
    Path,
    Worker,         \* a publisher id with a worker boot id
    Caller,         \* the threads that ask for decisions
    MaxGeneration   \* the last authority generation (2^64 - 1 in the code)

VARIABLES
    authority,      \* the authority of each path; generation 0: never decided
    asked           \* the decision each caller is about to make

contract == <<authority, asked>>

NoExpectation == -1
NoQuestion == <<>>

\* The states a decision can have, by the outcomes evaluation ends with.
DecidedState == AuthorizingState \cup {"REJECTED"}

Undecided ==
    [generation |-> 0, state |-> "UNKNOWN", revoked |-> FALSE, retired |-> FALSE,
     worker |-> CHOOSE w \in Worker : TRUE]

Decided(p) == authority[p].generation # 0
Withdrawn(p) == authority[p].revoked \/ authority[p].retired

Exhausted(p) == authority[p].generation = MaxGeneration

\* The path enters its next generation in this state.
Advanced(a, state) == [a EXCEPT !.generation = @ + 1, !.state = state]

-----------------------------------------------------------------------------
\* A caller is told nothing stands against a decision: the path is neither revoked
\* nor retired at this moment.  It may expect a generation the path has had.
Ask(t, p, expected) ==
    /\ asked[t] = NoQuestion
    /\ ~Withdrawn(p)
    /\ expected \in {NoExpectation} \cup (0..authority[p].generation)
    /\ asked' = [asked EXCEPT ![t] = <<p, expected>>]
    /\ UNCHANGED authority

\* The decision takes effect: the commit.
Decide(t, state, w) ==
    /\ asked[t] # NoQuestion
    /\ LET p == asked[t][1] IN
       /\ asked[t][2] \in {NoExpectation, authority[p].generation}
       /\ ~Exhausted(p)
       /\ authority' = [authority EXCEPT ![p] = [Advanced(@, state) EXCEPT !.worker = w]]
    /\ asked' = [asked EXCEPT ![t] = NoQuestion]

\* The decision is refused, or already stands.
Decline(t) ==
    /\ asked[t] # NoQuestion
    /\ asked' = [asked EXCEPT ![t] = NoQuestion]
    /\ UNCHANGED authority

\* Evidence moved, or a worker is lost: these paths must be decided again.  A path
\* whose generations are used up stays as it is.
Marked(p) ==
    IF Exhausted(p) \/ authority[p].state = "REVALIDATION_REQUIRED"
    THEN authority[p]
    ELSE Advanced(authority[p], "REVALIDATION_REQUIRED")

Invalidate(paths) ==
    /\ \A p \in paths : Decided(p)
    /\ authority' = [p \in Path |-> IF p \in paths THEN Marked(p) ELSE authority[p]]
    /\ UNCHANGED asked

Revoke(p) ==
    /\ Decided(p) /\ ~Exhausted(p)
    /\ authority' = [authority EXCEPT ![p] = [Advanced(@, "REVOKED") EXCEPT !.revoked = TRUE]]
    /\ UNCHANGED asked

Retire(p) ==
    /\ Decided(p) /\ ~Exhausted(p) /\ ~authority[p].retired
    /\ authority' = [authority EXCEPT ![p] = [Advanced(@, "RETIRED") EXCEPT !.retired = TRUE]]
    /\ UNCHANGED asked

-----------------------------------------------------------------------------
Init ==
    /\ authority = [p \in Path |-> Undecided]
    /\ asked = [t \in Caller |-> NoQuestion]

Next ==
    \/ \E t \in Caller, p \in Path, expected \in {NoExpectation} \cup (0..MaxGeneration) :
          Ask(t, p, expected)
    \/ \E t \in Caller, state \in DecidedState, w \in Worker : Decide(t, state, w)
    \/ \E t \in Caller : Decline(t)
    \/ \E paths \in SUBSET Path : Invalidate(paths)
    \/ \E p \in Path : Revoke(p) \/ Retire(p)

Spec == Init /\ [][Next]_contract

-----------------------------------------------------------------------------
Authority == [generation : 0..MaxGeneration, state : AuthorityState, revoked : BOOLEAN,
              retired : BOOLEAN, worker : Worker]

\* The type invariant.
TypeOK ==
    /\ authority \in [Path -> Authority]
    /\ asked \in [Caller -> {NoQuestion} \cup
                               (Path \X ({NoExpectation} \cup (0..MaxGeneration)))]

\* A caller that named a generation is behind the withdrawal: what it asked for can no
\* longer be decided.
ExpectationWithheld ==
    \A t \in Caller :
        asked[t] # NoQuestion /\ asked[t][2] # NoExpectation =>
            /\ asked[t][2] <= authority[asked[t][1]].generation
            /\ Withdrawn(asked[t][1]) => asked[t][2] # authority[asked[t][1]].generation

\* A revoked or retired path gets authority back only from a caller that asked before
\* the withdrawal and named no generation.
OnlyBlindCallsRevive ==
    [][\A p \in Path :
          /\ Withdrawn(p)
          /\ authority'[p].state \in AuthorizingState
          /\ authority'[p] # authority[p]
          => \E t \in Caller : asked[t] = <<p, NoExpectation>>]_contract
=============================================================================
