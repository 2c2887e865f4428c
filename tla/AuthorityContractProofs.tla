----------------------- MODULE AuthorityContractProofs -----------------------
(***************************************************************************)
(* What follows from the contract alone, for every set of paths, workers   *)
(* and callers: whatever implements it (PathRuntime does) keeps it too.    *)
(***************************************************************************)
EXTENDS AuthorityContract, TLAPS

Expectation == {NoExpectation} \cup (0..MaxGeneration)
Question == Path \X Expectation

LEMMA UndecidedType ==
    ASSUME Worker # {}, MaxGeneration \in Nat \ {0}
    PROVE  Undecided \in Authority
<1>1. (CHOOSE w \in Worker : TRUE) \in Worker
  OBVIOUS
<1>2. QED  BY <1>1 DEF Undecided, Authority, AuthorityState

LEMMA AuthorityFacts ==
    ASSUME TypeOK, NEW p \in Path
    PROVE  /\ authority[p] \in Authority
           /\ authority[p].generation \in 0..MaxGeneration
BY DEF TypeOK, Authority

LEMMA AdvancedType ==
    ASSUME MaxGeneration \in Nat \ {0}, NEW a \in Authority, a.generation # MaxGeneration,
           NEW state \in AuthorityState
    PROVE  LET n == Advanced(a, state) IN
           /\ n \in Authority
           /\ n.generation = a.generation + 1 /\ n.state = state
           /\ n.revoked = a.revoked /\ n.retired = a.retired
<1>1. a.generation + 1 \in 0..MaxGeneration
  BY DEF Authority
<1>2. QED  BY <1>1 DEF Advanced, Authority

LEMMA MarkedProperties ==
    ASSUME MaxGeneration \in Nat \ {0}, TypeOK, NEW p \in Path
    PROVE  \/ Marked(p) = authority[p]
           \/ /\ Marked(p) \in Authority
              /\ Marked(p).generation = authority[p].generation + 1
              /\ Marked(p).state = "REVALIDATION_REQUIRED"
<1>1. authority[p] \in Authority /\ authority[p].generation \in 0..MaxGeneration
  BY AuthorityFacts
<1>2. CASE Exhausted(p) \/ authority[p].state = "REVALIDATION_REQUIRED"
  BY <1>1, <1>2 DEF Marked
<1>3. CASE ~(Exhausted(p) \/ authority[p].state = "REVALIDATION_REQUIRED")
  BY <1>1, <1>3, AdvancedType DEF Marked, Exhausted, AuthorityState
<1>4. QED  BY <1>2, <1>3

\* What each step does to the authority of a path.
LEMMA AuthorityStep ==
    ASSUME MaxGeneration \in Nat \ {0}, TypeOK, [Next]_contract, NEW p \in Path
    PROVE  /\ authority'[p] \in Authority
           /\ authority'[p].generation >= authority[p].generation
           /\ \/ authority'[p].generation > authority[p].generation
              \/ authority'[p] = authority[p]
           /\ authority'[p].state \in AuthorizingState =>
                \/ authority'[p] = authority[p]
                \/ \E t \in Caller : /\ asked[t] # NoQuestion
                                     /\ asked[t][1] = p
                                     /\ asked[t][2] \in {NoExpectation, authority[p].generation}
<1>1. /\ authority[p] \in Authority /\ authority[p].generation \in 0..MaxGeneration
      /\ authority \in [Path -> Authority]
  BY AuthorityFacts DEF TypeOK
<1>2. ASSUME NEW t \in Caller, NEW state \in DecidedState, NEW w \in Worker, Decide(t, state, w)
      PROVE  \/ authority'[p] = authority[p]
             \/ /\ authority'[p] \in Authority
                /\ authority'[p].generation = authority[p].generation + 1
                /\ asked[t] # NoQuestion /\ asked[t][1] = p
                /\ asked[t][2] \in {NoExpectation, authority[p].generation}
  <2> DEFINE q == asked[t][1]
             n == [Advanced(authority[q], state) EXCEPT !.worker = w]
  <2>1. /\ authority' = [authority EXCEPT ![q] = n]
        /\ ~Exhausted(q) /\ asked[t] # NoQuestion
        /\ asked[t][2] \in {NoExpectation, authority[q].generation}
    BY <1>2 DEF Decide
  <2>2. CASE q # p
    BY <1>1, <2>1, <2>2
  <2>3. CASE q = p
    <3>1. state \in AuthorityState
      BY DEF DecidedState, AuthorizingState, AuthorityState
    <3>2. /\ Advanced(authority[p], state) \in Authority
          /\ Advanced(authority[p], state).generation = authority[p].generation + 1
      BY <1>1, <2>1, <2>3, <3>1, AdvancedType DEF Exhausted
    <3>3. n \in Authority /\ n.generation = authority[p].generation + 1
      BY <2>3, <3>2 DEF Authority
    <3>4. authority'[p] = n
      BY <1>1, <2>1, <2>3
    <3> HIDE DEF n
    <3>5. QED  BY <2>1, <2>3, <3>3, <3>4
  <2>4. QED  BY <2>2, <2>3
<1>3. ASSUME NEW paths \in SUBSET Path, Invalidate(paths)
      PROVE  authority'[p] = authority[p] \/ authority'[p] = Marked(p)
  BY <1>3 DEF Invalidate
<1>4. ASSUME NEW q \in Path, Revoke(q) \/ Retire(q)
      PROVE  \/ authority'[p] = authority[p]
             \/ /\ authority'[p] \in Authority
                /\ authority'[p].generation = authority[p].generation + 1
                /\ authority'[p].state \in {"REVOKED", "RETIRED"}
  <2>1. CASE q # p
    BY <1>1, <1>4, <2>1 DEF Revoke, Retire
  <2>2. CASE q = p
    <3>1. authority[p].generation # MaxGeneration
      BY <1>4, <2>2 DEF Revoke, Retire, Exhausted
    <3>2. \A s \in {"REVOKED", "RETIRED"} :
            /\ Advanced(authority[p], s) \in Authority
            /\ Advanced(authority[p], s).generation = authority[p].generation + 1
            /\ Advanced(authority[p], s).state = s
      BY <1>1, <3>1, AdvancedType DEF AuthorityState
    <3>3. \/ authority'[p] = [Advanced(authority[p], "REVOKED") EXCEPT !.revoked = TRUE]
          \/ authority'[p] = [Advanced(authority[p], "RETIRED") EXCEPT !.retired = TRUE]
      BY <1>1, <1>4, <2>2 DEF Revoke, Retire
    <3>4. QED  BY <3>2, <3>3 DEF Authority
  <2>3. QED  BY <2>1, <2>2
<1>5. ASSUME \/ \E t \in Caller : Decline(t)
             \/ \E t \in Caller, q \in Path, e \in Expectation : Ask(t, q, e)
             \/ UNCHANGED contract
      PROVE  authority' = authority
  BY <1>5 DEF Decline, Ask, contract
<1>6. \/ authority'[p] = authority[p]
      \/ /\ authority'[p] \in Authority
         /\ authority'[p].generation = authority[p].generation + 1
         /\ \/ authority'[p].state \in {"REVOKED", "RETIRED", "REVALIDATION_REQUIRED"}
            \/ \E t \in Caller : /\ asked[t] # NoQuestion
                                 /\ asked[t][1] = p
                                 /\ asked[t][2] \in {NoExpectation, authority[p].generation}
  <2>1. CASE \E t \in Caller, state \in DecidedState, w \in Worker : Decide(t, state, w)
    BY <1>2, <2>1
  <2>2. CASE \E paths \in SUBSET Path : Invalidate(paths)
    BY <1>3, <2>2, MarkedProperties
  <2>3. CASE \E q \in Path : Revoke(q) \/ Retire(q)
    BY <1>4, <2>3
  <2>4. QED  BY <1>5, <2>1, <2>2, <2>3 DEF Next, Expectation
<1>7. QED  BY <1>1, <1>6 DEF AuthorizingState

\* What each step does to the question of a caller.
LEMMA QuestionStep ==
    ASSUME TypeOK, [Next]_contract, NEW t \in Caller
    PROVE  \/ asked'[t] = asked[t]
           \/ asked'[t] = NoQuestion
           \/ \E p \in Path, e \in Expectation :
                 /\ asked'[t] = <<p, e>> /\ ~Withdrawn(p)
                 /\ e \in {NoExpectation} \cup (0..authority[p].generation)
                 /\ UNCHANGED authority
BY DEF Next, Ask, Decide, Decline, Invalidate, Revoke, Retire, contract, TypeOK, Expectation

LEMMA StepType ==
    ASSUME MaxGeneration \in Nat \ {0}, TypeOK, [Next]_contract
    PROVE  TypeOK'
<1>1. authority' = [p \in Path |-> authority'[p]]
  BY DEF Next, Ask, Decide, Decline, Invalidate, Revoke, Retire, contract, TypeOK
<1>2. authority' \in [Path -> Authority]
  BY <1>1, AuthorityStep
<1>3. asked' = [t \in Caller |-> asked'[t]]
  BY DEF Next, Ask, Decide, Decline, Invalidate, Revoke, Retire, contract, TypeOK
<1>4. ASSUME NEW t \in Caller PROVE asked'[t] \in {NoQuestion} \cup Question
  <2>1. asked[t] \in {NoQuestion} \cup Question
    BY DEF TypeOK, Question, Expectation
  <2>2. QED  BY <2>1, QuestionStep DEF Question
<1>5. QED  BY <1>2, <1>3, <1>4 DEF TypeOK, Question, Expectation

\* The contract's variables keep their types, the generations their bound.
THEOREM ContractTypeCorrect ==
    ASSUME Worker # {}, MaxGeneration \in Nat \ {0}
    PROVE  Spec => []TypeOK
<1>1. Init => TypeOK
  BY UndecidedType DEF Init, TypeOK
<1>2. TypeOK /\ [Next]_contract => TypeOK'
  BY StepType
<1>3. QED  BY <1>1, <1>2, PTL DEF Spec

\* A caller that named a generation is behind every withdrawal: what it asked for is
\* never decided.
THEOREM ExpectationAlwaysWithheld ==
    ASSUME Worker # {}, MaxGeneration \in Nat \ {0}
    PROVE  Spec => []ExpectationWithheld
<1>1. Init => ExpectationWithheld
  BY DEF Init, ExpectationWithheld
<1>2. TypeOK /\ ExpectationWithheld /\ [Next]_contract => ExpectationWithheld'
  <2> SUFFICES ASSUME TypeOK, ExpectationWithheld, [Next]_contract,
                      NEW t \in Caller, asked'[t] # NoQuestion, asked'[t][2] # NoExpectation
               PROVE  LET a == authority'[asked'[t][1]] IN
                      /\ asked'[t][2] <= a.generation
                      /\ a.revoked \/ a.retired => asked'[t][2] # a.generation
    BY DEF ExpectationWithheld, Withdrawn
  <2>1. CASE asked'[t] = asked[t]
    <3>1. PICK p \in Path, e \in Expectation : asked[t] = <<p, e>>
      BY <2>1 DEF TypeOK, Expectation
    <3>2. asked[t][1] = p /\ asked[t][2] = e /\ e # NoExpectation
      BY <2>1, <3>1
    <3>3. /\ e \in 0..MaxGeneration /\ e <= authority[p].generation
          /\ Withdrawn(p) => e # authority[p].generation
      BY <2>1, <3>2 DEF ExpectationWithheld, Expectation
    <3>4. /\ authority[p].generation \in Nat /\ authority'[p].generation \in Nat
          /\ \/ authority'[p].generation > authority[p].generation
             \/ authority'[p] = authority[p]
      <4>1. authority[p].generation \in 0..MaxGeneration
        BY AuthorityFacts
      <4>2. authority'[p].generation \in 0..MaxGeneration
        BY AuthorityStep DEF Authority
      <4>3. QED  BY <4>1, <4>2, AuthorityStep
    <3>5. QED  BY <2>1, <3>1, <3>2, <3>3, <3>4 DEF Withdrawn
  <2>2. CASE \E p \in Path, e \in Expectation :
                 /\ asked'[t] = <<p, e>> /\ ~Withdrawn(p)
                 /\ e \in {NoExpectation} \cup (0..authority[p].generation)
                 /\ UNCHANGED authority
    BY <2>2 DEF Withdrawn
  <2>3. QED  BY <2>1, <2>2, QuestionStep
<1>3. QED  BY <1>1, <1>2, ContractTypeCorrect, PTL DEF Spec

\* Only a caller that asked before the withdrawal and named no generation gives a
\* revoked or retired path authority again.
THEOREM OnlyBlindCallsEverRevive ==
    ASSUME Worker # {}, MaxGeneration \in Nat \ {0}
    PROVE  Spec => OnlyBlindCallsRevive
<1>1. TypeOK /\ ExpectationWithheld /\ [Next]_contract =>
        [\A p \in Path :
          /\ Withdrawn(p)
          /\ authority'[p].state \in AuthorizingState
          /\ authority'[p] # authority[p]
          => \E t \in Caller : asked[t] = <<p, NoExpectation>>]_contract
  <2> SUFFICES ASSUME TypeOK, ExpectationWithheld, [Next]_contract, NEW p \in Path, Withdrawn(p),
                      authority'[p].state \in AuthorizingState, authority'[p] # authority[p]
               PROVE  \E t \in Caller : asked[t] = <<p, NoExpectation>>
    OBVIOUS
  <2>1. PICK t \in Caller : /\ asked[t] # NoQuestion /\ asked[t][1] = p
                            /\ asked[t][2] \in {NoExpectation, authority[p].generation}
    BY AuthorityStep
  <2>2. asked[t] = <<p, asked[t][2]>>
    BY <2>1 DEF TypeOK
  <2>3. asked[t][2] = NoExpectation
    BY <2>1 DEF ExpectationWithheld
  <2>4. QED  BY <2>2, <2>3
<1>2. QED  BY <1>1, ContractTypeCorrect, ExpectationAlwaysWithheld, PTL
              DEF Spec, OnlyBlindCallsRevive
=============================================================================
