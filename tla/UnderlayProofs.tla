---------------------------- MODULE UnderlayProofs ----------------------------
(***************************************************************************)
(* An announced underlay reaches what rests on it, for any paths,          *)
(* definitions, threads and bounds.                                        *)
(***************************************************************************)
EXTENDS Underlay, TLAPS, FiniteSetTheorems

\* Of a set of numbers with a bound, one is the least: the subset ordering of the
\* intervals that lead to them is well founded.
LEMMA LeastExists ==
    ASSUME NEW bound \in Nat, NEW S \in SUBSET (0..bound), S # {}
    PROVE  \E n \in S : \A m \in S : n <= m
<1> DEFINE Upto(n) == 0..n
           T == {Upto(n) : n \in S}
           Less == StrictSubsetOrdering(0..bound)
<1>1. ASSUME NEW n \in S PROVE n \in Nat /\ Upto(n) \in SUBSET (0..bound)
  <2>1. n \in Nat /\ n <= bound
    OBVIOUS
  <2>2. ASSUME NEW m \in 0..n PROVE m \in 0..bound
    BY <2>1
  <2>3. QED  BY <2>1, <2>2
<1>2. T \subseteq SUBSET (0..bound) /\ T # {}
  BY <1>1
<1>3. IsWellFoundedOn(Less, SUBSET (0..bound))
  <2>1. IsFiniteSet(0..bound)
    BY FS_Interval
  <2>2. FiniteSubsetsOf(0..bound) = SUBSET (0..bound)
    BY <2>1, FS_FiniteSubsetsOfFinite
  <2>3. IsWellFoundedOn(Less, FiniteSubsetsOf(0..bound))
    BY FS_StrictSubsetOrderingWellFounded
  <2>4. QED  BY <2>2, <2>3
<1>4. PICK x \in T : \A y \in T : ~(<<y, x>> \in Less)
  <2> HIDE DEF T, Less
  <2>1. QED  BY <1>2, <1>3, WFMin
<1>5. PICK n \in S : x = Upto(n)
  BY <1>4
<1>6. \A m \in S : n <= m
  <2> SUFFICES ASSUME NEW m \in S, m < n PROVE FALSE
    BY <1>1
  <2>1. Upto(m) \in T /\ Upto(m) \in SUBSET (0..bound) /\ Upto(n) \in SUBSET (0..bound)
    BY <1>1
  <2>2. Upto(m) \subseteq Upto(n) /\ n \in Upto(n) /\ n \notin Upto(m)
    BY <1>1
  <2>3. <<Upto(m), Upto(n)>> \in Less
    <3> HIDE DEF Upto
    <3>1. QED  BY <2>1, <2>2 DEF StrictSubsetOrdering
  <2>4. QED  BY <1>4, <1>5, <2>1, <2>3
<1>7. QED  BY <1>6

LEMMA GreatestExists ==
    ASSUME NEW bound \in Nat, NEW S \in SUBSET (1..bound), S # {}
    PROVE  \E n \in S : \A m \in S : m <= n
<1> DEFINE T == {m \in 0..bound : \E n \in S : m = bound - n}
<1>1. ASSUME NEW n \in S PROVE n \in 1..bound /\ bound - n \in T
  <2>1. n \in 1..bound /\ bound - n \in 0..bound
    OBVIOUS
  <2>2. QED  BY <2>1
<1>2. T \in SUBSET (0..bound) /\ T # {}
  BY <1>1
<1>3. PICK x \in T : \A y \in T : x <= y
  <2> HIDE DEF T
  <2>1. QED  BY <1>2, LeastExists
<1>4. PICK n \in S : x = bound - n
  BY <1>3
<1>5. ASSUME NEW m \in S PROVE m <= n
  <2>1. m \in 1..bound /\ n \in 1..bound
    BY <1>1
  <2>2. bound - n <= bound - m
    BY <1>1, <1>3, <1>4
  <2>3. QED  BY <2>1, <2>2
<1>6. QED  BY <1>5

-----------------------------------------------------------------------------
(* The chain below a definition.                                           *)

Chain(d, f, k) == f = [n \in 1..k |-> IF n = 1 THEN d.under ELSE Link(f[n - 1])]

LEMMA ChainExtends ==
    ASSUME NEW d, NEW f, NEW k \in Nat, k >= 1, Chain(d, f, k - 1)
    PROVE  \E g : Chain(d, g, k)
<1> DEFINE g == [n \in 1..k |-> IF n = 1 THEN d.under ELSE Link(f[n - 1])]
<1>1. ASSUME NEW n \in 1..k, n # 1 PROVE g[n - 1] = f[n - 1]
  <2>1. n - 1 \in 1..(k - 1) /\ n - 1 \in 1..k
    <3>1. n \in Int /\ 1 <= n /\ n <= k
      OBVIOUS
    <3>2. QED  BY <1>1, <3>1
  <2>2. f[n - 1] = IF n - 1 = 1 THEN d.under ELSE Link(f[(n - 1) - 1])
    BY <2>1 DEF Chain
  <2>3. g[n - 1] = IF n - 1 = 1 THEN d.under ELSE Link(f[(n - 1) - 1])
    BY <2>1
  <2>4. QED  BY <2>2, <2>3
<1>2. g = [n \in 1..k |-> IF n = 1 THEN d.under ELSE Link(g[n - 1])]
  <2>1. ASSUME NEW n \in 1..k
        PROVE  (IF n = 1 THEN d.under ELSE Link(f[n - 1]))
                 = (IF n = 1 THEN d.under ELSE Link(g[n - 1]))
    <3> HIDE DEF g
    <3>1. QED  BY <1>1
  <2>2. QED  BY <2>1
<1>3. QED  BY <1>2 DEF Chain

LEMMA ChainExists ==
    ASSUME NEW d, NEW bound \in Nat
    PROVE  \E f : Chain(d, f, bound)
<1> DEFINE None == {k \in 0..bound : ~ \E f : Chain(d, f, k)}
<1>1. SUFFICES ASSUME None # {} PROVE FALSE
  OBVIOUS
<1>2. PICK k \in None : \A m \in None : k <= m
  <2>1. None \in SUBSET (0..bound)
    OBVIOUS
  <2>2. QED  BY <1>1, <2>1, LeastExists
<1>3. k # 0
  <2>1. Chain(d, [n \in 1..0 |-> n], 0)
    BY DEF Chain
  <2>2. QED  BY <2>1
<1>4. \E f : Chain(d, f, k - 1)
  BY <1>2, <1>3
<1>5. QED  BY <1>3, <1>4, ChainExtends

LEMMA BelowIsChain ==
    ASSUME NEW d
    PROVE  \A n \in 1..MaxNesting + 1 :
               Below(d)[n] = IF n = 1 THEN d.under ELSE Link(Below(d)[n - 1])
<1>1. MaxNesting + 1 \in Nat
  BY UnderlayAssumption
<1>2. \E f : f = [n \in 1..MaxNesting + 1 |-> IF n = 1 THEN d.under ELSE Link(f[n - 1])]
  BY <1>1, ChainExists, ZenonT(60) DEF Chain
<1>3. Below(d) = [n \in 1..MaxNesting + 1 |->
                     IF n = 1 THEN d.under ELSE Link(Below(d)[n - 1])]
  BY <1>2 DEF Below
<1>4. QED  BY <1>3

\* The deepest record is the record of a path the chain has been at.
LEMMA DeepestIsReached ==
    ASSUME NEW d, Reached(d) # {}
    PROVE  \E n \in Reached(d) :
              /\ Below(d)[n] \in Path /\ Present(Below(d)[n])
              /\ Deepest(d) = records[Below(d)[n]]
<1> DEFINE last == CHOOSE n \in Reached(d) : \A m \in Reached(d) : m <= n
<1>1. Reached(d) \in SUBSET (1..MaxNesting) /\ MaxNesting \in Nat
  BY UnderlayAssumption DEF Reached
<1>2. \E n \in Reached(d) : \A m \in Reached(d) : m <= n
  BY <1>1, GreatestExists
<1>3. last \in Reached(d)
  BY <1>2
<1>4. Deepest(d) = records[Below(d)[last]]
  BY DEF Deepest
<1> HIDE DEF last
<1>5. QED  BY <1>3, <1>4 DEF Reached

\* Below a path without an underlay there is nothing.
LEMMA ChainEnds ==
    ASSUME NEW d, Below(d)[2] = NoPath
    PROVE  \A n \in 2..MaxNesting + 1 : Below(d)[n] = NoPath
<1> DEFINE Some == {n \in 2..MaxNesting + 1 : Below(d)[n] # NoPath}
<1>1. SUFFICES ASSUME Some # {} PROVE FALSE
  OBVIOUS
<1>2. MaxNesting + 1 \in Nat
  BY UnderlayAssumption
<1>3. PICK k \in Some : \A m \in Some : k <= m
  <2>1. Some \in SUBSET (0..(MaxNesting + 1))
    BY <1>2
  <2> HIDE DEF Some
  <2>2. QED  BY <1>1, <1>2, <2>1, LeastExists
<1>4. k \in 3..MaxNesting + 1 /\ k - 1 \in 2..MaxNesting + 1
  BY <1>2, <1>3
<1>5. Below(d)[k - 1] = NoPath
  BY <1>2, <1>3, <1>4
<1>6. Below(d)[k] = Link(Below(d)[k - 1])
  BY <1>2, <1>4, BelowIsChain
<1>7. QED  BY <1>3, <1>5, <1>6 DEF Link

-----------------------------------------------------------------------------
(* Types.                                                                  *)

LEMMA TypeFacts ==
    ASSUME TypeOK
    PROVE  /\ \A p \in Path : /\ records[p] \in Record
                              /\ records[p].generation \in Generation
                              /\ records[p].definition \in Definition
                              /\ records[p].evidence \in EvidenceVector
                              /\ records[p].evidence.under \in Generation
                              /\ watermarks[p] \in Generation
           /\ \A t \in Thread : /\ op[t] \in Call
                                /\ op[t].definition \in Definition
                                /\ op[t].evidence \in EvidenceVector
                                /\ op[t].evidence.under \in Generation
BY DEF TypeOK, Record, Call, EvidenceVector

LEMMA DefinitionFacts ==
    ASSUME NEW d \in Definition
    PROVE  /\ d.path \in Path /\ d.under \in Path \cup {NoPath} /\ d.bound \in Generation
           /\ d.under # NoPath => d.bound # 0
BY UnderlayAssumption

LEMMA DecisionType ==
    ASSUME TypeOK, NEW t \in Thread, can_advance(op[t].definition.path)
    PROVE  LET p == op[t].definition.path IN
           /\ p \in Path
           /\ Decision(t) \in Record
           /\ Decision(t).generation = records[p].generation + 1
           /\ Decision(t).generation \in Generation
           /\ Decision(t).definition = op[t].definition
           /\ Decision(t).evidence = op[t].evidence
           /\ is_authorizing_outcome(Decision(t).outcome) => op[t].stands
<1> DEFINE p == op[t].definition.path
<1>1. p \in Path
  BY TypeFacts, DefinitionFacts
<1>2. records[p].generation \in Generation /\ records[p].revoked \in BOOLEAN
  BY <1>1, TypeFacts DEF Record
<1>3. records[p].generation + 1 \in Generation
  <2>1. MaxGeneration \in Nat
    BY UnderlayAssumption
  <2>2. records[p].generation # MaxGeneration
    BY DEF can_advance
  <2>3. QED  BY <1>2, <2>1, <2>2 DEF Generation
<1>4. Decision(t).outcome \in EvaluationOutcome
  BY DEF Decision, EvaluationOutcome
<1>5. /\ Decision(t) = [generation |-> records[p].generation + 1,
                       definition |-> op[t].definition, outcome |-> Decision(t).outcome,
                       evidence |-> op[t].evidence, revoked |-> records[p].revoked]
      /\ ~op[t].stands => Decision(t).outcome = "REVALIDATION_REQUIRED"
  BY DEF Decision
<1>6. op[t].definition \in Definition /\ op[t].evidence \in EvidenceVector
  BY TypeFacts
<1>7. Decision(t) \in Record
  BY <1>2, <1>3, <1>4, <1>5, <1>6 DEF Record
<1>8. QED  BY <1>1, <1>3, <1>5, <1>7 DEF is_authorizing_outcome

LEMMA InitialTypes ==
    Idle \in Call /\ Absent \in Record /\ 0 \in Generation
<1>1. NoDefinition \in Definition
  BY UnderlayAssumption DEF NoDefinition
<1>2. 0 \in Generation /\ 0 \in Nat
  BY UnderlayAssumption DEF Generation
<1>3. NoEvidence \in EvidenceVector
  BY <1>2 DEF NoEvidence, EvidenceVector
<1>4. Absent \in Record
  BY <1>1, <1>2, <1>3 DEF Absent, Record, EvaluationOutcome
<1>5. QED  BY <1>1, <1>2, <1>3, <1>4 DEF Idle, Call

LEMMA InitType == Init => TypeOK
BY InitialTypes DEF Init, TypeOK

-----------------------------------------------------------------------------
(* What a step does to a record: nothing, withdraw it, or store a decision.*)

Withdraws(p) ==
    /\ records'[p] \in Record
    /\ records'[p].generation = records[p].generation + 1
    /\ records'[p].definition = records[p].definition
    /\ records'[p].evidence = records[p].evidence
    /\ ~is_authorizing_outcome(records'[p].outcome)
    /\ Present(p)

Stores(p, t) ==
    /\ Commit(t) /\ op[t].definition.path = p
    /\ records'[p] = Decision(t)

LEMMA GenerationAdvances ==
    ASSUME TypeOK, NEW p \in Path, can_advance(p)
    PROVE  records[p].generation + 1 \in Generation
<1>1. MaxGeneration \in Nat
  BY UnderlayAssumption
<1>2. records[p].generation # MaxGeneration
  BY DEF can_advance
<1>3. records[p].generation \in Generation
  BY TypeFacts
<1>4. QED  BY <1>1, <1>2, <1>3 DEF Generation

LEMMA RevokeStep ==
    ASSUME TypeOK, NEW q \in Path, Revoke(q), NEW p \in Path
    PROVE  records'[p] = records[p] \/ Withdraws(p)
<1>1. records \in [Path -> Record] /\ records[p] \in Record
  BY TypeFacts DEF TypeOK
<1>2. CASE p # q
  BY <1>1, <1>2 DEF Revoke
<1>3. CASE p = q
  <2>1. records[p].generation + 1 \in Generation
    BY <1>3, GenerationAdvances DEF Revoke
  <2>2. records'[p] = [generation |-> records[p].generation + 1,
                       definition |-> records[p].definition, outcome |-> "REVOKED",
                       evidence |-> records[p].evidence, revoked |-> TRUE]
    BY <1>1, <1>3 DEF Revoke, Record
  <2>3. "REVOKED" \in EvaluationOutcome
    BY DEF EvaluationOutcome
  <2>4. records'[p] \in Record
    BY <1>1, <2>1, <2>2, <2>3 DEF Record
  <2>5. QED
    BY <1>3, <2>2, <2>4 DEF Withdraws, is_authorizing_outcome, Revoke
<1>4. QED  BY <1>2, <1>3

LEMMA InvalidateStep ==
    ASSUME TypeOK, NEW u \in Path, NEW g \in Generation, InvalidateUnderlying(u, g),
           NEW p \in Path, p \in underlying_index[u] => Present(p)
    PROVE  \/ records'[p] = records[p]
           \/ Withdraws(p)
<1>1. records \in [Path -> Record] /\ records[p] \in Record
  BY TypeFacts DEF TypeOK
<1> DEFINE marked == /\ p \in underlying_index[u] /\ can_advance(p)
                     /\ records[p].evidence.under # g
                     /\ records[p].outcome # "REVALIDATION_REQUIRED"
<1>2. records'[p] = IF marked
                    THEN [records[p] EXCEPT !.generation = @ + 1,
                                            !.outcome = "REVALIDATION_REQUIRED"]
                    ELSE records[p]
  BY DEF InvalidateUnderlying
<1>3. CASE ~marked
  BY <1>2, <1>3
<1>4. CASE marked
  <2>1. records[p].generation + 1 \in Generation
    BY <1>4, GenerationAdvances
  <2>2. records'[p] = [generation |-> records[p].generation + 1,
                       definition |-> records[p].definition,
                       outcome |-> "REVALIDATION_REQUIRED",
                       evidence |-> records[p].evidence, revoked |-> records[p].revoked]
    BY <1>1, <1>2, <1>4 DEF Record
  <2>3. "REVALIDATION_REQUIRED" \in EvaluationOutcome
    BY DEF EvaluationOutcome
  <2>4. records'[p] \in Record
    BY <1>1, <2>1, <2>2, <2>3 DEF Record
  <2>5. QED  BY <1>4, <2>2, <2>4 DEF Withdraws, is_authorizing_outcome
<1>5. QED  BY <1>3, <1>4

LEMMA CommitStep ==
    ASSUME TypeOK, NEW t \in Thread, Commit(t), NEW p \in Path
    PROVE  records'[p] = records[p] \/ Stores(p, t)
<1>1. records \in [Path -> Record]
  BY DEF TypeOK
<1>2. records' = [records EXCEPT ![op[t].definition.path] = Decision(t)]
  BY DEF Commit
<1>3. QED  BY <1>1, <1>2 DEF Stores

-----------------------------------------------------------------------------
(* What a step does to a call.                                             *)

LEMMA GotoCall ==
    ASSUME TypeOK, NEW t \in Thread, NEW fields, Goto(t, fields)
    PROVE  /\ \A s \in Thread : s # t => op'[s] = op[s]
           /\ op'[t] = [pc |-> IF "pc" \in DOMAIN fields THEN fields["pc"] ELSE op[t].pc,
                        definition |-> IF "definition" \in DOMAIN fields
                                       THEN fields["definition"] ELSE op[t].definition,
                        evidence |-> IF "evidence" \in DOMAIN fields
                                     THEN fields["evidence"] ELSE op[t].evidence,
                        stands |-> IF "stands" \in DOMAIN fields
                                   THEN fields["stands"] ELSE op[t].stands]
           /\ op' = [s \in Thread |-> op'[s]]
<1>1. op \in [Thread -> Call]
  BY DEF TypeOK
<1>2. DOMAIN Idle = {"pc", "definition", "evidence", "stands"}
  BY DEF Idle
<1>3. op'[t] = [f \in DOMAIN Idle |-> IF f \in DOMAIN fields THEN fields[f] ELSE op[t][f]]
  BY <1>1 DEF Goto
<1>4. QED  BY <1>1, <1>2, <1>3 DEF Goto

LEMMA BeginCall ==
    ASSUME TypeOK, NEW t \in Thread, NEW d \in Definition, Begin(t, d)
    PROVE  /\ \A s \in Thread : s # t => op'[s] = op[s]
           /\ op'[t] \in Call /\ op'[t].pc = "underlay"
           /\ op' = [s \in Thread |-> op'[s]]
<1>1. op[t] \in Call
  BY TypeFacts
<1>2. op'[t] = [pc |-> "underlay", definition |-> d, evidence |-> op[t].evidence,
                stands |-> op[t].stands]
  BY GotoCall DEF Begin
<1>3. QED  BY <1>1, <1>2, GotoCall DEF Begin, Call

LEMMA ReadOwnCall ==
    ASSUME TypeOK, NEW t \in Thread, ReadOwn(t)
    PROVE  /\ \A s \in Thread : s # t => op'[s] = op[s]
           /\ op'[t] \in Call
           /\ op'[t].definition = op[t].definition /\ op'[t].stands = op[t].stands
           /\ op'[t].evidence.under = op[t].evidence.under
           /\ op[t].pc = "own"
           /\ op' = [s \in Thread |-> op'[s]]
<1>1. op[t] \in Call /\ op[t].evidence \in EvidenceVector /\ op[t].definition.path \in Path
  BY TypeFacts, DefinitionFacts
<1> DEFINE e == [op[t].evidence EXCEPT !.own = sources[op[t].definition.path]]
<1>2. e \in EvidenceVector /\ e.under = op[t].evidence.under
  BY <1>1 DEF EvidenceVector, TypeOK
<1>3. Goto(t, [pc |-> "commit", evidence |-> e])
  BY DEF ReadOwn
<1> HIDE DEF e
<1>4. op'[t] = [pc |-> "commit", definition |-> op[t].definition, evidence |-> e,
                stands |-> op[t].stands]
  BY <1>3, GotoCall
<1>5. QED  BY <1>1, <1>2, <1>3, <1>4, GotoCall DEF ReadOwn, Call

LEMMA ReturnCall ==
    ASSUME TypeOK, NEW t \in Thread, Return(t)
    PROVE  /\ \A s \in Thread : s # t => op'[s] = op[s]
           /\ op'[t] \in Call /\ op'[t].pc = "idle"
           /\ op' = [s \in Thread |-> op'[s]]
<1>1. op' = [op EXCEPT ![t] = Idle] /\ op \in [Thread -> Call]
  BY DEF Return, TypeOK
<1>2. QED  BY <1>1, InitialTypes DEF Idle

\* The chain that was read is in the call: when it stands, its deepest record does.
LEMMA ResolveCall ==
    ASSUME TypeOK, NEW t \in Thread, ResolveUnderlying(t)
    PROVE  LET d == op[t].definition IN
           /\ \A s \in Thread : s # t => op'[s] = op[s]
           /\ op'[t] \in Call
           /\ op' = [s \in Thread |-> op'[s]]
           /\ op'[t].pc # "idle" =>
                /\ ~Cyclic(d) /\ op'[t].definition = d
                /\ op'[t].stands = Stands(d)
                /\ Reached(d) # {} => op'[t].evidence.under = Deepest(d).generation
<1> DEFINE d == op[t].definition
           under == IF Reached(d) = {} THEN 0 ELSE Deepest(d).generation
<1>1. CASE Cyclic(d) /\ Return(t)
  BY <1>1, ReturnCall
<1>2. CASE ~Cyclic(d) /\ Goto(t, [pc |-> "own", stands |-> Stands(d),
                                  evidence |-> [own |-> 0, under |-> under]])
  <2>1. under \in Generation
    <3>1. 0 \in Generation
      BY UnderlayAssumption DEF Generation
    <3>2. CASE Reached(d) # {}
      BY <3>2, DeepestIsReached, TypeFacts
    <3>3. QED  BY <3>1, <3>2
  <2>2. [own |-> 0, under |-> under] \in EvidenceVector
    BY <2>1 DEF EvidenceVector
  <2>3. op[t] \in Call
    BY TypeFacts
  <2>4. Stands(d) \in BOOLEAN
    BY DEF Stands, is_authorizing_outcome
  <2> HIDE DEF under
  <2>5. op'[t] = [pc |-> "own", definition |-> d, evidence |-> [own |-> 0, under |-> under],
                  stands |-> Stands(d)]
    BY <1>2, GotoCall
  <2>6. op'[t] \in Call
    BY <2>2, <2>3, <2>4, <2>5 DEF Call
  <2>7. op'[t].evidence.under = under
    BY <2>5
  <2>8. QED  BY <1>2, <2>5, <2>6, <2>7, GotoCall DEF under
<1>3. QED  BY <1>1, <1>2 DEF ResolveUnderlying

-----------------------------------------------------------------------------
(* The invariant.                                                          *)

\* Only paths with a record are in the index, each record under its own path's name.
IndexedIsPresent == \A u, p \in Path : p \in underlying_index[u] => Present(p)

RecordNamesPath == \A p \in Path : Present(p) => records[p].definition.path = p

\* What rests on a path can be found under it.
IndexCovers ==
    \A p \in Path :
        Live(p) /\ can_advance(p) /\ Under(p) # NoPath => p \in underlying_index[Under(p)]

\* A definition stands over this generation of its chain.
StandsOver(generation, d) ==
    d.under # NoPath =>
        /\ generation = d.bound
        /\ Flat(d) =>
              /\ generation <= records[d.under].generation
              /\ generation = records[d.under].generation => Live(d.under)

CallsStand ==
    \A t \in Thread :
        op[t].pc \in {"own", "commit"} /\ op[t].stands =>
            StandsOver(op[t].evidence.under, op[t].definition)

LiveStands ==
    \A p \in Path : Live(p) => StandsOver(records[p].evidence.under, records[p].definition)

RecordInv == TypeOK /\ IndexedIsPresent /\ RecordNamesPath

UnderlayInv == RecordInv /\ IndexCovers /\ CallsStand /\ LiveStands /\ OverlayAboveWatermark

LEMMA RecordStep ==
    ASSUME RecordInv, [Next]_vars, NEW p \in Path
    PROVE  records'[p] = records[p] \/ Withdraws(p) \/ \E t \in Thread : Stores(p, t)
<1>1. CASE \E t \in Thread : Commit(t)
  BY <1>1, CommitStep DEF RecordInv
<1>2. CASE \E q \in Path : Revoke(q)
  BY <1>2, RevokeStep DEF RecordInv
<1>3. CASE \E u \in Path, g \in Generation : InvalidateUnderlying(u, g)
  BY <1>3, InvalidateStep DEF RecordInv, IndexedIsPresent
<1>4. CASE \/ \E t \in Thread : \/ ResolveUnderlying(t) \/ ReadOwn(t) \/ Decline(t)
                                \/ \E d \in Definition : Begin(t, d)
           \/ \E q \in Path : SourceChange(q)
           \/ UNCHANGED vars
  BY <1>4 DEF ResolveUnderlying, ReadOwn, Decline, Begin, SourceChange, vars
<1>5. QED  BY <1>1, <1>2, <1>3, <1>4 DEF Next, Proceed

LEMMA StoresFacts ==
    ASSUME RecordInv, NEW p \in Path, NEW t \in Thread, Stores(p, t)
    PROVE  /\ records'[p] \in Record
           /\ records'[p].generation = records[p].generation + 1
           /\ records'[p].definition = op[t].definition
           /\ records'[p].evidence = op[t].evidence
           /\ is_authorizing_outcome(records'[p].outcome) => op[t].stands
           /\ op[t].definition.path = p /\ op[t].pc = "commit" /\ ~Stale(t)
           /\ underlying_index' = Indexed(op[t].definition)
           /\ watermarks' = watermarks
BY DecisionType DEF Stores, Commit, RecordInv

\* A record changes only by entering its next generation.
LEMMA GenerationStep ==
    ASSUME RecordInv, [Next]_vars, NEW p \in Path
    PROVE  /\ records'[p] \in Record
           /\ records[p].generation \in Nat /\ records'[p].generation \in Nat
           /\ records'[p] = records[p] \/ records'[p].generation = records[p].generation + 1
<1>1. records[p] \in Record /\ Generation \subseteq Nat
  BY TypeFacts, UnderlayAssumption DEF RecordInv, Generation
<1>2. QED  BY <1>1, RecordStep, StoresFacts DEF Withdraws, Record

LEMMA TypeStep ==
    ASSUME RecordInv, [Next]_vars
    PROVE  TypeOK'
<1>1. TypeOK
  BY DEF RecordInv
<1>2. records' \in [Path -> Record]
  <2>1. records' = [p \in Path |-> records'[p]]
    BY <1>1 DEF TypeOK, Next, Proceed, ResolveUnderlying, ReadOwn, Decline, Begin, SourceChange,
                vars, Commit, Revoke, InvalidateUnderlying
  <2>2. QED  BY <2>1, GenerationStep
<1>3. underlying_index' \in [Path -> SUBSET Path]
  <2>1. CASE UNCHANGED underlying_index
    BY <1>1, <2>1 DEF TypeOK
  <2>2. CASE \E t \in Thread : Decline(t)
    BY <1>1, <2>2 DEF Decline, TypeOK
  <2>3. CASE \E t \in Thread : Commit(t)
    <3>1. \A t \in Thread : op[t].definition.path \in Path
      BY <1>1, TypeFacts, DefinitionFacts
    <3>2. QED  BY <1>1, <2>3, <3>1 DEF Commit, Indexed, TypeOK
  <2>4. QED
    BY <2>1, <2>2, <2>3 DEF Next, Proceed, ResolveUnderlying, ReadOwn, Begin, SourceChange, vars,
                            Revoke, InvalidateUnderlying
<1>4. watermarks' \in [Path -> Generation]
  <2>1. CASE UNCHANGED watermarks
    BY <1>1, <2>1 DEF TypeOK
  <2>2. CASE \E u \in Path, g \in Generation : InvalidateUnderlying(u, g)
    BY <1>1, <2>2 DEF InvalidateUnderlying, TypeOK
  <2>3. QED
    BY <2>1, <2>2 DEF Next, Proceed, ResolveUnderlying, ReadOwn, Decline, Begin, SourceChange,
                      vars, Commit, Revoke
<1>5. sources' \in [Path -> Nat]
  <2>1. CASE UNCHANGED sources
    BY <1>1, <2>1 DEF TypeOK
  <2>2. CASE \E p \in Path : SourceChange(p)
    BY <1>1, <2>2 DEF SourceChange, TypeOK
  <2>3. QED
    BY <2>1, <2>2 DEF Next, Proceed, ResolveUnderlying, ReadOwn, Decline, Begin, vars, Commit,
                      Revoke, InvalidateUnderlying
<1>6. op' \in [Thread -> Call]
  <2>1. CASE UNCHANGED op
    BY <1>1, <2>1 DEF TypeOK
  <2>2. ASSUME NEW t \in Thread, Proceed(t) \/ \E d \in Definition : Begin(t, d)
        PROVE  op' \in [Thread -> Call]
    <3>1. /\ \A s \in Thread : s # t => op'[s] = op[s]
          /\ op'[t] \in Call
          /\ op' = [s \in Thread |-> op'[s]]
      BY <1>1, <2>2, BeginCall, ResolveCall, ReadOwnCall, ReturnCall DEF Proceed, Decline, Commit
    <3>2. QED  BY <1>1, <3>1, TypeFacts
  <2>3. QED
    BY <2>1, <2>2 DEF Next, SourceChange, vars, Revoke, InvalidateUnderlying
<1>7. QED  BY <1>2, <1>3, <1>4, <1>5, <1>6 DEF TypeOK

-----------------------------------------------------------------------------
(* The chain that was read stands, and keeps standing or is passed.        *)

LEMMA ResolvedStands ==
    ASSUME RecordInv, NEW d \in Definition, ~Cyclic(d), Stands(d), d.under # NoPath
    PROVE  Reached(d) # {} /\ StandsOver(Deepest(d).generation, d)
<1>1. /\ Reached(d) # {} /\ Deepest(d).generation = d.bound
      /\ is_authorizing_outcome(Deepest(d).outcome)
  BY DEF Stands
<1>2. d.under \in Path /\ d.path \in Path /\ NoPath \notin Path
  BY DefinitionFacts, UnderlayAssumption
<1>3. MaxNesting \in Nat /\ MaxNesting >= 1
  BY UnderlayAssumption
<1>4. Below(d)[1] = d.under /\ Below(d)[2] = Link(d.under)
  BY <1>3, BelowIsChain
<1>5. ASSUME Flat(d) PROVE Below(d)[2] = NoPath
  <2>1. SUFFICES ASSUME Below(d)[2] # NoPath PROVE FALSE
    OBVIOUS
  <2>2. Present(d.under) /\ Below(d)[2] = Under(d.under)
    BY <1>2, <1>4, <2>1 DEF Link
  <2>3. records[d.under].definition \in Definition /\ records[d.under].definition.path = d.under
    BY <1>2, <2>2, TypeFacts DEF RecordInv, RecordNamesPath
  <2>4. Below(d)[2] = d.path
    BY <1>5, <2>1, <2>2, <2>3 DEF Flat, Under
  <2>5. CASE MaxNesting = 1
    BY <2>1, <2>5 DEF Cyclic
  <2>6. CASE MaxNesting # 1
    <3>1. 2 \in 1..MaxNesting
      BY <1>3, <2>6
    <3>2. QED  BY <2>1, <2>4, <3>1 DEF Cyclic
  <2>7. QED  BY <2>5, <2>6
<1>6. ASSUME Flat(d) PROVE Present(d.under) /\ Deepest(d) = records[d.under]
  <2>1. PICK n \in Reached(d) : /\ Below(d)[n] \in Path /\ Present(Below(d)[n])
                                /\ Deepest(d) = records[Below(d)[n]]
    BY <1>1, DeepestIsReached
  <2>2. n \in 1..MaxNesting
    BY <2>1 DEF Reached
  <2>3. n \notin 2..MaxNesting + 1
    BY <1>2, <1>5, <1>6, <2>1, ChainEnds
  <2>4. n = 1
    BY <1>3, <2>2, <2>3
  <2>5. QED  BY <1>4, <2>1, <2>4
<1>7. records[d.under].generation \in Nat
  BY <1>2, TypeFacts, UnderlayAssumption DEF RecordInv, Generation
<1>8. QED  BY <1>1, <1>6, <1>7 DEF StandsOver, Live

LEMMA StandsOverStep ==
    ASSUME RecordInv, [Next]_vars
    PROVE  \A d \in Definition, n \in Generation : StandsOver(n, d) => StandsOver(n, d)'
<1> SUFFICES ASSUME NEW d \in Definition, NEW n \in Generation, StandsOver(n, d), d.under # NoPath
             PROVE  StandsOver(n, d)'
  BY DEF StandsOver
<1>1. d.under \in Path /\ n \in Nat
  BY DefinitionFacts, UnderlayAssumption DEF Generation
<1>2. CASE records'[d.under] = records[d.under]
  BY <1>2 DEF StandsOver, Live, Present
<1>3. CASE records'[d.under].generation = records[d.under].generation + 1
  <2>1. records[d.under].generation \in Nat
    BY <1>1, GenerationStep
  <2>2. QED  BY <1>1, <1>3, <2>1 DEF StandsOver
<1>4. QED  BY <1>1, <1>2, <1>3, GenerationStep

LEMMA CallStep ==
    ASSUME RecordInv, [Next]_vars, NEW t \in Thread,
           op'[t].pc \in {"own", "commit"}, op'[t].stands
    PROVE  \/ /\ op[t].pc \in {"own", "commit"} /\ op[t].stands
              /\ op'[t].definition = op[t].definition
              /\ op'[t].evidence.under = op[t].evidence.under
           \/ ResolveUnderlying(t)
<1>1. CASE op'[t] = op[t]
  BY <1>1
<1>2. CASE \E d \in Definition : Begin(t, d)
  BY <1>2, BeginCall DEF RecordInv
<1>3. CASE ReadOwn(t)
  BY <1>3, ReadOwnCall DEF RecordInv
<1>4. CASE Return(t)
  BY <1>4, ReturnCall DEF RecordInv
<1>5. ASSUME NEW s \in Thread, s # t, Proceed(s) \/ \E d \in Definition : Begin(s, d)
      PROVE  op'[t] = op[t]
  BY <1>5, BeginCall, ResolveCall, ReadOwnCall, ReturnCall DEF RecordInv, Proceed, Decline, Commit
<1>6. QED
  BY <1>1, <1>2, <1>3, <1>4, <1>5
     DEF Next, Proceed, Decline, Commit, Revoke, SourceChange, InvalidateUnderlying, vars

LEMMA CallsStandStep ==
    ASSUME RecordInv, CallsStand, [Next]_vars
    PROVE  CallsStand'
<1> SUFFICES ASSUME NEW t \in Thread, op'[t].pc \in {"own", "commit"}, op'[t].stands
             PROVE  StandsOver(op[t].evidence.under, op[t].definition)'
  BY DEF CallsStand
<1> DEFINE d == op[t].definition
           n == op[t].evidence.under
<1>1. CASE /\ op[t].pc \in {"own", "commit"} /\ op[t].stands
           /\ op'[t].definition = d /\ op'[t].evidence.under = n
  <2>1. StandsOver(n, d) /\ d \in Definition /\ n \in Generation
    BY <1>1, TypeFacts DEF CallsStand, RecordInv
  <2>2. QED  BY <1>1, <2>1, StandsOverStep DEF StandsOver, Live, Present
<1>2. CASE ResolveUnderlying(t)
  <2>1. /\ ~Cyclic(d) /\ Stands(d) /\ op'[t].definition = d
        /\ Reached(d) # {} => op'[t].evidence.under = Deepest(d).generation
    BY <1>2, ResolveCall DEF RecordInv
  <2>2. d \in Definition
    BY TypeFacts DEF RecordInv
  <2>3. d.under # NoPath => StandsOver(op'[t].evidence.under, d)
    BY <2>1, <2>2, ResolvedStands
  <2>4. records' = records
    BY <1>2 DEF ResolveUnderlying
  <2>5. QED  BY <2>1, <2>3, <2>4 DEF StandsOver, Live, Present
<1>3. QED  BY <1>1, <1>2, CallStep

LEMMA LiveStandsStep ==
    ASSUME RecordInv, CallsStand, LiveStands, [Next]_vars
    PROVE  LiveStands'
<1> SUFFICES ASSUME NEW p \in Path, Live(p)'
             PROVE  StandsOver(records[p].evidence.under, records[p].definition)'
  BY DEF LiveStands
<1>1. CASE records'[p] = records[p]
  <2>1. /\ StandsOver(records[p].evidence.under, records[p].definition)
        /\ records[p].definition \in Definition /\ records[p].evidence.under \in Generation
    BY <1>1, TypeFacts DEF LiveStands, Live, Present, RecordInv
  <2>2. QED  BY <1>1, <2>1, StandsOverStep DEF StandsOver, Live, Present
<1>2. CASE Withdraws(p)
  BY <1>2 DEF Withdraws, Live
<1>3. ASSUME NEW t \in Thread, Stores(p, t)
      PROVE  StandsOver(records[p].evidence.under, records[p].definition)'
  <2>1. /\ records'[p].definition = op[t].definition /\ records'[p].evidence = op[t].evidence
        /\ op[t].pc = "commit" /\ op[t].stands
    BY <1>3, StoresFacts DEF Live
  <2>2. /\ StandsOver(op[t].evidence.under, op[t].definition)
        /\ op[t].definition \in Definition /\ op[t].evidence.under \in Generation
    BY <2>1, TypeFacts DEF CallsStand, RecordInv
  <2>3. QED  BY <2>1, <2>2, StandsOverStep DEF StandsOver, Live, Present
<1>4. QED  BY <1>1, <1>2, <1>3, RecordStep

-----------------------------------------------------------------------------
(* The index and the watermarks.                                           *)

LEMMA NamesStep ==
    ASSUME RecordInv, [Next]_vars
    PROVE  RecordNamesPath'
<1> SUFFICES ASSUME NEW p \in Path, Present(p)' PROVE records'[p].definition.path = p
  BY DEF RecordNamesPath
<1>1. CASE records'[p] = records[p] \/ Withdraws(p)
  BY <1>1 DEF Withdraws, Present, RecordInv, RecordNamesPath
<1>2. CASE \E t \in Thread : Stores(p, t)
  BY <1>2, StoresFacts
<1>3. QED  BY <1>1, <1>2, RecordStep

\* A path enters the index with its decision, and nothing loses its record.
LEMMA IndexStep ==
    ASSUME RecordInv, [Next]_vars, NEW p \in Path, NEW u \in Path
    PROVE  /\ p \in underlying_index'[u] =>
                 p \in underlying_index[u] \/ \E t \in Thread : Stores(p, t)
           /\ p \in underlying_index[u] /\ can_advance(p) =>
                 p \in underlying_index'[u] \/ \E t \in Thread : Stores(p, t)
<1>1. underlying_index \in [Path -> SUBSET Path]
  BY DEF RecordInv, TypeOK
<1>2. ASSUME NEW t \in Thread, Decline(t)
      PROVE  /\ underlying_index'[u] \subseteq underlying_index[u]
             /\ p \in underlying_index[u] /\ can_advance(p) => p \in underlying_index'[u]
  BY <1>1, <1>2 DEF Decline
<1>3. ASSUME NEW t \in Thread, Commit(t), op[t].definition.path # p
      PROVE  p \in underlying_index'[u] <=> p \in underlying_index[u]
  BY <1>1, <1>3 DEF Commit, Indexed
<1>4. ASSUME NEW t \in Thread, Commit(t), op[t].definition.path = p
      PROVE  Stores(p, t)
  BY <1>4, CommitStep DEF RecordInv, Stores, Commit, TypeOK
<1>5. CASE UNCHANGED underlying_index
  BY <1>5
<1>6. QED
  BY <1>2, <1>3, <1>4, <1>5
     DEF Next, Proceed, ResolveUnderlying, ReadOwn, Begin, SourceChange, vars, Revoke,
         InvalidateUnderlying

LEMMA PresentStep ==
    ASSUME RecordInv, [Next]_vars, NEW p \in Path
    PROVE  /\ Present(p) => Present(p)'
           /\ \A t \in Thread : Stores(p, t) => Present(p)'
<1>1. records[p].generation \in Nat
  BY GenerationStep
<1>2. QED  BY <1>1, GenerationStep, StoresFacts DEF Present

LEMMA IndexedIsPresentStep ==
    ASSUME RecordInv, [Next]_vars
    PROVE  IndexedIsPresent'
BY IndexStep, PresentStep DEF RecordInv, IndexedIsPresent

LEMMA IndexCoversStep ==
    ASSUME RecordInv, IndexCovers, [Next]_vars
    PROVE  IndexCovers'
<1> SUFFICES ASSUME NEW p \in Path, Live(p)', can_advance(p)', Under(p)' # NoPath
             PROVE  p \in underlying_index'[Under(p)']
  BY DEF IndexCovers
<1>1. records'[p] \in Record /\ records'[p].definition \in Definition
  BY GenerationStep DEF Record
<1>2. Under(p)' \in Path
  BY <1>1, DefinitionFacts DEF Under
<1>3. CASE \E t \in Thread : Stores(p, t)
  BY <1>2, <1>3, StoresFacts DEF Indexed, Under
<1>4. CASE records'[p] = records[p] /\ ~ \E t \in Thread : Stores(p, t)
  <2>1. /\ can_advance(p) /\ Under(p) = Under(p)'
        /\ p \in underlying_index[Under(p)]
    BY <1>4 DEF IndexCovers, Live, Present, can_advance, Under
  <2>2. QED  BY <1>2, <1>4, <2>1, IndexStep
<1>5. CASE Withdraws(p)
  BY <1>5 DEF Withdraws, Live
<1>6. QED  BY <1>3, <1>4, <1>5, RecordStep

LEMMA WatermarkStep ==
    ASSUME RecordInv, IndexCovers, CallsStand, LiveStands, OverlayAboveWatermark, [Next]_vars
    PROVE  OverlayAboveWatermark'
<1> SUFFICES ASSUME NEW p \in Path, Live(p)', can_advance(p)', Under(p)' # NoPath
             PROVE  records'[p].evidence.under >= watermarks'[Under(p)']
  BY DEF OverlayAboveWatermark
<1>1. CASE \E t \in Thread : Stores(p, t)
  <2>1. PICK t \in Thread : Stores(p, t)
    BY <1>1
  <2> DEFINE d == op[t].definition
             n == op[t].evidence.under
  <2>2. /\ records'[p].evidence.under = n /\ Under(p)' = d.under
        /\ op[t].stands /\ op[t].pc = "commit" /\ ~Stale(t)
        /\ watermarks' = watermarks
    BY <2>1, StoresFacts DEF Under, Live
  <2>3. d \in Definition /\ n \in Generation
    BY TypeFacts DEF RecordInv
  <2>4. d.under \in Path /\ d.bound # 0
    BY <2>2, <2>3, DefinitionFacts
  <2>5. n = d.bound
    BY <2>2 DEF CallsStand, StandsOver
  <2>6. watermarks[d.under] \in Nat /\ n \in Nat
    BY <2>3, <2>4, TypeFacts, UnderlayAssumption DEF RecordInv, Generation
  <2>7. ~(n < watermarks[d.under])
    BY <2>2, <2>4, <2>5 DEF Stale
  <2>8. QED  BY <2>2, <2>6, <2>7
<1>2. CASE records'[p] = records[p]
  <2> DEFINE u == Under(p)
  <2>1. Live(p) /\ can_advance(p) /\ u # NoPath /\ Under(p)' = u
    BY <1>2 DEF Live, Present, can_advance, Under
  <2>2. u \in Path /\ records[p].evidence.under \in Nat /\ watermarks[u] \in Nat
    <3>1. records[p].definition \in Definition
      BY TypeFacts DEF RecordInv
    <3>2. u \in Path
      BY <2>1, <3>1, DefinitionFacts DEF Under
    <3>3. QED  BY <3>2, TypeFacts, UnderlayAssumption DEF RecordInv, Generation
  <2>3. records[p].evidence.under >= watermarks[u] /\ p \in underlying_index[u]
    BY <2>1 DEF OverlayAboveWatermark, IndexCovers
  <2>4. CASE watermarks' = watermarks
    BY <1>2, <2>1, <2>3, <2>4
  <2>5. ASSUME NEW q \in Path, NEW g \in Generation, InvalidateUnderlying(q, g)
        PROVE  records[p].evidence.under >= watermarks'[u]
    <3>1. watermarks' = [watermarks EXCEPT ![q] = IF g > @ THEN g ELSE @]
      BY <2>5 DEF InvalidateUnderlying
    <3>2. CASE q # u
      BY <2>2, <2>3, <3>1, <3>2
    <3>3. CASE q = u
      <4>1. records[p].evidence.under = g
        <5>1. SUFFICES ASSUME records[p].evidence.under # g PROVE FALSE
          OBVIOUS
        <5>2. records[p].outcome # "REVALIDATION_REQUIRED"
          BY <2>1 DEF Live, is_authorizing_outcome
        <5>3. records'[p] = [records[p] EXCEPT !.generation = @ + 1,
                                               !.outcome = "REVALIDATION_REQUIRED"]
          BY <2>1, <2>3, <2>5, <3>3, <5>1, <5>2 DEF InvalidateUnderlying
        <5>4. records'[p].outcome = "REVALIDATION_REQUIRED"
          BY <5>3, TypeFacts DEF RecordInv, Record
        <5>5. QED  BY <1>2, <5>2, <5>4
      <4>2. watermarks'[u] \in {g, watermarks[u]}
        BY <2>2, <3>1, <3>3 DEF RecordInv, TypeOK
      <4>3. QED  BY <2>2, <2>3, <4>1, <4>2
    <3>4. QED  BY <3>2, <3>3
  <2>6. QED
    BY <1>2, <2>1, <2>4, <2>5
       DEF Next, Proceed, ResolveUnderlying, ReadOwn, Decline, Begin, SourceChange, vars, Commit,
           Revoke
<1>3. CASE Withdraws(p)
  BY <1>3 DEF Withdraws, Live
<1>4. QED  BY <1>1, <1>2, <1>3, RecordStep

LEMMA UnderlayInvariant == Spec => []UnderlayInv
<1>1. Init => UnderlayInv
  <2> SUFFICES ASSUME Init PROVE UnderlayInv
    OBVIOUS
  <2>1. /\ \A p \in Path : ~Present(p) /\ ~Live(p) /\ underlying_index[p] = {}
        /\ \A t \in Thread : op[t].pc = "idle"
    BY DEF Init, Present, Live, Absent, Idle
  <2>2. QED
    BY <2>1, InitType DEF UnderlayInv, RecordInv, IndexedIsPresent, RecordNamesPath, IndexCovers,
                          CallsStand, LiveStands, OverlayAboveWatermark
<1>2. UnderlayInv /\ [Next]_vars => UnderlayInv'
  BY TypeStep, NamesStep, IndexedIsPresentStep, IndexCoversStep, CallsStandStep, LiveStandsStep,
     WatermarkStep DEF UnderlayInv, RecordInv
<1>3. QED  BY <1>1, <1>2, PTL DEF Spec

-----------------------------------------------------------------------------
\* The variables of Underlay keep their types.
THEOREM UnderlayTypeCorrect == Spec => []TypeOK
<1>1. UnderlayInv => TypeOK
  BY DEF UnderlayInv, RecordInv
<1>2. QED  BY <1>1, UnderlayInvariant, PTL

\* No live authority is bound to an older generation of the path it rests on than was
\* announced: not by any order of reading the chain, committing and announcing.
THEOREM OverlayAlwaysAboveWatermark == Spec => []OverlayAboveWatermark
<1>1. UnderlayInv => OverlayAboveWatermark
  BY DEF UnderlayInv
<1>2. QED  BY <1>1, UnderlayInvariant, PTL

\* Live authority over a path without an underlay was decided over its authority, for
\* any depth the chain may be followed to.
THEOREM OverlayAlwaysJustified == Spec => []OverlayJustified
<1>1. UnderlayInv => OverlayJustified
  BY DEF UnderlayInv, LiveStands, StandsOver, OverlayJustified, Under
<1>2. QED  BY <1>1, UnderlayInvariant, PTL
=============================================================================
