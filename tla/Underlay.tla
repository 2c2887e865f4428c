------------------------------ MODULE Underlay ------------------------------
(***************************************************************************)
(* Paths that rest on paths (runtime.cpp): a logical path names another    *)
(* path and the authority generation of it that it needs; evaluate()       *)
(* follows the named paths down to the deepest one, and announcements of   *)
(* changes go up one link, through underlying_index and a watermark.       *)
(*                                                                         *)
(* Policy, epoch and constraint set stay; all the evidence a path has of   *)
(* its own is one subject, named by the path, whose changes nobody         *)
(* announces.  Calls are cut as in PathRuntime, which has the rest.        *)
(***************************************************************************)
EXTENDS AuthorityTypes, Integers, Sequences

CONSTANTS
    Path,
    NoPath,         \* names no path
    Definition,     \* what callers submit: the path, the path it names, and the
                    \* generation of that
    Thread,         \* threads calling evaluate()
    Content,        \* Content[p][g]: what generation g of p's own evidence says
    MaxNesting,     \* Limits::max_nesting_depth
    MaxGeneration   \* the last authority generation (2^64 - 1 in the code)

Generation == 0..MaxGeneration

ASSUME UnderlayAssumption ==
    /\ MaxNesting \in Nat \ {0} /\ MaxGeneration \in Nat \ {0}
    /\ NoPath \notin Path
    /\ Definition \subseteq [path : Path, under : Path \cup {NoPath}, bound : Generation]
    /\ Definition # {}
    /\ \A d \in Definition : d.under = NoPath <=> d.bound = 0
    /\ Content \in [Path -> Seq({"good", "bad"})]
    /\ \A p \in Path : Content[p] # <<>>

VARIABLES
    records,           \* the record of each path; generation 0: no record
    underlying_index,  \* the paths whose records name a path
    watermarks,        \* the highest announced generation of a path's authority
    sources,           \* the current generation of a path's own evidence
    op                 \* the call each thread is in

vars == <<records, underlying_index, watermarks, sources, op>>

\* Evidence of generation 0 is not in the vector.
NoEvidence == [own |-> 0, under |-> 0]

NoDefinition == CHOOSE d \in Definition : TRUE

Absent == [generation |-> 0, definition |-> NoDefinition, outcome |-> "HARD_FAILURE",
           evidence |-> NoEvidence, revoked |-> FALSE]

Idle == [pc |-> "idle", definition |-> NoDefinition, evidence |-> NoEvidence, stands |-> FALSE]

Present(p) == records[p].generation # 0
Live(p) == Present(p) /\ is_authorizing_outcome(records[p].outcome)
Under(p) == records[p].definition.under
can_advance(p) == records[p].generation # MaxGeneration

-----------------------------------------------------------------------------
(* resolve_underlying(), one critical section.                             *)

\* One link down, as the records have it.
Link(p) == IF p = NoPath \/ ~Present(p) THEN NoPath ELSE Under(p)

\* The paths below a definition, one link after the other.
Below(d) ==
    LET cursor[n \in 1..MaxNesting + 1] == IF n = 1 THEN d.under ELSE Link(cursor[n - 1])
    IN  cursor

\* The chain comes back to a path it has been at, or is longer than it may be.
Cyclic(d) ==
    LET below == Below(d) IN
    \/ below[MaxNesting + 1] # NoPath
    \/ \E n \in 1..MaxNesting :
          below[n] # NoPath /\ below[n] \in {d.path} \cup {below[m] : m \in 1..n - 1}

\* The records the chain reached, and the last of them.
Reached(d) == {n \in 1..MaxNesting : Below(d)[n] \in Path /\ Present(Below(d)[n])}

Deepest(d) ==
    LET last == CHOOSE n \in Reached(d) : \A m \in Reached(d) : m <= n
    IN  records[Below(d)[last]]

\* Mutant: the generation is not compared.
StandsAtAnyGeneration(d) ==
    d.under = NoPath \/ (Reached(d) # {} /\ is_authorizing_outcome(Deepest(d).outcome))

\* What a definition needs of the chain: the deepest record authorizes, and its
\* generation is the one that was bound to the path named first.
Stands(d) ==
    \/ d.under = NoPath
    \/ /\ Reached(d) # {}
       /\ Deepest(d).generation = d.bound
       /\ is_authorizing_outcome(Deepest(d).outcome)

-----------------------------------------------------------------------------
(* evaluate().                                                             *)

Goto(t, fields) ==
    op' = [op EXCEPT ![t] = [f \in DOMAIN Idle |-> IF f \in DOMAIN fields THEN fields[f] ELSE @[f]]]

Return(t) == op' = [op EXCEPT ![t] = Idle]

\* A revoked path is refused.
Begin(t, d) ==
    /\ op[t].pc = "idle"
    /\ ~records[d.path].revoked
    /\ Goto(t, [pc |-> "underlay", definition |-> d])
    /\ UNCHANGED <<records, underlying_index, watermarks, sources>>

\* MALFORMED_PATH for a cycle, before anything is decided.
ResolveUnderlying(t) ==
    LET d == op[t].definition IN
    /\ op[t].pc = "underlay"
    /\ \/ Cyclic(d) /\ Return(t)
       \/ /\ ~Cyclic(d)
          /\ Goto(t, [pc |-> "own", stands |-> Stands(d),
                      evidence |-> [own   |-> 0,
                                    under |-> IF Reached(d) = {} THEN 0
                                              ELSE Deepest(d).generation]])
    /\ UNCHANGED <<records, underlying_index, watermarks, sources>>

ReadOwn(t) ==
    /\ op[t].pc = "own"
    /\ Goto(t, [pc |-> "commit",
                evidence |-> [op[t].evidence EXCEPT !.own = sources[op[t].definition.path]]])
    /\ UNCHANGED <<records, underlying_index, watermarks, sources>>

\* An underlay that does not stand comes first.
Decision(t) ==
    LET d == op[t].definition IN
    [generation |-> records[d.path].generation + 1, definition |-> d,
     outcome    |-> IF ~op[t].stands THEN "REVALIDATION_REQUIRED"
                    ELSE IF Content[d.path][op[t].evidence.own] = "bad" THEN "HARD_FAILURE"
                    ELSE "AUTHORIZED",
     evidence   |-> op[t].evidence,
     revoked    |-> records[d.path].revoked]

\* stale_evidence(): only what is in the vector is compared.
Stale(t) ==
    /\ op[t].evidence.under # 0
    /\ op[t].evidence.under < watermarks[op[t].definition.under]

Replayed(t) ==
    LET record == records[op[t].definition.path] IN
    /\ record.generation # 0
    /\ record = [Decision(t) EXCEPT !.generation = record.generation]

\* Refused as stale, the same decision again, or no generation left; in the last case
\* the record has been taken out of the index.
Decline(t) ==
    LET p == op[t].definition.path
        exhausted == ~Stale(t) /\ ~Replayed(t)
    IN  /\ op[t].pc = "commit"
        /\ Stale(t) \/ Replayed(t) \/ ~can_advance(p)
        /\ underlying_index' = IF exhausted THEN [q \in Path |-> underlying_index[q] \ {p}]
                                            ELSE underlying_index
        /\ Return(t)
        /\ UNCHANGED <<records, watermarks, sources>>

\* Mutant: the index follows the definition that is replaced.
IndexedByDefinitionBefore(d) ==
    [q \in Path |-> IF q = Under(d.path) /\ Present(d.path) THEN underlying_index[q] \cup {d.path}
                                                            ELSE underlying_index[q] \ {d.path}]

\* unindex_record(), rebuild_record_dependencies(), index_record().
Indexed(d) ==
    [q \in Path |-> IF q = d.under THEN underlying_index[q] \cup {d.path}
                                   ELSE underlying_index[q] \ {d.path}]

Commit(t) ==
    LET d == op[t].definition IN
    /\ op[t].pc = "commit"
    /\ ~Stale(t) /\ ~Replayed(t) /\ can_advance(d.path)
    /\ records' = [records EXCEPT ![d.path] = Decision(t)]
    /\ underlying_index' = Indexed(d)
    /\ Return(t)
    /\ UNCHANGED <<watermarks, sources>>

-----------------------------------------------------------------------------
(* What changes without an evaluation.                                     *)

\* Mutant: the generation is not checked for exhaustion.
RevokePastExhaustion(p) ==
    /\ Present(p) /\ ~records[p].revoked
    /\ records' = [records EXCEPT ![p].generation = @ + 1, ![p].outcome = "REVOKED",
                                  ![p].revoked = TRUE]
    /\ UNCHANGED <<underlying_index, watermarks, sources, op>>

\* revoke(): the paths that rest on it are not touched.
Revoke(p) ==
    /\ Present(p) /\ ~records[p].revoked /\ can_advance(p)
    /\ records' = [records EXCEPT ![p].generation = @ + 1, ![p].outcome = "REVOKED",
                                  ![p].revoked = TRUE]
    /\ UNCHANGED <<underlying_index, watermarks, sources, op>>

\* invalidate_underlying(): the authority of u was seen to be in this generation; late,
\* twice or not at all.  What rests on it is marked unless it is bound to exactly that.
InvalidateUnderlying(u, generation) ==
    /\ generation \in 1..records[u].generation
    /\ watermarks' = [watermarks EXCEPT ![u] = IF generation > @ THEN generation ELSE @]
    /\ records' = [p \in Path |->
           IF /\ p \in underlying_index[u] /\ can_advance(p)
              /\ records[p].evidence.under # generation
              /\ records[p].outcome # "REVALIDATION_REQUIRED"
           THEN [records[p] EXCEPT !.generation = @ + 1, !.outcome = "REVALIDATION_REQUIRED"]
           ELSE records[p]]
    /\ UNCHANGED <<underlying_index, sources, op>>

SourceChange(p) ==
    /\ sources[p] < Len(Content[p])
    /\ sources' = [sources EXCEPT ![p] = @ + 1]
    /\ UNCHANGED <<records, underlying_index, watermarks, op>>

-----------------------------------------------------------------------------
Init ==
    /\ records = [p \in Path |-> Absent]
    /\ underlying_index = [p \in Path |-> {}]
    /\ watermarks = [p \in Path |-> 0]
    /\ sources = [p \in Path |-> 1]
    /\ op = [t \in Thread |-> Idle]

Proceed(t) == ResolveUnderlying(t) \/ ReadOwn(t) \/ Decline(t) \/ Commit(t)

Next ==
    \/ \E t \in Thread : Proceed(t) \/ \E d \in Definition : Begin(t, d)
    \/ \E p \in Path : Revoke(p) \/ SourceChange(p)
    \/ \E u \in Path, generation \in Generation : InvalidateUnderlying(u, generation)

Spec == Init /\ [][Next]_vars

-----------------------------------------------------------------------------
EvidenceVector == [own : Nat, under : Generation]

Record == [generation : Generation, definition : Definition, outcome : EvaluationOutcome,
           evidence : EvidenceVector, revoked : BOOLEAN]

Call == [pc : {"idle", "underlay", "own", "commit"}, definition : Definition,
         evidence : EvidenceVector, stands : BOOLEAN]

\* The type invariant.
TypeOK ==
    /\ records \in [Path -> Record]
    /\ underlying_index \in [Path -> SUBSET Path]
    /\ watermarks \in [Path -> Generation]
    /\ sources \in [Path -> Nat]
    /\ op \in [Thread -> Call]

\* A path that is announced reaches everything that rests on it: no live authority is
\* bound to an older generation than was announced of the path it names, whichever of
\* the reading of the chain, the commit and the announcement came first.
OverlayAboveWatermark ==
    \A p \in Path :
        Live(p) /\ can_advance(p) /\ Under(p) # NoPath =>
            records[p].evidence.under >= watermarks[Under(p)]

\* Definitions that name a path which never has an underlay, but for the cycle.
Flat(d) == \A e \in Definition : e.path = d.under => e.under \in {NoPath, d.path}

\* Live authority over such a path was decided over its authority: the path has been
\* in the generation that is bound, and while it still is, it authorizes.  No race of
\* the evaluation with revocations and decisions of the underlay makes it otherwise.
OverlayJustified ==
    \A p \in Path :
        Live(p) /\ Under(p) # NoPath /\ Flat(records[p].definition) =>
            LET u == Under(p) IN
            /\ records[p].evidence.under = records[p].definition.bound
            /\ records[p].evidence.under <= records[u].generation
            /\ records[p].evidence.under = records[u].generation => Live(u)

\* path.hpp: "A logical path may depend on the exact authority result of an underlying
\* path. Nesting is explicit, bound to a generation": nothing is decided to stand over
\* a path that is revoked when the chain is read.
NothingStandsOnRevoked ==
    [][\A t \in Thread :
          LET u == op[t].definition.under IN
          /\ op[t].pc = "underlay" /\ u # NoPath /\ op'[t].stands
          => ~records[u].revoked]_vars

\* "Durable path descriptions ... survive": decode_durable_state() (persistence.cpp)
\* refuses an image with a record that names a path without one.
ImageIsReadable == \A p \in Path : Present(p) /\ Under(p) # NoPath => Present(Under(p))
=============================================================================
