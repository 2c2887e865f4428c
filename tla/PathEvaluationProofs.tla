------------------------ MODULE PathEvaluationProofs ------------------------
(***************************************************************************)
(* Theorems about PathEvaluation, for every definition, constraint set,    *)
(* policy and content of the views, whatever their sizes.                  *)
(***************************************************************************)
EXTENDS PathEvaluation, SequenceTheorems, FiniteSetTheorems, WellFoundedInduction, TLAPS

-----------------------------------------------------------------------------
(* Induction over the natural numbers, with sets for predicates.           *)

LEMMA LeastNumber ==
    ASSUME NEW S \in SUBSET Nat, S # {}
    PROVE  \E n \in S : \A m \in S : n <= m
<1>1. \E x \in S : \A y \in S : ~ (<<y, x>> \in OpToRel(<, Nat))
  BY NatLessThanWellFounded, WFMin, Zenon
<1>2. \A x, y \in Nat : ~ (<<y, x>> \in OpToRel(<, Nat)) => x <= y
  BY DEF OpToRel
<1>3. QED  BY <1>1, <1>2

LEMMA NatSetInduction ==
    ASSUME NEW S, 0 \in S, \A n \in Nat : n \in S => n + 1 \in S
    PROVE  Nat \subseteq S
<1> SUFFICES ASSUME Nat \ S # {} PROVE FALSE
  OBVIOUS
<1>1. PICK n \in Nat \ S : \A m \in Nat \ S : n <= m
  BY LeastNumber
<1>2. n # 0 /\ n - 1 \in Nat /\ n - 1 \in S
  BY <1>1
<1>3. QED  BY <1>1, <1>2

LEMMA MinIsLeast ==
    ASSUME NEW S \in SUBSET Nat, S # {}
    PROVE  Min(S) \in S /\ \A m \in S : Min(S) <= m
<1>1. \E n \in S : \A m \in S : n <= m
  BY LeastNumber
<1>2. QED  BY <1>1 DEF Min

-----------------------------------------------------------------------------
(* Sequences.                                                              *)

ConcatUpTo(f, seqs, n) == [i \in 1 .. n |-> IF i = 1 THEN seqs[i] ELSE f[i - 1] \o seqs[i]]

LEMMA ConcatExists ==
    ASSUME NEW seqs
    PROVE  \A n \in Nat : \E f : f = ConcatUpTo(f, seqs, n)
<1> DEFINE S == {n \in Nat : \E f : f = ConcatUpTo(f, seqs, n)}
<1>1. 0 \in S
  <2>1. <<>> = ConcatUpTo(<<>>, seqs, 0)
    BY DEF ConcatUpTo
  <2>2. QED  BY <2>1
<1>2. ASSUME NEW n \in Nat, n \in S PROVE n + 1 \in S
  <2>1. PICK f : f = ConcatUpTo(f, seqs, n)
    BY <1>2
  <2> DEFINE e == [i \in 1 .. n + 1 |-> IF i <= n THEN f[i]
                                        ELSE IF i = 1 THEN seqs[i] ELSE f[i - 1] \o seqs[i]]
             g == [i \in 1 .. n + 1 |-> e[i]]
  <2>2. \A i \in 1 .. n : f[i] = IF i = 1 THEN seqs[i] ELSE f[i - 1] \o seqs[i]
    BY <2>1 DEF ConcatUpTo
  <2>3. \A i \in 1 .. n + 1 : g[i] = IF i = 1 THEN seqs[i] ELSE g[i - 1] \o seqs[i]
    BY <2>2
  <2>4. g = [i \in 1 .. n + 1 |-> g[i]]
    BY Zenon
  <2>5. [i \in 1 .. n + 1 |-> g[i]] = ConcatUpTo(g, seqs, n + 1)
    <3> HIDE DEF g
    <3>1. QED  BY <2>3, Zenon DEF ConcatUpTo
  <2>6. g = ConcatUpTo(g, seqs, n + 1)
    BY <2>4, <2>5, Zenon
  <2> HIDE DEF g
  <2>7. QED  BY <2>6
<1> HIDE DEF S
<1>3. Nat \subseteq S
  BY <1>1, <1>2, NatSetInduction
<1>4. QED  BY <1>3 DEF S

LEMMA FlattenUnfolds ==
    ASSUME NEW seqs, Len(seqs) \in Nat \ {0}
    PROVE  \E f : f = ConcatUpTo(f, seqs, Len(seqs)) /\ FlattenSeq(seqs) = f[Len(seqs)]
<1>1. \E f : f = ConcatUpTo(f, seqs, Len(seqs))
  BY ConcatExists
<1> DEFINE f == CHOOSE g : g = [i \in 1 .. Len(seqs) |->
                                   IF i = 1 THEN seqs[i] ELSE g[i - 1] \o seqs[i]]
<1>2. f = ConcatUpTo(f, seqs, Len(seqs))
  BY <1>1, Zenon DEF ConcatUpTo
<1>3. FlattenSeq(seqs) = f[Len(seqs)]
  BY Zenon DEF FlattenSeq
<1>4. QED  BY <1>2, <1>3, Zenon

LEMMA ConcatElements ==
    ASSUME NEW S, NEW s \in Seq(S), NEW t \in Seq(S)
    PROVE  s \o t \in Seq(S) /\ ToSet(s \o t) = ToSet(s) \cup ToSet(t)
<1>1. /\ s \o t \in Seq(S)
      /\ DOMAIN s = 1 .. Len(s) /\ DOMAIN t = 1 .. Len(t)
      /\ DOMAIN (s \o t) = 1 .. Len(s) + Len(t)
      /\ Len(s) \in Nat /\ Len(t) \in Nat
      /\ \A i \in 1 .. Len(s) + Len(t) :
            (s \o t)[i] = IF i <= Len(s) THEN s[i] ELSE t[i - Len(s)]
  BY ConcatProperties, LenProperties
<1>2. \A i \in 1 .. Len(s) : (s \o t)[i] = s[i]
  BY <1>1
<1>3. \A i \in 1 .. Len(t) : (s \o t)[Len(s) + i] = t[i]
  BY <1>1
<1>4. \A i \in DOMAIN (s \o t) : (s \o t)[i] \in ToSet(s) \cup ToSet(t)
  BY <1>1 DEF ToSet
<1>5. \A i \in 1 .. Len(s) : i \in DOMAIN (s \o t)
  BY <1>1
<1>6. \A i \in 1 .. Len(t) : Len(s) + i \in DOMAIN (s \o t)
  BY <1>1
<1>7. ToSet(s \o t) \subseteq ToSet(s) \cup ToSet(t)
  BY <1>4 DEF ToSet
<1>8. ToSet(s) \subseteq ToSet(s \o t)
  BY <1>1, <1>2, <1>5 DEF ToSet
<1>9. ToSet(t) \subseteq ToSet(s \o t)
  <2>1. SUFFICES ASSUME NEW i \in DOMAIN t PROVE t[i] \in ToSet(s \o t)
    BY DEF ToSet
  <2>2. i \in 1 .. Len(t)
    BY <1>1
  <2>3. Len(s) + i \in DOMAIN (s \o t) /\ (s \o t)[Len(s) + i] = t[i]
    BY <1>3, <1>6, <2>2
  <2>4. QED  BY <2>3 DEF ToSet
<1>10. ToSet(s \o t) = ToSet(s) \cup ToSet(t)
  BY <1>7, <1>8, <1>9, Zenon
<1>11. QED  BY <1>1, <1>10

\* The elements of a flattened sequence are those of its sequences.
LEMMA FlattenElements ==
    ASSUME NEW S, NEW n \in Nat, NEW seqs \in [1 .. n -> Seq(S)]
    PROVE  /\ FlattenSeq(seqs) \in Seq(S)
           /\ ToSet(FlattenSeq(seqs)) = UNION {ToSet(seqs[i]) : i \in 1 .. n}
<1>1. Len(seqs) = n
  OBVIOUS
<1>2. CASE n = 0
  <2>1. seqs = <<>> /\ FlattenSeq(seqs) = seqs
    BY <1>1, <1>2 DEF FlattenSeq
  <2>2. <<>> \in Seq(S) /\ ToSet(<<>>) = {}
    <3>1. DOMAIN <<>> = {} /\ <<>> \in Seq(S)
      OBVIOUS
    <3>2. QED  BY <3>1 DEF ToSet
  <2>3. {ToSet(seqs[i]) : i \in 1 .. n} = {}
    BY <1>2
  <2>4. QED  BY <2>1, <2>2, <2>3
<1>3. CASE n # 0
  <2>1. PICK f : f = ConcatUpTo(f, seqs, n) /\ FlattenSeq(seqs) = f[n]
    BY <1>1, <1>3, FlattenUnfolds
  <2>2. \A i \in 1 .. n : f[i] = IF i = 1 THEN seqs[i] ELSE f[i - 1] \o seqs[i]
    BY <2>1 DEF ConcatUpTo
  <2> DEFINE Elements(k) == UNION {ToSet(seqs[i]) : i \in 1 .. k}
             T == {m \in Nat : m + 1 <= n => /\ f[m + 1] \in Seq(S)
                                             /\ ToSet(f[m + 1]) = Elements(m + 1)}
  <2>3. 0 \in T
    <3>1. f[1] = seqs[1] /\ seqs[1] \in Seq(S)
      BY <1>3, <2>2
    <3>2. Elements(1) = ToSet(seqs[1])
      <4>1. 1 .. 1 = {1}
        OBVIOUS
      <4>2. QED  BY <4>1
    <3>3. QED  BY <3>1, <3>2
  <2>4. ASSUME NEW m \in Nat, m \in T PROVE m + 1 \in T
    <3> HIDE DEF Elements
    <3> SUFFICES ASSUME (m + 1) + 1 <= n
                 PROVE  /\ f[(m + 1) + 1] \in Seq(S)
                        /\ ToSet(f[(m + 1) + 1]) = Elements((m + 1) + 1)
      OBVIOUS
    <3>0. (m + 1) + 1 = m + 2 /\ m + 2 \in 1 .. n /\ m + 2 # 1 /\ (m + 2) - 1 = m + 1
      OBVIOUS
    <3>1. f[m + 1] \in Seq(S) /\ ToSet(f[m + 1]) = Elements(m + 1)
      BY <2>4
    <3>2. f[m + 2] = f[m + 1] \o seqs[m + 2] /\ seqs[m + 2] \in Seq(S)
      BY <2>2, <3>0
    <3>3. f[m + 2] \in Seq(S) /\ ToSet(f[m + 2]) = ToSet(f[m + 1]) \cup ToSet(seqs[m + 2])
      BY <3>1, <3>2, ConcatElements
    <3>4. 1 .. m + 2 = (1 .. m + 1) \cup {m + 2}
      OBVIOUS
    <3>5. Elements(m + 2) = Elements(m + 1) \cup ToSet(seqs[m + 2])
      BY <3>4, Zenon DEF Elements
    <3>6. QED  BY <3>0, <3>1, <3>3, <3>5
  <2> HIDE DEF T
  <2>5. Nat \subseteq T
    BY <2>3, <2>4, NatSetInduction
  <2>6. n - 1 \in T /\ n - 1 \in Nat /\ (n - 1) + 1 = n
    BY <1>3, <2>5
  <2>7. QED
    <3> HIDE DEF Elements
    <3>1. f[n] \in Seq(S) /\ ToSet(f[n]) = Elements(n)
      BY <2>6 DEF T
    <3>2. QED  BY <2>1, <3>1 DEF Elements
<1>4. QED  BY <1>2, <1>3

LEMMA SingletonSequence ==
    ASSUME NEW S, NEW x \in S
    PROVE  <<x>> \in Seq(S) /\ ToSet(<<x>>) = {x}
<1>1. <<x>> \in Seq(S) /\ DOMAIN <<x>> = {1} /\ <<x>>[1] = x
  <2>1. <<x>> \in Seq(S) /\ Len(<<x>>) = 1 /\ <<x>>[1] = x
    OBVIOUS
  <2>2. DOMAIN <<x>> = 1 .. 1 /\ 1 .. 1 = {1}
    BY <2>1
  <2>3. QED  BY <2>1, <2>2
<1>2. QED  BY <1>1 DEF ToSet

LEMMA EmptySequence ==
    ASSUME NEW S
    PROVE  <<>> \in Seq(S) /\ ToSet(<<>>) = {}
<1>1. <<>> \in Seq(S) /\ DOMAIN <<>> = {}
  OBVIOUS
<1>2. QED  BY <1>1 DEF ToSet

-----------------------------------------------------------------------------
(* Findings: what they are, and of which severities.                       *)

Finding(codes) == [severity : Severity, code : codes, subject : Subjects]

Raises(entries, severity) == \E v \in ToSet(entries) : v.severity = severity

LEMMA ViolationRaises ==
    ASSUME NEW codes, NEW severity \in Severity, NEW code \in codes, NEW subject \in Subjects
    PROVE  /\ Violation(severity, code, subject) \in Seq(Finding(codes))
           /\ \A x : Raises(Violation(severity, code, subject), x) <=> x = severity
<1> DEFINE v == [severity |-> severity, code |-> code, subject |-> subject]
<1>1. v \in Finding(codes) /\ v.severity = severity
  BY DEF Finding
<1>2. Violation(severity, code, subject) = <<v>>
  BY DEF Violation
<1> HIDE DEF v
<1>3. <<v>> \in Seq(Finding(codes)) /\ ToSet(<<v>>) = {v}
  BY <1>1, SingletonSequence
<1>4. QED  BY <1>1, <1>2, <1>3 DEF Raises

LEMMA HardRaises ==
    ASSUME NEW codes, NEW code \in codes, NEW subject \in Subjects
    PROVE  /\ Hard(code, subject) \in Seq(Finding(codes))
           /\ \A x : Raises(Hard(code, subject), x) <=> x = "HARD"
BY ViolationRaises DEF Hard, Severity

LEMMA NothingRaises ==
    ASSUME NEW codes
    PROVE  <<>> \in Seq(Finding(codes)) /\ \A x : ~Raises(<<>>, x)
BY EmptySequence DEF Raises

LEMMA ConcatRaises ==
    ASSUME NEW codes, NEW s \in Seq(Finding(codes)), NEW t \in Seq(Finding(codes))
    PROVE  /\ s \o t \in Seq(Finding(codes))
           /\ \A x : Raises(s \o t, x) <=> Raises(s, x) \/ Raises(t, x)
BY ConcatElements DEF Raises

LEMMA FlattenRaises ==
    ASSUME NEW codes, NEW n \in Nat, NEW seqs \in [1 .. n -> Seq(Finding(codes))]
    PROVE  /\ FlattenSeq(seqs) \in Seq(Finding(codes))
           /\ \A x : Raises(FlattenSeq(seqs), x) <=> \E i \in 1 .. n : Raises(seqs[i], x)
BY FlattenElements DEF Raises

LEMMA RepeatRaises ==
    ASSUME NEW codes, NEW n \in Nat, NEW entry \in Seq(Finding(codes))
    PROVE  /\ Repeat(n, entry) \in Seq(Finding(codes))
           /\ \A x : Raises(Repeat(n, entry), x) <=> n # 0 /\ Raises(entry, x)
<1> DEFINE seqs == [i \in 1 .. n |-> entry]
<1>1. seqs \in [1 .. n -> Seq(Finding(codes))] /\ \A i \in 1 .. n : seqs[i] = entry
  OBVIOUS
<1>2. Repeat(n, entry) = FlattenSeq(seqs)
  BY DEF Repeat
<1> HIDE DEF seqs
<1>3. /\ FlattenSeq(seqs) \in Seq(Finding(codes))
      /\ \A x : Raises(FlattenSeq(seqs), x) <=> \E i \in 1 .. n : Raises(seqs[i], x)
  BY <1>1, FlattenRaises
<1>4. n # 0 <=> \E i \in 1 .. n : TRUE
  <2>1. n # 0 => 1 \in 1 .. n
    OBVIOUS
  <2>2. QED  BY <2>1
<1>5. QED  BY <1>1, <1>2, <1>3, <1>4

-----------------------------------------------------------------------------
(* Sorting.                                                                *)

Earlier(r, i, j) == r[i] < r[j] \/ (r[i] = r[j] /\ i < j)

SortedUpTo(r, p, n) ==
    /\ p \in [1 .. n -> 1 .. n]
    /\ \A i, j \in 1 .. n : i < j => Earlier(r, p[i], p[j])
    /\ \A k \in 1 .. n : \E i \in 1 .. n : p[i] = k

\* One more position goes before the first of a larger rank.
LEMMA InsertSorted ==
    ASSUME NEW n \in Nat, NEW r \in [1 .. n + 1 -> Nat], NEW p, SortedUpTo(r, p, n)
    PROVE  \E q : SortedUpTo(r, q, n + 1)
<1> DEFINE L == {k \in 1 .. n + 1 : k = n + 1 \/ r[n + 1] < r[p[k]]}
<1>1. L \in SUBSET Nat /\ n + 1 \in L
  OBVIOUS
<1>2. PICK k \in L : \A m \in L : k <= m
  BY <1>1, LeastNumber, Zenon
<1> DEFINE q == [i \in 1 .. n + 1 |-> IF i < k THEN p[i] ELSE IF i = k THEN n + 1 ELSE p[i - 1]]
<1>3. k \in 1 .. n + 1 /\ \A i \in 1 .. n : i < k => ~ (r[n + 1] < r[p[i]])
  BY <1>2
<1>4. \A i \in 1 .. n : p[i] \in 1 .. n /\ r[p[i]] \in Nat
  <2>1. \A i \in 1 .. n : p[i] \in 1 .. n
    BY DEF SortedUpTo
  <2>2. 1 .. n \subseteq 1 .. n + 1
    OBVIOUS
  <2>3. QED  BY <2>1, <2>2
<1>5. \A i \in 1 .. n : i < k => r[p[i]] <= r[n + 1] /\ Earlier(r, p[i], n + 1)
  BY <1>3, <1>4 DEF Earlier
<1>6. ASSUME k # n + 1
      PROVE  \A i \in 1 .. n : i >= k => r[n + 1] < r[p[i]]
  <2>1. r[n + 1] < r[p[k]] /\ k \in 1 .. n
    BY <1>2, <1>6
  <2>2. ASSUME NEW i \in 1 .. n, i > k PROVE r[p[k]] <= r[p[i]]
    <3>1. Earlier(r, p[k], p[i])
      BY <2>1, <2>2 DEF SortedUpTo
    <3>2. QED  BY <1>4, <2>1, <3>1 DEF Earlier
  <2>3. ASSUME NEW i \in 1 .. n, i >= k PROVE r[n + 1] < r[p[i]]
    <3>1. CASE i = k
      BY <2>1, <3>1
    <3>2. CASE i > k
      <4>1. r[n + 1] \in Nat /\ r[p[k]] \in Nat /\ r[p[i]] \in Nat
        BY <1>4, <2>1
      <4>2. r[n + 1] < r[p[k]] /\ r[p[k]] <= r[p[i]]
        BY <2>1, <2>2, <3>2
      <4> HIDE DEF L, q
      <4>3. QED  BY <4>1, <4>2
    <3>3. QED  BY <1>2, <2>3, <3>1, <3>2
  <2>4. QED  BY <2>3
<1>7. \A i \in 1 .. n : i >= k => Earlier(r, n + 1, p[i])
  BY <1>3, <1>6 DEF Earlier
<1>8. q \in [1 .. n + 1 -> 1 .. n + 1]
  BY <1>3, <1>4
<1>9. \A i \in 1 .. n + 1 : q[i] = IF i < k THEN p[i] ELSE IF i = k THEN n + 1 ELSE p[i - 1]
  OBVIOUS
<1> HIDE DEF q, L
<1>10. ASSUME NEW i \in 1 .. n + 1, NEW j \in 1 .. n + 1, i < j
       PROVE  Earlier(r, q[i], q[j])
  <2>1. CASE j < k
    <3>1. i \in 1 .. n /\ j \in 1 .. n /\ i < k /\ q[i] = p[i] /\ q[j] = p[j]
      BY <1>3, <1>9, <1>10, <2>1
    <3>2. QED  BY <1>10, <3>1 DEF SortedUpTo
  <2>2. CASE j = k
    <3>1. i \in 1 .. n /\ i < k /\ q[i] = p[i] /\ q[j] = n + 1
      BY <1>3, <1>9, <1>10, <2>2
    <3>2. QED  BY <1>5, <3>1
  <2>3. CASE j > k /\ i < k
    <3>1. /\ i \in 1 .. n /\ j - 1 \in 1 .. n /\ i < j - 1
          /\ q[i] = p[i] /\ q[j] = p[j - 1]
      BY <1>3, <1>9, <1>10, <2>3
    <3>2. QED  BY <3>1 DEF SortedUpTo
  <2>4. CASE j > k /\ i = k
    <3>1. j - 1 \in 1 .. n /\ j - 1 >= k /\ q[i] = n + 1 /\ q[j] = p[j - 1]
      BY <1>3, <1>9, <1>10, <2>4
    <3>2. QED  BY <1>7, <3>1
  <2>5. CASE j > k /\ i > k
    <3>1. /\ i - 1 \in 1 .. n /\ j - 1 \in 1 .. n /\ i - 1 < j - 1
          /\ q[i] = p[i - 1] /\ q[j] = p[j - 1]
      BY <1>3, <1>9, <1>10, <2>5
    <3>2. QED  BY <3>1 DEF SortedUpTo
  <2>6. QED  BY <1>3, <2>1, <2>2, <2>3, <2>4, <2>5
<1>11. ASSUME NEW m \in 1 .. n + 1 PROVE \E i \in 1 .. n + 1 : q[i] = m
  <2>1. CASE m = n + 1
    BY <1>3, <1>9, <2>1
  <2>2. CASE m # n + 1
    <3>1. PICK i \in 1 .. n : p[i] = m
      BY <2>2 DEF SortedUpTo
    <3>2. IF i < k THEN q[i] = m ELSE q[i + 1] = m
      BY <1>3, <1>9, <3>1
    <3>3. QED  BY <3>1, <3>2
  <2>3. QED  BY <2>1, <2>2
<1>12. QED  BY <1>8, <1>10, <1>11 DEF SortedUpTo

LEMMA CanBeSorted ==
    ASSUME NEW n \in Nat, NEW r \in [1 .. n -> Nat]
    PROVE  \E p \in Bijection(1 .. n, 1 .. n) :
              \A i, j \in 1 .. n : i < j => Earlier(r, p[i], p[j])
<1> DEFINE T == {m \in Nat : m <= n => \E p : SortedUpTo(r, p, m)}
<1>1. 0 \in T
  <2>1. SortedUpTo(r, <<>>, 0)
    BY DEF SortedUpTo
  <2>2. QED  BY <2>1
<1>2. ASSUME NEW m \in Nat, m \in T PROVE m + 1 \in T
  <2> SUFFICES ASSUME m + 1 <= n PROVE \E p : SortedUpTo(r, p, m + 1)
    OBVIOUS
  <2>1. PICK p : SortedUpTo(r, p, m)
    BY <1>2
  <2> DEFINE u == [i \in 1 .. m + 1 |-> r[i]]
  <2>2. u \in [1 .. m + 1 -> Nat] /\ \A i \in 1 .. m + 1 : u[i] = r[i]
    OBVIOUS
  <2> HIDE DEF u
  <2>3. SortedUpTo(u, p, m)
    <3>1. \A i \in 1 .. m : p[i] \in 1 .. m
      BY <2>1 DEF SortedUpTo
    <3>2. \A i \in 1 .. m : u[p[i]] = r[p[i]]
      BY <2>2, <3>1
    <3>3. \A i, j \in 1 .. m : Earlier(u, p[i], p[j]) <=> Earlier(r, p[i], p[j])
      BY <3>2 DEF Earlier
    <3>4. QED  BY <2>1, <3>3 DEF SortedUpTo
  <2>4. PICK q : SortedUpTo(u, q, m + 1)
    BY <2>2, <2>3, InsertSorted
  <2>5. \A i \in 1 .. m + 1 : q[i] \in 1 .. m + 1
    BY <2>4 DEF SortedUpTo
  <2>6. \A i, j \in 1 .. m + 1 : Earlier(u, q[i], q[j]) => Earlier(r, q[i], q[j])
    BY <2>2, <2>5 DEF Earlier
  <2>7. SortedUpTo(r, q, m + 1)
    BY <2>4, <2>6 DEF SortedUpTo
  <2>8. QED  BY <2>7
<1> HIDE DEF T
<1>3. n \in T
  BY <1>1, <1>2, NatSetInduction
<1>4. PICK p : SortedUpTo(r, p, n)
  BY <1>3 DEF T
<1>5. p \in [1 .. n -> 1 .. n] /\ \A k \in 1 .. n : \E i \in 1 .. n : p[i] = k
  BY <1>4 DEF SortedUpTo
<1>6. ASSUME NEW i \in 1 .. n, NEW j \in 1 .. n, p[i] = p[j] PROVE i = j
  <2>0. p[i] \in 1 .. n /\ r[p[i]] \in Nat
    BY <1>5
  <2>1. ~Earlier(r, p[i], p[j]) /\ ~Earlier(r, p[j], p[i])
    BY <1>6, <2>0 DEF Earlier
  <2>2. QED  BY <1>4, <2>1 DEF SortedUpTo
<1>7. p \in Bijection(1 .. n, 1 .. n)
  BY <1>5, <1>6 DEF Bijection, Injection, Surjection, IsInjective
<1>8. QED  BY <1>4, <1>7 DEF SortedUpTo

\* What is sorted loses nothing and gains nothing.
LEMMA InOrderElements ==
    ASSUME NEW S, NEW s \in Seq(S), \A v \in S : v.rank \in Nat
    PROVE  InOrder(s) \in Seq(S) /\ Len(InOrder(s)) = Len(s) /\ ToSet(InOrder(s)) = ToSet(s)
<1>1. Len(s) \in Nat /\ DOMAIN s = 1 .. Len(s) /\ \A i \in 1 .. Len(s) : s[i] \in S
  OBVIOUS
<1> DEFINE n == Len(s)
           r == [i \in 1 .. n |-> s[i].rank]
           Before(i, j) == \/ s[i].rank < s[j].rank
                           \/ s[i].rank = s[j].rank /\ i < j
           order == CHOOSE p \in Bijection(DOMAIN s, DOMAIN s) :
                        \A i, j \in DOMAIN s : i < j => Before(p[i], p[j])
<1>2. r \in [1 .. n -> Nat] /\ \A i, j \in 1 .. n : Earlier(r, i, j) <=> Before(i, j)
  BY <1>1 DEF Earlier
<1>3. \E p \in Bijection(DOMAIN s, DOMAIN s) : \A i, j \in DOMAIN s : i < j => Before(p[i], p[j])
  <2> HIDE DEF r, Before
  <2>1. PICK p \in Bijection(1 .. n, 1 .. n) : \A i, j \in 1 .. n : i < j => Earlier(r, p[i], p[j])
    BY <1>1, <1>2, CanBeSorted
  <2>2. \A i \in 1 .. n : p[i] \in 1 .. n
    BY <2>1 DEF Bijection, Injection
  <2>3. QED  BY <1>1, <1>2, <2>1, <2>2
<1>4. order \in Bijection(1 .. n, 1 .. n)
  <2> HIDE DEF Before
  <2>1. QED  BY <1>1, <1>3
<1>5. InOrder(s) = [i \in DOMAIN s |-> s[order[i]]]
  BY Zenon DEF InOrder
<1> HIDE DEF order
<1>6. /\ \A i \in 1 .. n : order[i] \in 1 .. n
      /\ \A k \in 1 .. n : \E i \in 1 .. n : order[i] = k
  BY <1>4 DEF Bijection, Surjection
<1>7. DOMAIN InOrder(s) = 1 .. n /\ \A i \in 1 .. n : InOrder(s)[i] = s[order[i]]
  BY <1>1, <1>5
<1>8. InOrder(s) \in Seq(S) /\ Len(InOrder(s)) = n
  BY <1>1, <1>5, <1>6
<1>9. ToSet(InOrder(s)) = ToSet(s)
  <2>1. ToSet(InOrder(s)) = {s[order[i]] : i \in 1 .. n}
    BY <1>7 DEF ToSet
  <2>2. ToSet(s) = {s[i] : i \in 1 .. n}
    BY <1>1 DEF ToSet
  <2>3. \A k \in 1 .. n : s[k] \in {s[order[i]] : i \in 1 .. n}
    BY <1>6
  <2>4. \A i \in 1 .. n : s[order[i]] \in {s[k] : k \in 1 .. n}
    BY <1>6
  <2>5. QED  BY <2>1, <2>2, <2>3, <2>4
<1>10. QED  BY <1>8, <1>9

-----------------------------------------------------------------------------
(* The path, and the rules in terms of the two sides they come from.       *)

LEMMA PathFacts ==
    ASSUME InputOK
    PROVE  /\ Len(input.hops) \in Nat /\ Hops = 1 .. Len(input.hops)
           /\ \A i \in Hops : /\ input.hops[i].ref \in Element
                              /\ input.hops[i].ref \in Subjects
                              /\ input.hops[i].generation \in Nat
                              /\ input.hops[i].layer \in Layer
           /\ PathElements \subseteq Element /\ IsFiniteSet(PathElements)
<1>1. input.hops \in Seq([ref : Element, generation : Nat, layer : Layer])
  BY DEF InputOK
<1>2. /\ Len(input.hops) \in Nat /\ Hops = 1 .. Len(input.hops)
      /\ \A i \in Hops : input.hops[i] \in [ref : Element, generation : Nat, layer : Layer]
  <2>1. /\ Len(input.hops) \in Nat /\ DOMAIN input.hops = 1 .. Len(input.hops)
        /\ \A i \in 1 .. Len(input.hops) :
              input.hops[i] \in [ref : Element, generation : Nat, layer : Layer]
    BY <1>1, LenProperties, ElementOfSeq
  <2>2. QED  BY <2>1 DEF Hops
<1>3. PathElements \subseteq Element
  BY <1>2 DEF PathElements
<1>4. Element \subseteq Subjects
  BY DEF Subjects
<1>5. QED  BY <1>2, <1>3, <1>4, EvaluationAssumption, FS_Subset

\* A check of each hop: what it says of hop after hop.
LEMMA OnHopsRaises ==
    ASSUME InputOK, NEW codes, NEW said \in [Hops -> Seq(Finding(codes))]
    PROVE  /\ FlattenSeq(said) \in Seq(Finding(codes))
           /\ \A x : Raises(FlattenSeq(said), x) <=> \E i \in Hops : Raises(said[i], x)
BY PathFacts, FlattenRaises

RequirementEntry ==
    [rank : Nat, subject : DOMAIN input.record,
     expression : Requirements(input.limits.max_requirement_depth),
     fail_closed_on_unknown : BOOLEAN]

DomainConstraint ==
    [rank : Nat, kind : ToSet(FailureDomainConstraintKinds),
     domain : DOMAIN input.domain_class, domain_class : ToSet(DomainClassKinds),
     max_members : Nat, peer : DOMAIN input.peers,
     diversity_classes : Seq(ToSet(DomainClassKinds))]

LEMMA SideFacts ==
    ASSUME InputOK
    PROVE  /\ SideOK(input.constraints) /\ SideOK(input.policy)
           /\ input.constraints.allowed_layers \subseteq Layer
           /\ input.policy.forbidden_layers \subseteq Layer
           /\ input.constraints.failure_domains \in Seq(DomainConstraint)
           /\ input.constraints.capabilities \in Seq(RequirementEntry)
           /\ input.policy.required_capabilities \in Seq(RequirementEntry)
           /\ input.policy.forbidden_domain_classes \subseteq ToSet(DomainClassKinds)
           /\ input.policy.allow_conditional_authorization \in BOOLEAN
           /\ input.policy.allow_unknown_link_state \in BOOLEAN
           /\ input.limits.max_hops \in Nat
BY Zenon DEF InputOK, ConstraintsOK, PolicyOK, RequirementsOK, RequirementEntry, DomainConstraint

LEMMA RulesUnfold ==
    /\ rules.link_state = CombinedLinkState(input.constraints, input.policy)
    /\ rules.port_admin = CombinedPortAdmin(input.constraints, input.policy)
    /\ rules.allowed_layers = CombinedLayers(input.constraints, input.policy)
    /\ rules.allow_loops = (input.constraints.allow_loops /\ input.policy.allow_loops)
    /\ rules.max_hops = CombinedMaxHops(input.constraints, input.policy, input.limits.max_hops)
    /\ rules.allow_conditional_authorization = input.policy.allow_conditional_authorization
    /\ rules.capabilities =
          InOrder(input.policy.required_capabilities \o input.constraints.capabilities)
    /\ rules.failure_domains = InOrder(input.constraints.failure_domains)
    /\ rules.forbidden_domain_classes =
          FlattenSeq([i \in DOMAIN DomainClassKinds |->
                         IF DomainClassKinds[i] \in input.policy.forbidden_domain_classes
                         THEN <<DomainClassKinds[i]>> ELSE <<>>])
BY DEF rules, combine_rules

LEMMA CombinedCapabilities ==
    ASSUME InputOK
    PROVE  /\ rules.capabilities \in Seq(RequirementEntry)
           /\ ToSet(rules.capabilities) =
                 ToSet(input.constraints.capabilities) \cup ToSet(input.policy.required_capabilities)
<1>1. \A r \in RequirementEntry : r.rank \in Nat
  BY DEF RequirementEntry
<1> DEFINE all == input.policy.required_capabilities \o input.constraints.capabilities
<1>2. /\ all \in Seq(RequirementEntry)
      /\ ToSet(all) = ToSet(input.policy.required_capabilities)
                          \cup ToSet(input.constraints.capabilities)
  BY SideFacts, ConcatElements
<1>3. rules.capabilities = InOrder(all)
  BY RulesUnfold
<1> HIDE DEF all
<1>4. QED  BY <1>1, <1>2, <1>3, InOrderElements

LEMMA CombinedFailureDomains ==
    ASSUME InputOK
    PROVE  /\ rules.failure_domains \in Seq(DomainConstraint)
           /\ ToSet(rules.failure_domains) = ToSet(input.constraints.failure_domains)
           /\ rules.failure_domains = <<>> <=> input.constraints.failure_domains = <<>>
<1>1. \A c \in DomainConstraint : c.rank \in Nat
  BY DEF DomainConstraint
<1>2. /\ rules.failure_domains \in Seq(DomainConstraint)
      /\ Len(rules.failure_domains) = Len(input.constraints.failure_domains)
      /\ ToSet(rules.failure_domains) = ToSet(input.constraints.failure_domains)
  BY <1>1, SideFacts, RulesUnfold, InOrderElements
<1>3. input.constraints.failure_domains \in Seq(DomainConstraint)
  BY SideFacts
<1>4. \A s \in Seq(DomainConstraint) : s = <<>> <=> Len(s) = 0
  BY EmptySeq
<1>5. QED  BY <1>2, <1>3, <1>4

LEMMA ClassKinds ==
    /\ DOMAIN DomainClassKinds = 1 .. 10
    /\ \A i \in 1 .. 10 : DomainClassKinds[i] \in ToSet(DomainClassKinds)
    /\ ToSet(DomainClassKinds) = {DomainClassKinds[i] : i \in 1 .. 10}
<1>1. DOMAIN DomainClassKinds = 1 .. 10
  BY DEF DomainClassKinds
<1>2. QED  BY <1>1 DEF ToSet

LEMMA CombinedForbiddenClasses ==
    ASSUME InputOK
    PROVE  /\ rules.forbidden_domain_classes \in Seq(ToSet(DomainClassKinds))
           /\ ToSet(rules.forbidden_domain_classes) = input.policy.forbidden_domain_classes
           /\ rules.forbidden_domain_classes = <<>> <=> input.policy.forbidden_domain_classes = {}
<1> DEFINE forbidden == input.policy.forbidden_domain_classes
           seqs == [i \in 1 .. 10 |-> IF DomainClassKinds[i] \in forbidden
                                      THEN <<DomainClassKinds[i]>> ELSE <<>>]
<1>1. \A i \in 1 .. 10 : DomainClassKinds[i] \in ToSet(DomainClassKinds)
  BY ClassKinds
<1>2. \A i \in 1 .. 10 : /\ seqs[i] \in Seq(ToSet(DomainClassKinds))
                         /\ ToSet(seqs[i]) = {DomainClassKinds[i]} \cap forbidden
  <2> HIDE DEF forbidden
  <2> TAKE i \in 1 .. 10
  <2>1. CASE DomainClassKinds[i] \in forbidden
    BY <1>1, <2>1, SingletonSequence
  <2>2. CASE DomainClassKinds[i] \notin forbidden
    BY <2>2, EmptySequence
  <2>3. QED  BY <2>1, <2>2
<1>3. seqs \in [1 .. 10 -> Seq(ToSet(DomainClassKinds))]
  <2> DEFINE e == [i \in 1 .. 10 |-> seqs[i]]
  <2>1. seqs = e
    BY Zenon
  <2>2. e \in [1 .. 10 -> Seq(ToSet(DomainClassKinds))]
    <3> HIDE DEF seqs
    <3>1. QED  BY <1>2
  <2>3. QED  BY <2>1, <2>2
<1>4. rules.forbidden_domain_classes = FlattenSeq(seqs)
  BY RulesUnfold, ClassKinds
<1> HIDE DEF seqs
<1>5. /\ FlattenSeq(seqs) \in Seq(ToSet(DomainClassKinds))
      /\ ToSet(FlattenSeq(seqs)) = UNION {ToSet(seqs[i]) : i \in 1 .. 10}
  <2> DEFINE names == ToSet(DomainClassKinds)
  <2> HIDE DEF names
  <2>1. ASSUME seqs \in [1 .. 10 -> Seq(names)]
        PROVE  /\ FlattenSeq(seqs) \in Seq(names)
               /\ ToSet(FlattenSeq(seqs)) = UNION {ToSet(seqs[i]) : i \in 1 .. 10}
    BY <2>1, FlattenElements
  <2>2. QED  BY <1>3, <2>1, Zenon DEF names
<1>6. forbidden \subseteq {DomainClassKinds[i] : i \in 1 .. 10}
  BY SideFacts, ClassKinds
<1> HIDE DEF forbidden
<1>7. UNION {ToSet(seqs[i]) : i \in 1 .. 10} = forbidden
  <2>1. ASSUME NEW x \in forbidden PROVE \E i \in 1 .. 10 : x \in ToSet(seqs[i])
    <3>1. PICK i \in 1 .. 10 : x = DomainClassKinds[i]
      BY <1>6
    <3>2. QED  BY <1>2, <2>1, <3>1
  <2>2. ASSUME NEW i \in 1 .. 10, NEW x \in ToSet(seqs[i]) PROVE x \in forbidden
    BY <1>2, <2>2
  <2>3. QED  BY <2>1, <2>2
<1>8. \A s \in Seq(ToSet(DomainClassKinds)) : s = <<>> <=> ToSet(s) = {}
  <2> TAKE s \in Seq(ToSet(DomainClassKinds))
  <2>1. s # <<>> => 1 \in DOMAIN s
    BY EmptySeq, LenProperties
  <2>2. ToSet(<<>>) = {}
    BY EmptySequence
  <2>3. QED  BY <2>1, <2>2 DEF ToSet
<1>9. QED  BY <1>4, <1>5, <1>7, <1>8 DEF forbidden

LEMMA CombinedHopBound ==
    ASSUME InputOK, Len(input.hops) <= input.limits.max_hops
    PROVE  /\ rules.max_hops \in Nat
           /\ Len(input.hops) <= rules.max_hops <=>
                 WithinBound(input.constraints.max_hops) /\ WithinBound(input.policy.max_hops)
<1> DEFINE c == input.constraints.max_hops
           p == input.policy.max_hops
           m == input.limits.max_hops
           S == {m} \cup ({c, p} \ {0})
<1>1. c \in Nat /\ p \in Nat /\ m \in Nat /\ Len(input.hops) \in Nat
  BY SideFacts, PathFacts DEF SideOK
<1>2. rules.max_hops = Min(S)
  BY RulesUnfold DEF CombinedMaxHops
<1>3. S \in SUBSET Nat /\ S # {}
  BY <1>1
<1>4. Min(S) \in S /\ \A k \in S : Min(S) <= k
  <2> HIDE DEF S
  <2>1. QED  BY <1>3, MinIsLeast
<1>5. Min(S) \in Nat /\ (Min(S) = m \/ (Min(S) = c /\ c # 0) \/ (Min(S) = p /\ p # 0))
  BY <1>3, <1>4
<1>6. Min(S) <= m /\ (c # 0 => Min(S) <= c) /\ (p # 0 => Min(S) <= p)
  BY <1>4
<1> HIDE DEF S
<1>7. QED  BY <1>1, <1>2, <1>5, <1>6 DEF WithinBound

LEMMA CombinedLayersPermit ==
    ASSUME InputOK, NEW layer \in Layer
    PROVE  allows(rules, layer) <=> NoLayerLeft \/ LayerPermitted(layer)
<1>1. \A l \in Layer : l \in rules.allowed_layers <=> LayerPermitted(l)
  BY RulesUnfold, SideFacts DEF CombinedLayers, LayerPermitted
<1>2. rules.allowed_layers \subseteq Layer
  BY RulesUnfold, SideFacts DEF CombinedLayers
<1>3. rules.allowed_layers = {} <=> NoLayerLeft
  BY <1>1, <1>2 DEF NoLayerLeft
<1>4. QED  BY <1>1, <1>3 DEF allows

LEMMA CombinedAcceptances ==
    /\ rules.link_state.allow_degraded = BothAllow("link_state", "allow_degraded")
    /\ rules.link_state.allow_unknown =
          (BothAllow("link_state", "allow_unknown") /\ input.policy.allow_unknown_link_state)
    /\ rules.link_state.degraded_is_conditional =
          (\/ input.constraints.link_state.degraded_is_conditional
           \/ input.policy.link_state.degraded_is_conditional)
    /\ rules.link_state.unknown_is_conditional =
          (\/ input.constraints.link_state.unknown_is_conditional
           \/ input.policy.link_state.unknown_is_conditional)
    /\ rules.port_admin["allow_draining_existing"] =
          BothAllow("port_admin", "allow_draining_existing")
    /\ rules.port_admin["allow_maintenance_existing"] =
          BothAllow("port_admin", "allow_maintenance_existing")
<1>1. /\ rules.link_state = CombinedLinkState(input.constraints, input.policy)
      /\ rules.port_admin = CombinedPortAdmin(input.constraints, input.policy)
  BY RulesUnfold
<1>2. rules.link_state.allow_degraded = BothAllow("link_state", "allow_degraded")
  BY <1>1 DEF CombinedLinkState, BothAllow
<1>3. rules.link_state.allow_unknown =
          (BothAllow("link_state", "allow_unknown") /\ input.policy.allow_unknown_link_state)
  <2>1. rules.link_state.allow_unknown = (/\ input.constraints.link_state.allow_unknown
                                          /\ input.policy.link_state.allow_unknown
                                          /\ input.policy.allow_unknown_link_state)
    BY <1>1 DEF CombinedLinkState
  <2>2. BothAllow("link_state", "allow_unknown") =
            (/\ input.constraints.link_state.allow_unknown
             /\ input.policy.link_state.allow_unknown)
    BY DEF BothAllow
  <2>3. QED  BY <2>1, <2>2
<1>4. /\ rules.link_state.degraded_is_conditional =
            (\/ input.constraints.link_state.degraded_is_conditional
             \/ input.policy.link_state.degraded_is_conditional)
      /\ rules.link_state.unknown_is_conditional =
            (\/ input.constraints.link_state.unknown_is_conditional
             \/ input.policy.link_state.unknown_is_conditional)
  BY <1>1 DEF CombinedLinkState
<1>5. /\ rules.port_admin["allow_draining_existing"] =
            BothAllow("port_admin", "allow_draining_existing")
      /\ rules.port_admin["allow_maintenance_existing"] =
            BothAllow("port_admin", "allow_maintenance_existing")
  BY <1>1 DEF CombinedPortAdmin, BothAllow
<1>6. QED  BY <1>2, <1>3, <1>4, <1>5

-----------------------------------------------------------------------------
(* Each stage, by itself, is hard exactly where something speaks against   *)
(* the path: StructureDecides ... PolicyDecides.                           *)

LEMMA StageCodes ==
    /\ {"STRUCTURALLY_INVALID", "STALE_TOPOLOGY"} \subseteq Codes["STRUCTURAL_TOPOLOGY"]
    /\ "REVALIDATION_REQUIRED" \in Codes["BOUND_INPUT_CURRENTNESS"]
    /\ {"PORT_ADMIN_DISABLED", "PORT_REVALIDATION_REQUIRED"} \subseteq Codes["PORT_ADMINISTRATIVE"]
    /\ {"LINK_DOWN", "LINK_DEGRADED", "LINK_STATE_UNKNOWN", "REVALIDATION_REQUIRED"}
          \subseteq Codes["LINK_STATE"]
    /\ {"CAPABILITY_MISSING", "CAPABILITY_UNKNOWN"} \subseteq Codes["CAPABILITY"]
    /\ {"FAILURE_DOMAIN_VIOLATION", "FAILURE_DOMAIN_COVERAGE_UNKNOWN"}
          \subseteq Codes["FAILURE_DOMAIN"]
    /\ {"POLICY_REJECTED", "FAILURE_DOMAIN_COVERAGE_UNKNOWN"} \subseteq Codes["POLICY"]
BY DEF Codes

LEMMA ElementDecides ==
    ASSUME InputOK, NEW i \in Hops
    PROVE  LET said   == CheckElement(input.hops[i])
               record == input.structure[input.hops[i].ref]
           IN  /\ said \in Seq(Finding(Codes["STRUCTURAL_TOPOLOGY"]))
               /\ Raises(said, "HARD") <=>
                     ~ (record.status = "current" /\ record.generation = input.hops[i].generation)
               /\ ~Raises(said, "CONDITION")
<1> DEFINE hop == input.hops[i]
           record == input.structure[hop.ref]
           codes == Codes["STRUCTURAL_TOPOLOGY"]
<1>1. hop.ref \in Subjects
  BY PathFacts
<1>2. \A code \in {"STRUCTURALLY_INVALID", "STALE_TOPOLOGY"} :
          /\ Hard(code, hop.ref) \in Seq(Finding(codes))
          /\ \A x : Raises(Hard(code, hop.ref), x) <=> x = "HARD"
  BY <1>1, StageCodes, HardRaises
<1>3. CheckElement(hop) = IF record.status # "current" THEN Hard("STRUCTURALLY_INVALID", hop.ref)
                          ELSE IF record.generation # hop.generation
                          THEN Hard("STALE_TOPOLOGY", hop.ref)
                          ELSE <<>>
  BY DEF CheckElement
<1> HIDE DEF hop, record, codes
<1>4. /\ CheckElement(hop) \in Seq(Finding(codes))
      /\ Raises(CheckElement(hop), "HARD") <=>
            ~ (record.status = "current" /\ record.generation = hop.generation)
      /\ ~Raises(CheckElement(hop), "CONDITION")
  BY <1>2, <1>3, NothingRaises
<1>5. QED  BY <1>4 DEF hop, record, codes

LEMMA HopDecides ==
    ASSUME NEW from, NEW to
    PROVE  /\ check_hop(from, to) = "LEGAL" => Adjacent(from, to)
           /\ Adjacent(from, to) /\ input.structure[from.ref].status = "current"
                                 /\ input.structure[to.ref].status = "current"
                 => check_hop(from, to) = "LEGAL"
<1>1. {Kind[from.ref], Kind[to.ref]} # {"ENDPOINT"} <=>
          ~ (Kind[from.ref] = "ENDPOINT" /\ Kind[to.ref] = "ENDPOINT")
  OBVIOUS
<1>2. QED  BY <1>1 DEF check_hop, Adjacent

LEMMA AdjacencyDecides ==
    ASSUME InputOK, NEW i \in Hops
    PROVE  /\ CheckAdjacency(i) \in Seq(Finding(Codes["STRUCTURAL_TOPOLOGY"]))
           /\ Raises(CheckAdjacency(i), "HARD") <=>
                 i # 1 /\ check_hop(input.hops[i - 1], input.hops[i]) # "LEGAL"
           /\ ~Raises(CheckAdjacency(i), "CONDITION")
<1> DEFINE codes == Codes["STRUCTURAL_TOPOLOGY"]
           hard == Hard("STRUCTURALLY_INVALID", input.hops[i].ref)
<1>1. hard \in Seq(Finding(codes)) /\ \A x : Raises(hard, x) <=> x = "HARD"
  BY PathFacts, StageCodes, HardRaises
<1>2. CheckAdjacency(i) = IF i = 1 \/ check_hop(input.hops[i - 1], input.hops[i]) = "LEGAL"
                          THEN <<>> ELSE hard
  BY DEF CheckAdjacency
<1> HIDE DEF hard, codes
<1>3. QED  BY <1>1, <1>2, NothingRaises DEF codes

LEMMA StructureDecides ==
    ASSUME InputOK
    PROVE  /\ StructuralTopology \in Seq(Finding(Codes["STRUCTURAL_TOPOLOGY"]))
           /\ Raises(StructuralTopology, "HARD") <=> ~Proven("STRUCTURAL_TOPOLOGY")
           /\ ~Raises(StructuralTopology, "CONDITION")
<1> DEFINE codes == Codes["STRUCTURAL_TOPOLOGY"]
           elements == [i \in Hops |-> CheckElement(input.hops[i])]
           adjacencies == [i \in Hops |-> CheckAdjacency(i)]
           Matches(i) == LET record == input.structure[input.hops[i].ref] IN
                         record.status = "current" /\ record.generation = input.hops[i].generation
<1>1. \A i \in Hops : /\ elements[i] \in Seq(Finding(codes))
                      /\ Raises(elements[i], "HARD") <=> ~Matches(i)
                      /\ ~Raises(elements[i], "CONDITION")
  BY ElementDecides
<1>2. \A i \in Hops : /\ adjacencies[i] \in Seq(Finding(codes))
                      /\ Raises(adjacencies[i], "HARD") <=>
                            i # 1 /\ check_hop(input.hops[i - 1], input.hops[i]) # "LEGAL"
                      /\ ~Raises(adjacencies[i], "CONDITION")
  BY AdjacencyDecides
<1>3. elements \in [Hops -> Seq(Finding(codes))] /\ adjacencies \in [Hops -> Seq(Finding(codes))]
  BY <1>1, <1>2
<1>4. StructuralTopology = FlattenSeq(elements) \o FlattenSeq(adjacencies)
  BY DEF StructuralTopology, OnHops
<1>5. Proven("STRUCTURAL_TOPOLOGY") <=>
          /\ \A i \in Hops : Matches(i)
          /\ \A i \in Hops \ {1} : Adjacent(input.hops[i - 1], input.hops[i])
  BY DEF Proven
<1>6. ASSUME \A i \in Hops : Matches(i), NEW i \in Hops \ {1}
      PROVE  check_hop(input.hops[i - 1], input.hops[i]) = "LEGAL" <=>
                 Adjacent(input.hops[i - 1], input.hops[i])
  <2>1. i - 1 \in Hops
    BY PathFacts
  <2>2. QED  BY <1>6, <2>1, HopDecides
<1> HIDE DEF elements, adjacencies, codes, Matches
<1>7. /\ FlattenSeq(elements) \in Seq(Finding(codes))
      /\ \A x : Raises(FlattenSeq(elements), x) <=> \E i \in Hops : Raises(elements[i], x)
  BY <1>3, OnHopsRaises
<1>8. /\ FlattenSeq(adjacencies) \in Seq(Finding(codes))
      /\ \A x : Raises(FlattenSeq(adjacencies), x) <=> \E i \in Hops : Raises(adjacencies[i], x)
  BY <1>3, OnHopsRaises
<1>9. /\ StructuralTopology \in Seq(Finding(codes))
      /\ \A x : Raises(StructuralTopology, x) <=>
                   Raises(FlattenSeq(elements), x) \/ Raises(FlattenSeq(adjacencies), x)
  BY <1>4, <1>7, <1>8, ConcatRaises
<1>10. Raises(StructuralTopology, "HARD") <=>
           \/ \E i \in Hops : ~Matches(i)
           \/ \E i \in Hops \ {1} : check_hop(input.hops[i - 1], input.hops[i]) # "LEGAL"
  BY <1>1, <1>2, <1>7, <1>8, <1>9
<1>11. Raises(StructuralTopology, "HARD") <=> ~Proven("STRUCTURAL_TOPOLOGY")
  BY <1>5, <1>6, <1>10
<1>12. QED  BY <1>1, <1>2, <1>7, <1>8, <1>9, <1>11 DEF codes

LEMMA BindingDecides ==
    ASSUME InputOK
    PROVE  /\ BoundInputCurrentness \in Seq(Finding(Codes["BOUND_INPUT_CURRENTNESS"]))
           /\ Raises(BoundInputCurrentness, "HARD") <=> ~Proven("BOUND_INPUT_CURRENTNESS")
           /\ ~Raises(BoundInputCurrentness, "CONDITION")
<1> DEFINE codes == Codes["BOUND_INPUT_CURRENTNESS"]
           hard == Hard("REVALIDATION_REQUIRED", "underlying")
<1>1. hard \in Seq(Finding(codes)) /\ \A x : Raises(hard, x) <=> x = "HARD"
  <2>1. "underlying" \in Subjects
    BY DEF Subjects
  <2>2. QED  BY <2>1, StageCodes, HardRaises
<1>2. BoundInputCurrentness = IF Proven("BOUND_INPUT_CURRENTNESS") THEN <<>> ELSE hard
  BY DEF BoundInputCurrentness, Proven
<1> HIDE DEF hard, codes
<1>3. QED  BY <1>1, <1>2, NothingRaises DEF codes

PortAccepted(admin) == admin = "ACTIVE" \/ PortTolerated(admin)

LEMMA PortDecides ==
    ASSUME InputOK, NEW i \in Hops
    PROVE  LET said  == CheckPort(input.hops[i])
               admin == input.port[input.hops[i].ref]
               port  == Kind[input.hops[i].ref] = "PORT"
           IN  /\ said \in Seq(Finding(Codes["PORT_ADMINISTRATIVE"]))
               /\ Raises(said, "HARD") <=> port /\ ~PortAccepted(admin)
               /\ Raises(said, "CONDITION") <=> port /\ PortTolerated(admin)
<1> DEFINE hop == input.hops[i]
           admin == input.port[hop.ref]
           codes == Codes["PORT_ADMINISTRATIVE"]
<1>1. hop.ref \in Subjects /\ admin \in PortAdminState
  BY PathFacts DEF InputOK, ViewsOK
<1>2. ASSUME NEW code \in {"PORT_ADMIN_DISABLED", "PORT_REVALIDATION_REQUIRED"}
      PROVE  /\ Hard(code, hop.ref) \in Seq(Finding(codes))
             /\ \A x : Raises(Hard(code, hop.ref), x) <=> x = "HARD"
  BY <1>1, StageCodes, HardRaises
<1>3. ASSUME NEW allowance
      PROVE  LET said == OnlyExisting(allowance, hop)
                 kept == input.existing_authorized /\ rules.port_admin[allowance]
             IN  /\ said \in Seq(Finding(codes))
                 /\ Raises(said, "HARD") <=> ~kept
                 /\ Raises(said, "CONDITION") <=> kept
  <2> DEFINE kept == input.existing_authorized /\ rules.port_admin[allowance]
             severity == IF kept THEN "CONDITION" ELSE "HARD"
  <2>1. severity \in Severity /\ (severity = "HARD" <=> ~kept) /\ (severity = "CONDITION" <=> kept)
    BY DEF Severity
  <2>2. OnlyExisting(allowance, hop) = Violation(severity, "PORT_ADMIN_DISABLED", hop.ref)
    BY DEF OnlyExisting
  <2>3. "PORT_ADMIN_DISABLED" \in codes
    BY StageCodes
  <2> HIDE DEF severity, kept, codes, hop
  <2>4. /\ OnlyExisting(allowance, hop) \in Seq(Finding(codes))
        /\ \A x : Raises(OnlyExisting(allowance, hop), x) <=> x = severity
    BY <1>1, <2>1, <2>2, <2>3, ViolationRaises
  <2>5. QED  BY <2>1, <2>4 DEF kept
<1>4. CASE Kind[hop.ref] # "PORT"
  BY <1>4, NothingRaises DEF CheckPort
<1>5. CASE Kind[hop.ref] = "PORT"
  <2>1. CASE admin = "ACTIVE"
    <3>1. CheckPort(hop) = <<>>
      BY <1>5, <2>1 DEF CheckPort
    <3>2. QED  BY <2>1, <3>1, NothingRaises DEF PortAccepted, PortTolerated
  <2>2. CASE admin = "MAINTENANCE"
    <3>1. CheckPort(hop) = OnlyExisting("allow_maintenance_existing", hop)
      BY <1>5, <2>2 DEF CheckPort
    <3>2. PortTolerated(admin) <=>
              input.existing_authorized /\ rules.port_admin["allow_maintenance_existing"]
      BY <2>2, CombinedAcceptances DEF PortTolerated
    <3>3. QED  BY <1>3, <1>5, <2>2, <3>1, <3>2 DEF PortAccepted
  <2>3. CASE admin = "DRAINING"
    <3>1. CheckPort(hop) = OnlyExisting("allow_draining_existing", hop)
      BY <1>5, <2>3 DEF CheckPort
    <3>2. PortTolerated(admin) <=>
              input.existing_authorized /\ rules.port_admin["allow_draining_existing"]
      BY <2>3, CombinedAcceptances DEF PortTolerated
    <3>3. QED  BY <1>3, <1>5, <2>3, <3>1, <3>2 DEF PortAccepted
  <2>4. CASE admin \in {"ADMIN_DISABLED", "RETIRED", "SUPERSEDED"}
    <3>1. CheckPort(hop) = Hard("PORT_ADMIN_DISABLED", hop.ref)
      BY <1>5, <2>4 DEF CheckPort
    <3>2. QED  BY <1>2, <1>5, <2>4, <3>1 DEF PortAccepted, PortTolerated
  <2>5. CASE admin \in {"absent", "UNKNOWN", "REVALIDATION_REQUIRED"}
    <3>1. CheckPort(hop) = Hard("PORT_REVALIDATION_REQUIRED", hop.ref)
      BY <1>5, <2>5 DEF CheckPort
    <3>2. QED  BY <1>2, <1>5, <2>5, <3>1 DEF PortAccepted, PortTolerated
  <2>6. QED  BY <1>1, <2>1, <2>2, <2>3, <2>4, <2>5 DEF PortAdminState
<1>6. QED  BY <1>4, <1>5

LEMMA PortsDecide ==
    ASSUME InputOK
    PROVE  LET said == OnHops(CheckPort) IN
           /\ said \in Seq(Finding(Codes["PORT_ADMINISTRATIVE"]))
           /\ Raises(said, "HARD") <=> ~Proven("PORT_ADMINISTRATIVE")
           /\ Raises(said, "CONDITION") <=>
                 \E ref \in OfKind("PORT") : PortTolerated(input.port[ref])
<1> DEFINE codes == Codes["PORT_ADMINISTRATIVE"]
           said == [i \in Hops |-> CheckPort(input.hops[i])]
           Admin(i) == input.port[input.hops[i].ref]
           Port(i) == Kind[input.hops[i].ref] = "PORT"
<1>1. \A i \in Hops : /\ said[i] \in Seq(Finding(codes))
                      /\ Raises(said[i], "HARD") <=> Port(i) /\ ~PortAccepted(Admin(i))
                      /\ Raises(said[i], "CONDITION") <=> Port(i) /\ PortTolerated(Admin(i))
  BY PortDecides
<1>2. said \in [Hops -> Seq(Finding(codes))]
  BY <1>1
<1>3. OnHops(CheckPort) = FlattenSeq(said)
  BY DEF OnHops
<1>4. OfKind("PORT") = {input.hops[i].ref : i \in {j \in Hops : Port(j)}}
  BY DEF OfKind
<1>5. Proven("PORT_ADMINISTRATIVE") <=> \A ref \in OfKind("PORT") : PortAccepted(input.port[ref])
  BY DEF Proven, PortAccepted
<1> HIDE DEF said, codes
<1>6. /\ FlattenSeq(said) \in Seq(Finding(codes))
      /\ \A x : Raises(FlattenSeq(said), x) <=> \E i \in Hops : Raises(said[i], x)
  BY <1>2, OnHopsRaises
<1>7. Raises(FlattenSeq(said), "HARD") <=> ~Proven("PORT_ADMINISTRATIVE")
  BY <1>1, <1>4, <1>5, <1>6
<1>8. Raises(FlattenSeq(said), "CONDITION") <=>
          \E ref \in OfKind("PORT") : PortTolerated(input.port[ref])
  BY <1>1, <1>4, <1>6
<1>9. QED  BY <1>3, <1>6, <1>7, <1>8 DEF codes

LinkAccepted(state) == state = "UP" \/ LinkTolerated(state)

\* Accepted, on a condition.
LinkConditional(state) ==
    \/ state = "DEGRADED" /\ rules.link_state.degraded_is_conditional
    \/ state \in {"UNKNOWN", "absent"} /\ rules.link_state.unknown_is_conditional

LEMMA LinkDecides ==
    ASSUME InputOK, NEW i \in Hops
    PROVE  LET said  == CheckLink(input.hops[i])
               state == input.link[input.hops[i].ref]
               link  == Kind[input.hops[i].ref] = "LINK"
           IN  /\ said \in Seq(Finding(Codes["LINK_STATE"]))
               /\ Raises(said, "HARD") <=> link /\ ~LinkAccepted(state)
               /\ Raises(said, "CONDITION") <=>
                     link /\ LinkTolerated(state) /\ LinkConditional(state)
<1> DEFINE hop == input.hops[i]
           state == input.link[hop.ref]
           codes == Codes["LINK_STATE"]
           Accept(allowed, is_conditional, code) ==
               IF allowed THEN Tolerated(is_conditional, code, hop.ref) ELSE Hard(code, hop.ref)
<1>1. hop.ref \in Subjects /\ state \in LinkState
  BY PathFacts DEF InputOK, ViewsOK
<1>2. \A code \in codes : /\ Hard(code, hop.ref) \in Seq(Finding(codes))
                          /\ \A x : Raises(Hard(code, hop.ref), x) <=> x = "HARD"
  BY <1>1, HardRaises
<1>3. ASSUME NEW is_conditional, NEW code \in codes
      PROVE  LET said == Tolerated(is_conditional, code, hop.ref)
             IN  /\ said \in Seq(Finding(codes))
                 /\ ~Raises(said, "HARD")
                 /\ Raises(said, "CONDITION") <=> is_conditional
  <2> DEFINE severity == IF is_conditional THEN "CONDITION" ELSE "INFORMATIONAL"
  <2>1. severity \in Severity /\ severity # "HARD" /\ (severity = "CONDITION" <=> is_conditional)
    BY DEF Severity
  <2>2. Tolerated(is_conditional, code, hop.ref) = Violation(severity, code, hop.ref)
    BY DEF Tolerated
  <2> HIDE DEF severity, codes, hop
  <2>3. /\ Violation(severity, code, hop.ref) \in Seq(Finding(codes))
        /\ \A x : Raises(Violation(severity, code, hop.ref), x) <=> x = severity
    BY <1>1, <2>1, ViolationRaises
  <2>4. QED  BY <2>1, <2>2, <2>3
<1>4. ASSUME NEW allowed, NEW is_conditional, NEW code \in codes
      PROVE  LET said == Accept(allowed, is_conditional, code)
             IN  /\ said \in Seq(Finding(codes))
                 /\ Raises(said, "HARD") <=> ~allowed
                 /\ Raises(said, "CONDITION") <=> allowed /\ is_conditional
  <2> HIDE DEF codes, hop
  <2>1. QED  BY <1>2, <1>3
<1>5. /\ {"LINK_DOWN", "LINK_DEGRADED", "LINK_STATE_UNKNOWN", "REVALIDATION_REQUIRED"}
            \subseteq codes
      /\ <<>> \in Seq(Finding(codes)) /\ \A x : ~Raises(<<>>, x)
  BY StageCodes, NothingRaises
<1>6. CASE Kind[hop.ref] # "LINK"
  BY <1>5, <1>6 DEF CheckLink
<1>7. CASE Kind[hop.ref] = "LINK"
  <2>1. CASE state = "UP"
    <3>1. CheckLink(hop) = <<>>
      BY <1>7, <2>1 DEF CheckLink
    <3>2. QED  BY <1>5, <2>1, <3>1 DEF LinkAccepted, LinkTolerated
  <2>2. CASE state \in {"DOWN", "FAULTED", "RETIRED"}
    <3>1. CheckLink(hop) = Hard("LINK_DOWN", hop.ref)
      BY <1>7, <2>2 DEF CheckLink
    <3> HIDE DEF codes
    <3>2. QED  BY <1>2, <1>5, <1>7, <2>2, <3>1 DEF LinkAccepted, LinkTolerated, codes
  <2>3. CASE state = "REVALIDATION_REQUIRED"
    <3>1. CheckLink(hop) = Hard("REVALIDATION_REQUIRED", hop.ref)
      BY <1>7, <2>3 DEF CheckLink
    <3>2. QED  BY <1>2, <1>5, <1>7, <2>3, <3>1 DEF LinkAccepted, LinkTolerated
  <2>4. CASE state = "DEGRADED"
    <3> DEFINE allowed == rules.link_state.allow_degraded
               is_conditional == rules.link_state.degraded_is_conditional
               said == Accept(allowed, is_conditional, "LINK_DEGRADED")
    <3>1. CheckLink(hop) = said
      BY <1>7, <2>4 DEF CheckLink
    <3>2. LinkTolerated(state) <=> allowed
      BY <2>4, CombinedAcceptances DEF LinkTolerated
    <3>3. LinkConditional(state) <=> is_conditional
      BY <2>4 DEF LinkConditional
    <3>4. state # "UP"
      BY <2>4
    <3>5. /\ said \in Seq(Finding(codes))
          /\ Raises(said, "HARD") <=> ~allowed
          /\ Raises(said, "CONDITION") <=> allowed /\ is_conditional
      <4> HIDE DEF allowed, is_conditional, codes, Accept
      <4>1. QED  BY <1>4, <1>5
    <3> HIDE DEF allowed, is_conditional, said
    <3>6. QED  BY <1>7, <3>1, <3>2, <3>3, <3>4, <3>5 DEF LinkAccepted
  <2>5. CASE state \in {"absent", "UNKNOWN"}
    <3> DEFINE allowed == rules.link_state.allow_unknown
               is_conditional == rules.link_state.unknown_is_conditional
               said == Accept(allowed, is_conditional, "LINK_STATE_UNKNOWN")
    <3>1. CheckLink(hop) = said
      BY <1>7, <2>5 DEF CheckLink
    <3>2. LinkTolerated(state) <=> allowed
      BY <2>5, CombinedAcceptances DEF LinkTolerated
    <3>3. LinkConditional(state) <=> is_conditional
      BY <2>5 DEF LinkConditional
    <3>4. state # "UP"
      BY <2>5
    <3>5. /\ said \in Seq(Finding(codes))
          /\ Raises(said, "HARD") <=> ~allowed
          /\ Raises(said, "CONDITION") <=> allowed /\ is_conditional
      <4> HIDE DEF allowed, is_conditional, codes, Accept
      <4>1. QED  BY <1>4, <1>5
    <3> HIDE DEF allowed, is_conditional, said
    <3>6. QED  BY <1>7, <3>1, <3>2, <3>3, <3>4, <3>5 DEF LinkAccepted
  <2>6. QED  BY <1>1, <2>1, <2>2, <2>3, <2>4, <2>5 DEF LinkState
<1>8. QED  BY <1>6, <1>7

LEMMA LinksDecide ==
    ASSUME InputOK
    PROVE  LET said == OnHops(CheckLink) IN
           /\ said \in Seq(Finding(Codes["LINK_STATE"]))
           /\ Raises(said, "HARD") <=> ~Proven("LINK_STATE")
           /\ Raises(said, "CONDITION") <=>
                 \E ref \in OfKind("LINK") :
                     LinkTolerated(input.link[ref]) /\ LinkConditional(input.link[ref])
<1> DEFINE codes == Codes["LINK_STATE"]
           said == [i \in Hops |-> CheckLink(input.hops[i])]
           State(i) == input.link[input.hops[i].ref]
           Link(i) == Kind[input.hops[i].ref] = "LINK"
<1>1. \A i \in Hops : /\ said[i] \in Seq(Finding(codes))
                      /\ Raises(said[i], "HARD") <=> Link(i) /\ ~LinkAccepted(State(i))
                      /\ Raises(said[i], "CONDITION") <=>
                            Link(i) /\ LinkTolerated(State(i)) /\ LinkConditional(State(i))
  BY LinkDecides
<1>2. said \in [Hops -> Seq(Finding(codes))]
  BY <1>1
<1>3. OnHops(CheckLink) = FlattenSeq(said)
  BY DEF OnHops
<1>4. OfKind("LINK") = {input.hops[i].ref : i \in {j \in Hops : Link(j)}}
  BY DEF OfKind
<1>5. Proven("LINK_STATE") <=> \A ref \in OfKind("LINK") : LinkAccepted(input.link[ref])
  BY DEF Proven, LinkAccepted
<1> HIDE DEF said, codes
<1>6. /\ FlattenSeq(said) \in Seq(Finding(codes))
      /\ \A x : Raises(FlattenSeq(said), x) <=> \E i \in Hops : Raises(said[i], x)
  BY <1>2, OnHopsRaises
<1>7. Raises(FlattenSeq(said), "HARD") <=> ~Proven("LINK_STATE")
  BY <1>1, <1>4, <1>5, <1>6
<1>8. Raises(FlattenSeq(said), "CONDITION") <=>
          \E ref \in OfKind("LINK") :
              LinkTolerated(input.link[ref]) /\ LinkConditional(input.link[ref])
  BY <1>1, <1>4, <1>6
<1>9. QED  BY <1>3, <1>6, <1>7, <1>8 DEF codes

-----------------------------------------------------------------------------
(* Trees: Requirements() and OnTree() are recursive functions, which have  *)
(* to be shown to exist.                                                   *)

Nodes(children) ==
    [op : RequirementOp, values : Seq(CapabilityValue), children : Seq(children)]

Levels(f, n) == [d \in 0 .. n |-> IF d = 0 THEN {} ELSE Nodes(f[d - 1])]

LEMMA LevelsExist ==
    \A n \in Nat : \E f : f = Levels(f, n)
<1> DEFINE S == {n \in Nat : \E f : f = Levels(f, n)}
<1>1. 0 \in S
  <2> DEFINE f == [d \in 0 .. 0 |-> {}]
  <2>1. f = Levels(f, 0)
    BY DEF Levels
  <2>2. QED  BY <2>1
<1>2. ASSUME NEW n \in Nat, n \in S PROVE n + 1 \in S
  <2>1. PICK f : f = Levels(f, n)
    BY <1>2
  <2> DEFINE g == [d \in 0 .. n + 1 |-> IF d <= n THEN f[d] ELSE Nodes(f[d - 1])]
  <2>2. \A d \in 0 .. n : f[d] = IF d = 0 THEN {} ELSE Nodes(f[d - 1])
    BY <2>1 DEF Levels
  <2>3. \A d \in 0 .. n + 1 : g[d] = IF d = 0 THEN {} ELSE Nodes(g[d - 1])
    BY <2>2
  <2>4. g = [d \in 0 .. n + 1 |-> g[d]]
    BY Zenon
  <2>5. [d \in 0 .. n + 1 |-> g[d]] = Levels(g, n + 1)
    <3> HIDE DEF g
    <3>1. QED  BY <2>3, Zenon DEF Levels
  <2>6. g = Levels(g, n + 1)
    BY <2>4, <2>5, Zenon
  <2> HIDE DEF g
  <2>7. QED  BY <2>6
<1> HIDE DEF S
<1>3. Nat \subseteq S
  BY <1>1, <1>2, NatSetInduction
<1>4. QED  BY <1>3 DEF S

LEMMA RequirementsLevel ==
    ASSUME NEW n \in Nat
    PROVE  \E f : f = Levels(f, n) /\ Requirements(n) = f[n]
<1>1. \E f : f = Levels(f, n)
  BY LevelsExist
<1> DEFINE f == CHOOSE g : g = [d \in 0 .. n |->
                                   IF d = 0 THEN {}
                                   ELSE [op : RequirementOp, values : Seq(CapabilityValue),
                                         children : Seq(g[d - 1])]]
<1>2. f = Levels(f, n)
  BY <1>1, Zenon DEF Levels, Nodes
<1>3. Requirements(n) = f[n]
  BY Zenon DEF Requirements
<1>4. QED  BY <1>2, <1>3, Zenon

LEMMA LevelsAgree ==
    ASSUME NEW m \in Nat, NEW n \in Nat, NEW f, NEW g, f = Levels(f, m), g = Levels(g, n)
    PROVE  \A d \in Nat : d <= m /\ d <= n => f[d] = g[d]
<1> DEFINE S == {d \in Nat : d <= m /\ d <= n => f[d] = g[d]}
<1>1. \A d \in 0 .. m : f[d] = IF d = 0 THEN {} ELSE Nodes(f[d - 1])
  BY DEF Levels
<1>2. \A d \in 0 .. n : g[d] = IF d = 0 THEN {} ELSE Nodes(g[d - 1])
  BY DEF Levels
<1>3. 0 \in S
  BY <1>1, <1>2
<1>4. ASSUME NEW d \in Nat, d \in S PROVE d + 1 \in S
  BY <1>1, <1>2, <1>4
<1> HIDE DEF S
<1>5. Nat \subseteq S
  BY <1>3, <1>4, NatSetInduction
<1>6. QED  BY <1>5 DEF S

LEMMA RequirementsUnfold ==
    /\ Requirements(0) = {}
    /\ \A n \in Nat : Requirements(n + 1) = Nodes(Requirements(n))
<1>1. Requirements(0) = {}
  BY RequirementsLevel DEF Levels
<1>2. ASSUME NEW n \in Nat PROVE Requirements(n + 1) = Nodes(Requirements(n))
  <2>1. PICK f : f = Levels(f, n) /\ Requirements(n) = f[n]
    BY RequirementsLevel
  <2>2. PICK g : g = Levels(g, n + 1) /\ Requirements(n + 1) = g[n + 1]
    BY RequirementsLevel
  <2>3. f[n] = g[n]
    BY <2>1, <2>2, LevelsAgree
  <2>4. g[n + 1] = Nodes(g[n])
    <3>1. \A d \in 0 .. n + 1 : g[d] = IF d = 0 THEN {} ELSE Nodes(g[d - 1])
      BY <2>2 DEF Levels
    <3>2. n + 1 \in 0 .. n + 1 /\ n + 1 # 0 /\ (n + 1) - 1 = n
      OBVIOUS
    <3>3. QED  BY <3>1, <3>2
  <2>5. QED  BY <2>1, <2>2, <2>3, <2>4
<1>3. QED  BY <1>1, <1>2

\* What is so deep at most is one deeper at most.
LEMMA RequirementsGrow ==
    \A n \in Nat : Requirements(n) \subseteq Requirements(n + 1)
<1> DEFINE S == {n \in Nat : Requirements(n) \subseteq Requirements(n + 1)}
<1>1. 0 \in S
  BY RequirementsUnfold
<1>2. ASSUME NEW n \in Nat, n \in S PROVE n + 1 \in S
  <2>1. Requirements(n) \subseteq Requirements(n + 1)
    BY <1>2
  <2>2. Seq(Requirements(n)) \subseteq Seq(Requirements(n + 1))
    BY <2>1, SeqMonotonic
  <2>3. Nodes(Requirements(n)) \subseteq Nodes(Requirements(n + 1))
    BY <2>2 DEF Nodes
  <2>4. n + 1 \in Nat
    OBVIOUS
  <2>5. Requirements((n + 1) + 1) = Nodes(Requirements(n + 1))
    BY <2>4, RequirementsUnfold
  <2>6. QED  BY <2>3, <2>4, <2>5, RequirementsUnfold
<1> HIDE DEF S
<1>3. Nat \subseteq S
  BY <1>1, <1>2, NatSetInduction
<1>4. QED  BY <1>3 DEF S

LEMMA Children ==
    ASSUME NEW n \in Nat, NEW r \in Requirements(n + 1)
    PROVE  /\ r.op \in RequirementOp /\ r.values \in Seq(CapabilityValue)
           /\ r.children \in Seq(Requirements(n))
           /\ \A i \in DOMAIN r.children : r.children[i] \in Requirements(n)
<1>1. r \in Nodes(Requirements(n))
  BY RequirementsUnfold
<1>2. /\ r.op \in RequirementOp /\ r.values \in Seq(CapabilityValue)
      /\ r.children \in Seq(Requirements(n))
  BY <1>1 DEF Nodes
<1>3. QED  BY <1>2, ElementOfSeq, LenProperties

ValidityOf(f, n) ==
    [r \in Requirements(n) |-> validate_operands(r, [i \in DOMAIN r.children |-> f[r.children[i]]])]

LEMMA ValidityExists ==
    ASSUME NEW n \in Nat
    PROVE  \E f : f = ValidityOf(f, n)
<1> DEFINE Inner(f, r) == [i \in DOMAIN r.children |-> f[r.children[i]]]
           S == {m \in Nat : \E f : f = ValidityOf(f, m)}
<1>1. 0 \in S
  <2> DEFINE f == [r \in Requirements(0) |-> 0]
  <2>1. f = ValidityOf(f, 0)
    BY RequirementsUnfold DEF ValidityOf
  <2>2. QED  BY <2>1
<1>2. ASSUME NEW m \in Nat, m \in S PROVE m + 1 \in S
  <2>1. PICK f : f = ValidityOf(f, m)
    BY <1>2
  <2>2. \A r \in Requirements(m) : f[r] = validate_operands(r, Inner(f, r))
    BY <2>1, Zenon DEF ValidityOf
  <2> DEFINE g == [r \in Requirements(m + 1) |-> validate_operands(r, Inner(f, r))]
  <2>3. \A r \in Requirements(m + 1) : g[r] = validate_operands(r, Inner(f, r))
    BY Zenon
  <2>4. g = [r \in Requirements(m + 1) |-> g[r]]
    BY Zenon
  <2> HIDE DEF g
  <2>5. \A r \in Requirements(m) : g[r] = f[r]
    BY <2>2, <2>3, RequirementsGrow, Zenon
  <2>6. \A r \in Requirements(m + 1) : Inner(g, r) = Inner(f, r)
    <3>1. \A r \in Requirements(m + 1) : \A i \in DOMAIN r.children :
              g[r.children[i]] = f[r.children[i]]
      BY <2>5, Children
    <3>2. QED  BY <3>1
  <2> HIDE DEF Inner
  <2>7. \A r \in Requirements(m + 1) : g[r] = validate_operands(r, Inner(g, r))
    BY <2>3, <2>6, Zenon
  <2>8. g = [r \in Requirements(m + 1) |-> validate_operands(r, Inner(g, r))]
    BY <2>4, <2>7, Zenon
  <2>9. g = ValidityOf(g, m + 1)
    BY <2>8, Zenon DEF ValidityOf, Inner
  <2>10. QED  BY <2>9
<1> HIDE DEF S
<1>3. Nat \subseteq S
  BY <1>1, <1>2, NatSetInduction
<1>4. QED  BY <1>3 DEF S

LEMMA ValidityUnfolds ==
    ASSUME NEW n \in Nat
    PROVE  \E f : /\ f = ValidityOf(f, n)
                  /\ \A r : OnTree(r, n, validate_operands) = f[r]
<1>1. \E f : f = ValidityOf(f, n)
  BY ValidityExists
<1> DEFINE f == CHOOSE g : g = [r \in Requirements(n) |->
                                   validate_operands(r, [i \in DOMAIN r.children |-> g[r.children[i]]])]
<1>2. f = ValidityOf(f, n)
  BY <1>1, Zenon DEF ValidityOf
<1>3. \A r : OnTree(r, n, validate_operands) = f[r]
  BY Zenon DEF OnTree
<1>4. QED  BY <1>2, <1>3, Zenon

StatusOf(f, n, record) ==
    [r \in Requirements(n) |-> evaluate_requirement_node(r, [i \in DOMAIN r.children |-> f[r.children[i]]], record)]

StatusOn(requirement, n, record) ==
    LET Node(r, inner) == evaluate_requirement_node(r, inner, record)
    IN  OnTree(requirement, n, Node)

LEMMA StatusExists ==
    ASSUME NEW record, NEW n \in Nat
    PROVE  \E f : f = StatusOf(f, n, record)
<1> DEFINE Inner(f, r) == [i \in DOMAIN r.children |-> f[r.children[i]]]
           S == {m \in Nat : \E f : f = StatusOf(f, m, record)}
<1>1. 0 \in S
  <2> DEFINE f == [r \in Requirements(0) |-> 0]
  <2>1. f = StatusOf(f, 0, record)
    BY RequirementsUnfold DEF StatusOf
  <2>2. QED  BY <2>1
<1>2. ASSUME NEW m \in Nat, m \in S PROVE m + 1 \in S
  <2>1. PICK f : f = StatusOf(f, m, record)
    BY <1>2
  <2>2. \A r \in Requirements(m) : f[r] = evaluate_requirement_node(r, Inner(f, r), record)
    BY <2>1, Zenon DEF StatusOf
  <2> DEFINE g == [r \in Requirements(m + 1) |-> evaluate_requirement_node(r, Inner(f, r), record)]
  <2>3. \A r \in Requirements(m + 1) : g[r] = evaluate_requirement_node(r, Inner(f, r), record)
    BY Zenon
  <2>4. g = [r \in Requirements(m + 1) |-> g[r]]
    BY Zenon
  <2> HIDE DEF g
  <2>5. \A r \in Requirements(m) : g[r] = f[r]
    BY <2>2, <2>3, RequirementsGrow, Zenon
  <2>6. \A r \in Requirements(m + 1) : Inner(g, r) = Inner(f, r)
    <3>1. \A r \in Requirements(m + 1) : \A i \in DOMAIN r.children :
              g[r.children[i]] = f[r.children[i]]
      BY <2>5, Children
    <3>2. QED  BY <3>1
  <2> HIDE DEF Inner
  <2>7. \A r \in Requirements(m + 1) : g[r] = evaluate_requirement_node(r, Inner(g, r), record)
    BY <2>3, <2>6, Zenon
  <2>8. g = [r \in Requirements(m + 1) |-> evaluate_requirement_node(r, Inner(g, r), record)]
    BY <2>4, <2>7, Zenon
  <2>9. g = StatusOf(g, m + 1, record)
    BY <2>8, Zenon DEF StatusOf, Inner
  <2>10. QED  BY <2>9
<1> HIDE DEF S
<1>3. Nat \subseteq S
  BY <1>1, <1>2, NatSetInduction
<1>4. QED  BY <1>3 DEF S

LEMMA StatusUnfolds ==
    ASSUME NEW record, NEW n \in Nat
    PROVE  \E f : /\ f = StatusOf(f, n, record)
                  /\ \A r : StatusOn(r, n, record) = f[r]
<1>1. \E f : f = StatusOf(f, n, record)
  BY StatusExists
<1> DEFINE f == CHOOSE g : g = [r \in Requirements(n) |->
                                   evaluate_requirement_node(r, [i \in DOMAIN r.children |-> g[r.children[i]]], record)]
<1>2. f = StatusOf(f, n, record)
  BY <1>1, Zenon DEF StatusOf
<1>3. \A r : StatusOn(r, n, record) = f[r]
  BY Zenon DEF OnTree, StatusOn
<1>4. QED  BY <1>2, <1>3, Zenon

MeaningsOf(f, n) ==
    [r \in Requirements(n) |-> MeaningOf(r, [i \in DOMAIN r.children |-> f[r.children[i]]])]

LEMMA MeaningExists ==
    ASSUME NEW n \in Nat
    PROVE  \E f : f = MeaningsOf(f, n)
<1> DEFINE Inner(f, r) == [i \in DOMAIN r.children |-> f[r.children[i]]]
           S == {m \in Nat : \E f : f = MeaningsOf(f, m)}
<1>1. 0 \in S
  <2> DEFINE f == [r \in Requirements(0) |-> 0]
  <2>1. f = MeaningsOf(f, 0)
    BY RequirementsUnfold DEF MeaningsOf
  <2>2. QED  BY <2>1
<1>2. ASSUME NEW m \in Nat, m \in S PROVE m + 1 \in S
  <2>1. PICK f : f = MeaningsOf(f, m)
    BY <1>2
  <2>2. \A r \in Requirements(m) : f[r] = MeaningOf(r, Inner(f, r))
    BY <2>1, Zenon DEF MeaningsOf
  <2> DEFINE g == [r \in Requirements(m + 1) |-> MeaningOf(r, Inner(f, r))]
  <2>3. \A r \in Requirements(m + 1) : g[r] = MeaningOf(r, Inner(f, r))
    BY Zenon
  <2>4. g = [r \in Requirements(m + 1) |-> g[r]]
    BY Zenon
  <2> HIDE DEF g
  <2>5. \A r \in Requirements(m) : g[r] = f[r]
    BY <2>2, <2>3, RequirementsGrow, Zenon
  <2>6. \A r \in Requirements(m + 1) : Inner(g, r) = Inner(f, r)
    <3>1. \A r \in Requirements(m + 1) : \A i \in DOMAIN r.children :
              g[r.children[i]] = f[r.children[i]]
      BY <2>5, Children
    <3>2. QED  BY <3>1
  <2> HIDE DEF Inner
  <2>7. \A r \in Requirements(m + 1) : g[r] = MeaningOf(r, Inner(g, r))
    BY <2>3, <2>6, Zenon
  <2>8. g = [r \in Requirements(m + 1) |-> MeaningOf(r, Inner(g, r))]
    BY <2>4, <2>7, Zenon
  <2>9. g = MeaningsOf(g, m + 1)
    BY <2>8, Zenon DEF MeaningsOf, Inner
  <2>10. QED  BY <2>9
<1> HIDE DEF S
<1>3. Nat \subseteq S
  BY <1>1, <1>2, NatSetInduction
<1>4. QED  BY <1>3 DEF S

LEMMA MeaningUnfolds ==
    ASSUME NEW n \in Nat
    PROVE  \E f : /\ f = MeaningsOf(f, n)
                  /\ \A r : OnTree(r, n, MeaningOf) = f[r]
<1>1. \E f : f = MeaningsOf(f, n)
  BY MeaningExists
<1> DEFINE f == CHOOSE g : g = [r \in Requirements(n) |->
                                   MeaningOf(r, [i \in DOMAIN r.children |-> g[r.children[i]]])]
<1>2. f = MeaningsOf(f, n)
  BY <1>1, Zenon DEF MeaningsOf
<1>3. \A r : OnTree(r, n, MeaningOf) = f[r]
  BY Zenon DEF OnTree
<1>4. QED  BY <1>2, <1>3, Zenon

-----------------------------------------------------------------------------
(* Evaluation of an expression and its meaning as a set of values agree.   *)

LEMMA ValueOrder ==
    ASSUME NEW v \in CapabilityValue, NEW w \in CapabilityValue, v.type = w.type
    PROVE  Less(v, w) <=> v.rank < w.rank
<1>1. v.type \in ToSet(ValueTypes)
  BY ValueAssumption
<1>2. TypeIndex(v.type) \in DOMAIN ValueTypes
  BY <1>1 DEF TypeIndex, ToSet
<1>3. DOMAIN ValueTypes \subseteq Int
  BY DEF ValueTypes
<1>4. ~ (TypeIndex(v.type) < TypeIndex(w.type))
  BY <1>2, <1>3
<1>5. QED  BY <1>4 DEF Less

LEMMA LeafDecides ==
    ASSUME NEW r, r.op \in LeafOps, r.values \in Seq(CapabilityValue),
           NEW given, NEW inner, validate_operands(r, given),
           NEW record, record.known, record.value \in CapabilityValue
    PROVE  evaluate_leaf(r, record) = Met(record.value \in MeaningOf(r, inner))
<1> DEFINE v == record.value
           low == r.values[1]
           high == r.values[2]
           Meets(condition) == evaluate_leaf(r, record) = Met(condition)
<1>1. v.rank \in Nat /\ v \in CapabilityValue
  BY ValueAssumption
<1>2. \A w \in CapabilityValue : w.rank \in Nat /\ w \in [type : ToSet(ValueTypes), rank : Nat]
  BY ValueAssumption
<1>3. \A i \in 1 .. Len(r.values) : r.values[i] \in CapabilityValue
  OBVIOUS
<1>4. CASE r.op = "SUPPORTS"
  <2>1. MeaningOf(r, inner) = {w \in CapabilityValue : w.rank # 0}
    BY <1>4 DEF MeaningOf
  <2>2. Meets(is_enabled(v))
    BY <1>4 DEF evaluate_leaf
  <2>3. is_enabled(v) <=> v \in MeaningOf(r, inner)
    BY <1>1, <2>1 DEF is_enabled
  <2>4. QED  BY <2>2, <2>3 DEF Met
<1>5. CASE r.op = "MINIMUM"
  <2>0. low \in CapabilityValue
    BY <1>3, <1>5 DEF validate_operands, LeafOps
  <2>1. MeaningOf(r, inner) = {w \in CapabilityValue : w.type = low.type /\ w.rank >= low.rank}
    BY <1>5 DEF MeaningOf
  <2>2. Meets(v.type = low.type /\ ~Less(v, low))
    BY <1>5 DEF evaluate_leaf
  <2>3. v.type = low.type /\ ~Less(v, low) <=> v \in MeaningOf(r, inner)
    BY <1>1, <1>2, <2>0, <2>1, ValueOrder
  <2>4. QED  BY <2>2, <2>3 DEF Met
<1>6. CASE r.op = "VERSION_AT_LEAST"
  <2>0. low \in CapabilityValue /\ low.type = "VERSION"
    BY <1>3, <1>6 DEF validate_operands, LeafOps
  <2>1. MeaningOf(r, inner) = {w \in CapabilityValue : w.type = low.type /\ w.rank >= low.rank}
    BY <1>6 DEF MeaningOf
  <2>2. Meets(v.type = "VERSION" /\ ~Less(v, low))
    BY <1>6 DEF evaluate_leaf
  <2>3. v.type = "VERSION" /\ ~Less(v, low) <=> v \in MeaningOf(r, inner)
    BY <1>1, <1>2, <2>0, <2>1, ValueOrder
  <2>4. QED  BY <2>2, <2>3 DEF Met
<1>7. CASE r.op = "MAXIMUM"
  <2> DEFINE zero == [low EXCEPT !.rank = 0]
  <2>0. low \in CapabilityValue
    BY <1>3, <1>7 DEF validate_operands, LeafOps
  <2>1. zero.type = low.type /\ zero.rank = 0
    BY <1>2, <2>0
  <2>2. MeaningOf(r, inner) =
            {w \in CapabilityValue : w.type = zero.type /\ w.rank \in zero.rank .. low.rank}
    BY <1>7 DEF MeaningOf
  <2>3. Meets(v.type = low.type /\ ~Less(low, v))
    BY <1>7 DEF evaluate_leaf
  <2> HIDE DEF zero
  <2>4. v.type = low.type /\ ~Less(low, v) <=> v \in MeaningOf(r, inner)
    BY <1>1, <1>2, <2>0, <2>1, <2>2, ValueOrder
  <2>5. QED  BY <2>3, <2>4 DEF Met
<1>8. CASE r.op = "IN_SET"
  <2>1. MeaningOf(r, inner) = ToSet(r.values)
    BY <1>8 DEF MeaningOf
  <2>2. Meets(v \in ToSet(r.values))
    BY <1>8 DEF evaluate_leaf
  <2>3. QED  BY <2>1, <2>2
<1>9. CASE r.op = "RANGE_CONTAINS"
  <2>0. low \in CapabilityValue /\ high \in CapabilityValue /\ low.type = high.type
    BY <1>3, <1>9 DEF validate_operands, LeafOps
  <2>1. MeaningOf(r, inner) =
            {w \in CapabilityValue : w.type = low.type /\ w.rank \in low.rank .. high.rank}
    BY <1>9 DEF MeaningOf
  <2>2. Meets(v.type = low.type /\ ~Less(v, low) /\ ~Less(high, v))
    BY <1>9 DEF evaluate_leaf
  <2>3. v.type = low.type /\ ~Less(v, low) /\ ~Less(high, v) <=> v \in MeaningOf(r, inner)
    BY <1>1, <1>2, <2>0, <2>1, ValueOrder
  <2>4. QED  BY <2>2, <2>3 DEF Met
<1>10. QED  BY <1>4, <1>5, <1>6, <1>7, <1>8, <1>9 DEF LeafOps

\* What one node's status is to be, given the values that its expression admits.
StatusFor(record, meaning) == IF record.known THEN Met(record.value \in meaning) ELSE "UNKNOWN"

LEMMA NodeDecides ==
    ASSUME NEW r, r.op \in RequirementOp, r.values \in Seq(CapabilityValue),
           NEW C, r.children \in Seq(C),
           NEW given, NEW statuses, NEW meanings, NEW record,
           DOMAIN given = DOMAIN r.children,
           DOMAIN statuses = DOMAIN r.children, DOMAIN meanings = DOMAIN r.children,
           validate_operands(r, given),
           record.known \in BOOLEAN, record.value \in CapabilityValue,
           \A i \in DOMAIN r.children : statuses[i] = StatusFor(record, meanings[i])
    PROVE  evaluate_requirement_node(r, statuses, record) =
               StatusFor(record, MeaningOf(r, meanings))
<1> DEFINE v == record.value
           status == evaluate_requirement_node(r, statuses, record)
<1>1. CASE r.op \in LeafOps
  <2>1. status = evaluate_leaf(r, record)
    BY <1>1 DEF evaluate_requirement_node, LeafOps
  <2>2. CASE record.known
    <3>1. evaluate_leaf(r, record) = Met(v \in MeaningOf(r, meanings))
      BY <1>1, <2>2, LeafDecides
    <3>2. QED  BY <2>1, <2>2, <3>1 DEF StatusFor
  <2>3. CASE ~record.known
    <3>1. evaluate_leaf(r, record) = "UNKNOWN"
      BY <2>3 DEF evaluate_leaf
    <3>2. QED  BY <2>1, <2>3, <3>1 DEF StatusFor
  <2>4. QED  BY <2>2, <2>3
<1>2. CASE r.op \notin LeafOps
  <2>1. r.op \in {"ALL_OF", "ANY_OF", "NOT"} /\ r.children # <<>>
    BY <1>2 DEF validate_operands, RequirementOp
  <2>2. 1 \in DOMAIN r.children /\ DOMAIN r.children = 1 .. Len(r.children)
    BY <2>1, EmptySeq, LenProperties
  <2>3. ToSet(statuses) = {StatusFor(record, meanings[i]) : i \in DOMAIN r.children}
    BY DEF ToSet
  <2>4. ToSet(meanings) = {meanings[i] : i \in DOMAIN r.children}
    BY DEF ToSet
  <2>5. CASE ~record.known
    <3>1. \A i \in DOMAIN r.children : statuses[i] = "UNKNOWN"
      BY <2>5 DEF StatusFor
    <3>2. ToSet(statuses) = {"UNKNOWN"}
      BY <2>2, <3>1 DEF ToSet
    <3>3. status = "UNKNOWN"
      BY <1>2, <2>1, <2>2, <3>1, <3>2 DEF evaluate_requirement_node, LeafOps
    <3>4. QED  BY <2>5, <3>3 DEF StatusFor
  <2>6. CASE record.known
    <3>1. \A i \in DOMAIN r.children :
              statuses[i] = IF v \in meanings[i] THEN "SATISFIED" ELSE "UNSATISFIED"
      BY <2>6 DEF StatusFor, Met
    <3>2. /\ "UNSATISFIED" \in ToSet(statuses) <=> \E i \in DOMAIN r.children : v \notin meanings[i]
          /\ "SATISFIED" \in ToSet(statuses) <=> \E i \in DOMAIN r.children : v \in meanings[i]
          /\ "UNKNOWN" \notin ToSet(statuses)
      BY <3>1 DEF ToSet
    <3>3. CASE r.op = "NOT"
      <4>1. MeaningOf(r, meanings) = CapabilityValue \ meanings[1]
        BY <3>3 DEF MeaningOf
      <4>2. status = IF v \in meanings[1] THEN "UNSATISFIED" ELSE "SATISFIED"
        BY <1>2, <2>2, <3>1, <3>3 DEF evaluate_requirement_node
      <4>3. QED  BY <2>6, <4>1, <4>2 DEF StatusFor, Met
    <3>4. CASE r.op = "ALL_OF"
      <4>1. MeaningOf(r, meanings) = {w \in CapabilityValue : \A c \in ToSet(meanings) : w \in c}
        BY <3>4 DEF MeaningOf
      <4>2. status = IF "UNSATISFIED" \in ToSet(statuses) THEN "UNSATISFIED"
                     ELSE IF "UNKNOWN" \in ToSet(statuses) THEN "UNKNOWN" ELSE "SATISFIED"
        BY <1>2, <3>4 DEF evaluate_requirement_node
      <4>3. v \in MeaningOf(r, meanings) <=> ~ \E i \in DOMAIN r.children : v \notin meanings[i]
        BY <2>4, <4>1
      <4>4. QED  BY <2>6, <3>2, <4>2, <4>3 DEF StatusFor, Met
    <3>5. CASE r.op = "ANY_OF"
      <4>1. MeaningOf(r, meanings) = UNION ToSet(meanings)
        BY <3>5 DEF MeaningOf
      <4>2. status = IF "SATISFIED" \in ToSet(statuses) THEN "SATISFIED"
                     ELSE IF "UNKNOWN" \in ToSet(statuses) THEN "UNKNOWN" ELSE "UNSATISFIED"
        BY <1>2, <3>5 DEF evaluate_requirement_node
      <4>3. v \in MeaningOf(r, meanings) <=> \E i \in DOMAIN r.children : v \in meanings[i]
        BY <2>4, <4>1
      <4>4. QED  BY <2>6, <3>2, <4>2, <4>3 DEF StatusFor, Met
    <3>6. QED  BY <2>1, <3>3, <3>4, <3>5
  <2>7. QED  BY <2>5, <2>6
<1>3. QED  BY <1>1, <1>2

\* Of a well-formed requirement, whatever its depth: a recorded value satisfies it if
\* it is in its meaning; what is not recorded leaves it unknown.
LEMMA RequirementDecides ==
    ASSUME NEW n \in Nat, NEW r \in Requirements(n), OnTree(r, n, validate_operands),
           NEW record, record.known \in BOOLEAN, record.value \in CapabilityValue
    PROVE  StatusOn(r, n, record) = StatusFor(record, OnTree(r, n, MeaningOf))
<1>1. PICK f : f = ValidityOf(f, n) /\ \A q : OnTree(q, n, validate_operands) = f[q]
  BY ValidityUnfolds
<1>2. PICK g : g = StatusOf(g, n, record) /\ \A q : StatusOn(q, n, record) = g[q]
  BY StatusUnfolds
<1>3. PICK h : h = MeaningsOf(h, n) /\ \A q : OnTree(q, n, MeaningOf) = h[q]
  BY MeaningUnfolds
<1> DEFINE Inner(k, q) == [i \in DOMAIN q.children |-> k[q.children[i]]]
           S == {m \in Nat : \A q \in Requirements(n) :
                    q \in Requirements(m) /\ f[q] => g[q] = StatusFor(record, h[q])}
<1>4. /\ \A q \in Requirements(n) : f[q] = validate_operands(q, Inner(f, q))
      /\ \A q \in Requirements(n) : g[q] = evaluate_requirement_node(q, Inner(g, q), record)
      /\ \A q \in Requirements(n) : h[q] = MeaningOf(q, Inner(h, q))
  <2>1. \A q \in Requirements(n) : f[q] = validate_operands(q, Inner(f, q))
    BY <1>1, Zenon DEF ValidityOf
  <2>2. \A q \in Requirements(n) : g[q] = evaluate_requirement_node(q, Inner(g, q), record)
    BY <1>2, Zenon DEF StatusOf
  <2>3. \A q \in Requirements(n) : h[q] = MeaningOf(q, Inner(h, q))
    BY <1>3, Zenon DEF MeaningsOf
  <2>4. QED  BY <2>1, <2>2, <2>3
<1>5. \A q \in Requirements(n) : \A i \in DOMAIN q.children : q.children[i] \in Requirements(n)
  <2>1. CASE n = 0
    BY <2>1, RequirementsUnfold
  <2>2. CASE n # 0
    <3>1. n - 1 \in Nat /\ (n - 1) + 1 = n
      BY <2>2
    <3>2. \A q \in Requirements(n) : \A i \in DOMAIN q.children :
              q.children[i] \in Requirements(n - 1)
      BY <3>1, Children
    <3>3. Requirements(n - 1) \subseteq Requirements(n)
      BY <3>1, RequirementsGrow
    <3>4. QED  BY <3>2, <3>3
  <2>3. QED  BY <2>1, <2>2
<1>6. 0 \in S
  BY RequirementsUnfold
<1>7. ASSUME NEW m \in Nat, m \in S PROVE m + 1 \in S
  <2> SUFFICES ASSUME NEW q \in Requirements(n), q \in Requirements(m + 1), f[q]
               PROVE  g[q] = StatusFor(record, h[q])
    OBVIOUS
  <2> DEFINE given == Inner(f, q)
             statuses == Inner(g, q)
             meanings == Inner(h, q)
  <2>1. /\ q.op \in RequirementOp /\ q.values \in Seq(CapabilityValue)
        /\ q.children \in Seq(Requirements(m))
        /\ \A i \in DOMAIN q.children : q.children[i] \in Requirements(m)
    BY Children
  <2>2. /\ DOMAIN given = DOMAIN q.children /\ DOMAIN statuses = DOMAIN q.children
        /\ DOMAIN meanings = DOMAIN q.children
        /\ \A i \in DOMAIN q.children : /\ given[i] = f[q.children[i]]
                                        /\ statuses[i] = g[q.children[i]]
                                        /\ meanings[i] = h[q.children[i]]
    OBVIOUS
  <2> HIDE DEF Inner
  <2>3. /\ f[q] = validate_operands(q, given)
        /\ g[q] = evaluate_requirement_node(q, statuses, record)
        /\ h[q] = MeaningOf(q, meanings)
    BY <1>4
  <2> HIDE DEF given, statuses, meanings
  <2>4. validate_operands(q, given)
    BY <2>3
  <2>5. ASSUME NEW i \in DOMAIN q.children PROVE statuses[i] = StatusFor(record, meanings[i])
    <3>1. q.op \notin LeafOps /\ given[i]
      <4>1. DOMAIN <<>> = {}
        OBVIOUS
      <4>2. QED  BY <2>2, <2>4, <4>1 DEF validate_operands
    <3>2. q.children[i] \in Requirements(n) /\ q.children[i] \in Requirements(m)
      BY <1>5, <2>1
    <3>3. f[q.children[i]]
      BY <2>2, <3>1
    <3>4. g[q.children[i]] = StatusFor(record, h[q.children[i]])
      BY <1>7, <3>2, <3>3
    <3>5. QED  BY <2>2, <3>4
  <2>6. evaluate_requirement_node(q, statuses, record) =
            StatusFor(record, MeaningOf(q, meanings))
    BY <2>1, <2>2, <2>4, <2>5, NodeDecides
  <2>7. QED  BY <2>3, <2>6
<1> HIDE DEF S
<1>8. n \in S
  BY <1>6, <1>7, NatSetInduction
<1>9. f[r] => g[r] = StatusFor(record, h[r])
  BY <1>8 DEF S
<1>10. QED  BY <1>1, <1>2, <1>3, <1>9

\* What the capability stage asks of an entry.
RequirementMet(r) ==
    IF input.record[r.subject].known
    THEN input.record[r.subject].value \in Meaning(r.expression)
    ELSE ~r.fail_closed_on_unknown

LEMMA EntryDecides ==
    ASSUME InputOK, NEW r \in RequirementEntry,
           OnTree(r.expression, input.limits.max_requirement_depth, validate_operands)
    PROVE  LET said == CheckCapability(r) IN
           /\ said \in Seq(Finding(Codes["CAPABILITY"]))
           /\ Raises(said, "HARD") <=> ~RequirementMet(r)
           /\ Raises(said, "CONDITION") <=>
                 ~input.record[r.subject].known /\ ~r.fail_closed_on_unknown
<1> DEFINE codes == Codes["CAPABILITY"]
           record == input.record[r.subject]
           status == evaluate_requirement(r.expression, record, input.limits)
           depth == input.limits.max_requirement_depth
<1>1. depth \in Nat /\ r.expression \in Requirements(depth) /\ r.fail_closed_on_unknown \in BOOLEAN
  BY DEF RequirementEntry, InputOK
<1>2. r.subject \in DOMAIN input.record /\ r.subject \in Subjects
  BY DEF RequirementEntry, Subjects
<1>3. record \in [known : BOOLEAN, value : CapabilityValue]
  BY <1>2 DEF InputOK, ViewsOK
<1>4. record.known \in BOOLEAN /\ record.value \in CapabilityValue
  BY <1>3
<1>5. status = StatusOn(r.expression, depth, record)
  BY DEF evaluate_requirement, StatusOn
<1>6. Meaning(r.expression) = OnTree(r.expression, depth, MeaningOf)
  BY DEF Meaning
<1> HIDE DEF record, status
<1>7. StatusOn(r.expression, depth, record) =
          StatusFor(record, OnTree(r.expression, depth, MeaningOf))
  <2> HIDE DEF depth
  <2>1. OnTree(r.expression, depth, validate_operands)
    BY DEF depth
  <2>2. QED  BY <1>1, <1>4, <2>1, RequirementDecides
<1>8. status = StatusFor(record, Meaning(r.expression))
  BY <1>5, <1>6, <1>7
<1>9. CheckCapability(r) =
          CASE status = "SATISFIED"   -> <<>>
            [] status = "UNSATISFIED" -> Hard("CAPABILITY_MISSING", r.subject)
            [] status = "UNKNOWN"     ->
                   Violation(IF r.fail_closed_on_unknown THEN "HARD" ELSE "CONDITION",
                             "CAPABILITY_UNKNOWN", r.subject)
  BY DEF CheckCapability, status, record
<1>10. "CAPABILITY_MISSING" \in codes /\ "CAPABILITY_UNKNOWN" \in codes
  BY StageCodes
<1> HIDE DEF codes
<1>11. CASE record.known /\ record.value \in Meaning(r.expression)
  <2>1. CheckCapability(r) = <<>>
    BY <1>8, <1>9, <1>11 DEF StatusFor, Met
  <2>2. RequirementMet(r)
    BY <1>11 DEF RequirementMet, record
  <2>3. QED  BY <1>11, <2>1, <2>2, NothingRaises DEF codes, record
<1>12. CASE record.known /\ record.value \notin Meaning(r.expression)
  <2>1. CheckCapability(r) = Hard("CAPABILITY_MISSING", r.subject)
    BY <1>8, <1>9, <1>12 DEF StatusFor, Met
  <2>2. ~RequirementMet(r)
    BY <1>12 DEF RequirementMet, record
  <2>3. /\ Hard("CAPABILITY_MISSING", r.subject) \in Seq(Finding(codes))
        /\ \A x : Raises(Hard("CAPABILITY_MISSING", r.subject), x) <=> x = "HARD"
    BY <1>2, <1>10, HardRaises
  <2>4. QED  BY <1>12, <2>1, <2>2, <2>3 DEF codes, record
<1>13. CASE ~record.known
  <2> DEFINE severity == IF r.fail_closed_on_unknown THEN "HARD" ELSE "CONDITION"
             said == Violation(severity, "CAPABILITY_UNKNOWN", r.subject)
  <2>1. CheckCapability(r) = said
    BY <1>8, <1>9, <1>13 DEF StatusFor
  <2>2. RequirementMet(r) <=> ~r.fail_closed_on_unknown
    BY <1>13 DEF RequirementMet, record
  <2>3. /\ severity \in Severity
        /\ severity = "HARD" <=> r.fail_closed_on_unknown
        /\ severity = "CONDITION" <=> ~r.fail_closed_on_unknown
    BY DEF Severity
  <2> HIDE DEF severity
  <2>4. said \in Seq(Finding(codes)) /\ \A x : Raises(said, x) <=> x = severity
    BY <1>2, <1>10, <2>3, ViolationRaises
  <2> HIDE DEF said
  <2>5. QED  BY <1>13, <2>1, <2>2, <2>3, <2>4 DEF codes, record
<1>14. QED  BY <1>11, <1>12, <1>13

\* Registration and decoding let only well-formed requirements through.
LEMMA EntriesValidated ==
    ASSUME InputOK, NEW r \in ToSet(rules.capabilities)
    PROVE  /\ r \in RequirementEntry
           /\ OnTree(r.expression, input.limits.max_requirement_depth, validate_operands)
<1>1. RequirementsOK(input.constraints.capabilities)
      /\ RequirementsOK(input.policy.required_capabilities)
  BY DEF InputOK, ConstraintsOK, PolicyOK
<1>2. ASSUME NEW entries, RequirementsOK(entries), r \in ToSet(entries)
      PROVE  /\ r \in RequirementEntry
             /\ OnTree(r.expression, input.limits.max_requirement_depth, validate_operands)
  <2>1. entries \in Seq(RequirementEntry)
    BY <1>2 DEF RequirementsOK, RequirementEntry
  <2>2. PICK i \in DOMAIN entries : r = entries[i]
    BY <1>2 DEF ToSet
  <2>3. r \in RequirementEntry
    BY <2>1, <2>2, ElementOfSeq, LenProperties
  <2>4. validate_requirement(r.expression, input.limits)
    BY <1>2, <2>2 DEF RequirementsOK
  <2>5. QED  BY <2>3, <2>4, Zenon DEF validate_requirement
<1>3. r \in ToSet(input.constraints.capabilities) \/ r \in ToSet(input.policy.required_capabilities)
  BY CombinedCapabilities
<1>4. QED  BY <1>1, <1>2, <1>3

LEMMA SequenceElements ==
    ASSUME NEW S, NEW s \in Seq(S)
    PROVE  /\ Len(s) \in Nat /\ DOMAIN s = 1 .. Len(s)
           /\ \A i \in 1 .. Len(s) : s[i] \in S /\ s[i] \in ToSet(s)
           /\ ToSet(s) = {s[i] : i \in 1 .. Len(s)}
           /\ ToSet(s) \subseteq S
<1>1. Len(s) \in Nat /\ DOMAIN s = 1 .. Len(s) /\ \A i \in 1 .. Len(s) : s[i] \in S
  BY LenProperties, ElementOfSeq
<1>2. QED  BY <1>1 DEF ToSet

LEMMA CapabilitiesDecide ==
    ASSUME InputOK
    PROVE  /\ Capability \in Seq(Finding(Codes["CAPABILITY"]))
           /\ Raises(Capability, "HARD") <=> ~Proven("CAPABILITY")
           /\ Raises(Capability, "CONDITION") <=>
                 \E r \in ToSet(rules.capabilities) :
                     ~input.record[r.subject].known /\ ~r.fail_closed_on_unknown
<1> DEFINE codes == Codes["CAPABILITY"]
           entries == rules.capabilities
           n == Len(entries)
           said == [i \in 1 .. n |-> CheckCapability(entries[i])]
           Open(r) == ~input.record[r.subject].known /\ ~r.fail_closed_on_unknown
<1>1. /\ n \in Nat /\ DOMAIN entries = 1 .. n
      /\ \A i \in 1 .. n : entries[i] \in ToSet(entries)
      /\ ToSet(entries) = {entries[i] : i \in 1 .. n}
  <2>1. entries \in Seq(RequirementEntry)
    BY CombinedCapabilities
  <2> HIDE DEF entries
  <2>2. QED  BY <2>1, SequenceElements
<1>2. \A i \in 1 .. n : /\ said[i] \in Seq(Finding(codes))
                        /\ Raises(said[i], "HARD") <=> ~RequirementMet(entries[i])
                        /\ Raises(said[i], "CONDITION") <=> Open(entries[i])
  BY <1>1, EntriesValidated, EntryDecides
<1>3. said \in [1 .. n -> Seq(Finding(codes))]
  BY <1>2
<1>4. Capability = FlattenSeq(said)
  BY <1>1 DEF Capability
<1>5. Proven("CAPABILITY") <=> \A r \in ToSet(entries) : RequirementMet(r)
  BY CombinedCapabilities DEF Proven, RequirementMet
<1> HIDE DEF said, codes, n
<1>6. /\ FlattenSeq(said) \in Seq(Finding(codes))
      /\ \A x : Raises(FlattenSeq(said), x) <=> \E i \in 1 .. n : Raises(said[i], x)
  BY <1>1, <1>3, FlattenRaises
<1> HIDE DEF entries, Open
<1>7. Raises(Capability, "HARD") <=> ~Proven("CAPABILITY")
  BY <1>1, <1>2, <1>4, <1>5, <1>6
<1>8. Raises(Capability, "CONDITION") <=> \E r \in ToSet(entries) : Open(r)
  BY <1>1, <1>2, <1>4, <1>6
<1>9. QED  BY <1>4, <1>6, <1>7, <1>8 DEF codes, entries, Open

-----------------------------------------------------------------------------
(* Failure domains.                                                        *)

LEMMA MembershipFacts ==
    ASSUME InputOK, NEW ref \in Element, NEW class
    PROVE  /\ IsFiniteSet(OfClass(ref, class)) /\ Cardinality(OfClass(ref, class)) \in Nat
           /\ Cardinality(OfClass(ref, class)) # 0 <=> ~Outside(ref, class)
           /\ OfClass(ref, class) # {} <=> ~Outside(ref, class)
<1>1. IsFiniteSet(DOMAIN input.domain_class)
      /\ input.memberships[ref] \subseteq DOMAIN input.domain_class
  BY DEF InputOK, ViewsOK
<1>2. OfClass(ref, class) \in SUBSET DOMAIN input.domain_class
  BY <1>1 DEF OfClass
<1>3. IsFiniteSet(OfClass(ref, class))
  BY <1>1, <1>2, FS_Subset
<1>4. OfClass(ref, class) # {} <=> ~Outside(ref, class)
  BY DEF OfClass, Outside
<1>5. QED  BY <1>3, <1>4, FS_CardinalityType, FS_EmptySet

AllCovered == \A i \in Hops : Covered(input.hops[i])

LEMMA AllCoveredMeans ==
    AllCovered <=> \A ref \in PathElements : input.coverage[ref]
BY DEF AllCovered, Covered, PathElements

LEMMA CoverageUnknownRaises ==
    ASSUME NEW codes, "FAILURE_DOMAIN_COVERAGE_UNKNOWN" \in codes, NEW subject \in Subjects
    PROVE  /\ CoverageUnknown(subject) \in Seq(Finding(codes))
           /\ \A x : Raises(CoverageUnknown(subject), x) <=> x = "HARD"
BY HardRaises DEF CoverageUnknown

\* A check of each hop that counts only where the hop is covered.
LEMMA CoveredHopsDecide ==
    ASSUME InputOK, NEW codes, "FAILURE_DOMAIN_COVERAGE_UNKNOWN" \in codes,
           NEW said \in [Hops -> Seq(Finding(codes))],
           \A i \in Hops : ~Raises(said[i], "CONDITION")
    PROVE  LET all == FlattenSeq([i \in Hops |-> IF Covered(input.hops[i]) THEN said[i]
                                                 ELSE CoverageUnknown(input.hops[i].ref)])
           IN  /\ all \in Seq(Finding(codes))
               /\ Raises(all, "HARD") <=>
                     ~AllCovered \/ \E i \in Hops : Raises(said[i], "HARD")
               /\ ~Raises(all, "CONDITION")
<1> DEFINE each == [i \in Hops |-> IF Covered(input.hops[i]) THEN said[i]
                                   ELSE CoverageUnknown(input.hops[i].ref)]
<1>1. \A i \in Hops : /\ CoverageUnknown(input.hops[i].ref) \in Seq(Finding(codes))
                      /\ \A x : Raises(CoverageUnknown(input.hops[i].ref), x) <=> x = "HARD"
  BY PathFacts, CoverageUnknownRaises
<1>2. \A i \in Hops : each[i] = IF Covered(input.hops[i]) THEN said[i]
                                ELSE CoverageUnknown(input.hops[i].ref)
  OBVIOUS
<1>3. each \in [Hops -> Seq(Finding(codes))]
  BY <1>1
<1> HIDE DEF each
<1>4. /\ FlattenSeq(each) \in Seq(Finding(codes))
      /\ \A x : Raises(FlattenSeq(each), x) <=> \E i \in Hops : Raises(each[i], x)
  BY <1>3, OnHopsRaises
<1>5. ~Raises(FlattenSeq(each), "CONDITION")
  BY <1>1, <1>2, <1>4
<1>6. CASE AllCovered
  BY <1>2, <1>4, <1>5, <1>6 DEF AllCovered, each
<1>7. CASE ~AllCovered
  <2>1. PICK i \in Hops : ~Covered(input.hops[i])
    BY <1>7 DEF AllCovered
  <2>2. Raises(each[i], "HARD")
    BY <1>1, <1>2, <2>1
  <2>3. QED  BY <1>4, <1>5, <1>7, <2>2 DEF each
<1>8. QED  BY <1>6, <1>7

LEMMA CountDecides ==
    ASSUME InputOK, NEW members \in SUBSET Hops, NEW max_members \in Nat, NEW subject \in Subjects
    PROVE  LET said == CheckCount(members, max_members, subject) IN
           /\ said \in Seq(Finding(Codes["FAILURE_DOMAIN"]))
           /\ Raises(said, "HARD") <=> ~AllCovered \/ ~ (Cardinality(members) <= max_members)
           /\ ~Raises(said, "CONDITION")
<1> DEFINE codes == Codes["FAILURE_DOMAIN"]
           hard == Hard("FAILURE_DOMAIN_VIOLATION", subject)
           unknown == CoverageUnknown(subject)
<1>1. /\ hard \in Seq(Finding(codes)) /\ unknown \in Seq(Finding(codes))
      /\ \A x : (Raises(hard, x) <=> x = "HARD") /\ (Raises(unknown, x) <=> x = "HARD")
  BY StageCodes, HardRaises, CoverageUnknownRaises
<1>2. <<>> \in Seq(Finding(codes)) /\ \A x : ~Raises(<<>>, x)
  BY NothingRaises
<1>3. Cardinality(members) \in Nat
  <2>1. IsFiniteSet(Hops)
    BY PathFacts, FS_Interval
  <2>2. QED  BY <2>1, FS_Subset, FS_CardinalityType
<1>4. CheckCount(members, max_members, subject) =
          IF ~AllCovered THEN unknown
          ELSE IF Cardinality(members) > max_members THEN hard ELSE <<>>
  BY DEF CheckCount, AllCovered
<1>5. Cardinality(members) > max_members <=> ~ (Cardinality(members) <= max_members)
  BY <1>3
<1> HIDE DEF codes, hard, unknown
<1>6. CASE AllCovered /\ Cardinality(members) <= max_members
  BY <1>2, <1>4, <1>5, <1>6 DEF codes
<1>7. CASE AllCovered /\ ~ (Cardinality(members) <= max_members)
  BY <1>1, <1>4, <1>5, <1>7 DEF codes
<1>8. CASE ~AllCovered
  BY <1>1, <1>4, <1>8 DEF codes
<1>9. QED  BY <1>6, <1>7, <1>8

\* The hop and an element of the peer are in one domain of the class.
Shares(i, c, class) ==
    \E other \in PeerElements(c) :
       \E d \in input.memberships[input.hops[i].ref] \cap input.memberships[other] :
           input.domain_class[d] = class

LEMMA SharedDomainsFacts ==
    ASSUME InputOK, NEW i \in Hops, NEW c \in DomainConstraint, NEW class
    PROVE  /\ Cardinality(SharedDomains(input.hops[i], c, class)) \in Nat
           /\ Cardinality(SharedDomains(input.hops[i], c, class)) # 0 <=> Shares(i, c, class)
<1> DEFINE shared == SharedDomains(input.hops[i], c, class)
           ref == input.hops[i].ref
<1>1. ref \in Element /\ PeerElements(c) \subseteq Element
  BY PathFacts DEF InputOK, ViewsOK, PeerElements, DomainConstraint
<1>2. IsFiniteSet(OfClass(ref, class)) /\ IsFiniteSet(PeerElements(c))
  BY <1>1, MembershipFacts, EvaluationAssumption, FS_Subset
<1>3. IsFiniteSet(OfClass(ref, class) \X PeerElements(c))
  BY <1>2, FS_Product
<1>4. shared = {pair \in OfClass(ref, class) \X PeerElements(c) :
                   pair[1] \in input.memberships[pair[2]]}
  BY DEF SharedDomains
<1>5. IsFiniteSet(shared)
  BY <1>3, <1>4, FS_Subset
<1>6. shared # {} <=>
          \E other \in PeerElements(c) :
             \E d \in input.memberships[ref] \cap input.memberships[other] :
                 input.domain_class[d] = class
  <2>1. ASSUME NEW pair \in shared
        PROVE  /\ pair[2] \in PeerElements(c)
               /\ pair[1] \in input.memberships[ref] \cap input.memberships[pair[2]]
               /\ input.domain_class[pair[1]] = class
    BY <1>4 DEF OfClass
  <2>2. ASSUME NEW other \in PeerElements(c),
               NEW d \in input.memberships[ref] \cap input.memberships[other],
               input.domain_class[d] = class
        PROVE  <<d, other>> \in shared
    BY <1>4, <2>2 DEF OfClass
  <2> HIDE DEF shared
  <2>3. QED  BY <2>1, <2>2
<1> HIDE DEF shared
<1>7. QED  BY <1>5, <1>6, FS_CardinalityType, FS_EmptySet DEF shared, Shares, ref

LEMMA DiversityClassesFacts ==
    ASSUME InputOK, NEW c \in DomainConstraint
    PROVE  DiversityClasses(c) \in Seq(ToSet(DomainClassKinds))
<1> DEFINE names == ToSet(DomainClassKinds)
<1>1. DomainClassKinds \in Seq(names)
  <2>1. \A i \in 1 .. 10 : DomainClassKinds[i] \in names
    BY ClassKinds
  <2>2. DomainClassKinds = [i \in 1 .. 10 |-> DomainClassKinds[i]]
    BY ClassKinds DEF DomainClassKinds
  <2> HIDE DEF names
  <2>3. QED  BY <2>1, <2>2, IsASeq
<1>2. DomainClassKinds # <<>>
  BY DEF DomainClassKinds
<1>3. c.diversity_classes \in Seq(names)
  BY DEF DomainConstraint
<1> HIDE DEF names
<1>4. Tail(DomainClassKinds) \in Seq(names)
  BY <1>1, <1>2, HeadTailProperties
<1>5. QED  BY <1>3, <1>4 DEF DiversityClasses, names

\* What is said of one class: the hop's finding for every domain shared.
OfSharedClass(c, class) ==
    FlattenSeq([i \in Hops |->
        Repeat(Cardinality(SharedDomains(input.hops[i], c, class)),
               Hard("FAILURE_DOMAIN_VIOLATION", input.hops[i].ref))])

LEMMA SharedClassDecides ==
    ASSUME InputOK, NEW c \in DomainConstraint, NEW class
    PROVE  /\ OfSharedClass(c, class) \in Seq(Finding(Codes["FAILURE_DOMAIN"]))
           /\ \A x : Raises(OfSharedClass(c, class), x) <=>
                        x = "HARD" /\ \E i \in Hops : Shares(i, c, class)
<1> DEFINE codes == Codes["FAILURE_DOMAIN"]
           Violates(i) == Hard("FAILURE_DOMAIN_VIOLATION", input.hops[i].ref)
           Number(i) == Cardinality(SharedDomains(input.hops[i], c, class))
           each == [i \in Hops |-> Repeat(Number(i), Violates(i))]
<1>1. \A i \in Hops : /\ Violates(i) \in Seq(Finding(codes))
                      /\ \A x : Raises(Violates(i), x) <=> x = "HARD"
  BY PathFacts, StageCodes, HardRaises
<1>2. \A i \in Hops : Number(i) \in Nat /\ (Number(i) # 0 <=> Shares(i, c, class))
  BY SharedDomainsFacts
<1>3. \A i \in Hops : each[i] = Repeat(Number(i), Violates(i))
  OBVIOUS
<1>4. OfSharedClass(c, class) = FlattenSeq(each)
  BY DEF OfSharedClass
<1> HIDE DEF codes, Violates, Number
<1>5. \A i \in Hops : /\ each[i] \in Seq(Finding(codes))
                      /\ \A x : Raises(each[i], x) <=> x = "HARD" /\ Shares(i, c, class)
  <2> HIDE DEF each
  <2> TAKE i \in Hops
  <2>1. Repeat(Number(i), Violates(i)) \in Seq(Finding(codes))
    BY <1>1, <1>2, RepeatRaises
  <2>2. \A x : Raises(Repeat(Number(i), Violates(i)), x) <=> Number(i) # 0 /\ Raises(Violates(i), x)
    BY <1>1, <1>2, RepeatRaises
  <2>3. QED  BY <1>1, <1>2, <1>3, <2>1, <2>2
<1>6. each \in [Hops -> Seq(Finding(codes))]
  BY <1>5
<1> HIDE DEF each
<1>7. /\ FlattenSeq(each) \in Seq(Finding(codes))
      /\ \A x : Raises(FlattenSeq(each), x) <=> \E i \in Hops : Raises(each[i], x)
  BY <1>6, OnHopsRaises
<1>8. ASSUME NEW x
      PROVE  Raises(FlattenSeq(each), x) <=> x = "HARD" /\ \E i \in Hops : Shares(i, c, class)
  <2>1. Raises(FlattenSeq(each), x) <=> \E i \in Hops : Raises(each[i], x)
    BY <1>7
  <2>2. \A i \in Hops : Raises(each[i], x) <=> x = "HARD" /\ Shares(i, c, class)
    BY <1>5
  <2>3. QED  BY <2>1, <2>2
<1>9. QED  BY <1>4, <1>7, <1>8 DEF codes

\* Where a constraint asks for a path diverse from a peer's.
LEMMA DiversityDecides ==
    ASSUME InputOK, NEW c \in DomainConstraint
    PROVE  LET said == CheckDiversity(c) IN
           /\ said \in Seq(Finding(Codes["FAILURE_DOMAIN"]))
           /\ Raises(said, "HARD") <=> ~ (AllCovered /\ Disjoint(c))
           /\ ~Raises(said, "CONDITION")
<1> DEFINE codes == Codes["FAILURE_DOMAIN"]
           Violates(i) == Hard("FAILURE_DOMAIN_VIOLATION", input.hops[i].ref)
           unknown == CoverageUnknown(c.peer)
           classes == DiversityClasses(c)
           n == Len(classes)
           element == [i \in Hops |-> IF input.hops[i].ref \in PeerElements(c)
                                      THEN Violates(i) ELSE <<>>]
           each == [k \in 1 .. n |-> OfSharedClass(c, classes[k])]
           Known == /\ Established(c)
                    /\ \A ref \in PeerElements(c) : input.coverage[ref]
                    /\ AllCovered
<1>1. \A i \in Hops : /\ Violates(i) \in Seq(Finding(codes))
                      /\ \A x : Raises(Violates(i), x) <=> x = "HARD"
  BY PathFacts, StageCodes, HardRaises
<1>2. unknown \in Seq(Finding(codes)) /\ \A x : Raises(unknown, x) <=> x = "HARD"
  <2>1. c.peer \in Subjects
    BY DEF DomainConstraint, Subjects
  <2>2. QED  BY <2>1, StageCodes, CoverageUnknownRaises
<1>3. <<>> \in Seq(Finding(codes)) /\ \A x : ~Raises(<<>>, x)
  BY NothingRaises
<1>4. n \in Nat /\ DOMAIN classes = 1 .. n /\ ToSet(classes) = {classes[k] : k \in 1 .. n}
  <2> HIDE DEF classes
  <2>1. classes \in Seq(ToSet(DomainClassKinds))
    BY DiversityClassesFacts DEF classes
  <2>2. QED  BY <2>1, SequenceElements
<1>5. /\ element \in [Hops -> Seq(Finding(codes))]
      /\ \A i \in Hops : \A x : Raises(element[i], x) <=>
            input.hops[i].ref \in PeerElements(c) /\ x = "HARD"
  BY <1>1, <1>3
<1>6. \A k \in 1 .. n : /\ each[k] \in Seq(Finding(codes))
                        /\ \A x : Raises(each[k], x) <=>
                                     x = "HARD" /\ \E i \in Hops : Shares(i, c, classes[k])
  BY SharedClassDecides
<1>7. CheckDiversity(c) = IF ~Known THEN unknown ELSE FlattenSeq(element) \o FlattenSeq(each)
  BY <1>4, Zenon DEF CheckDiversity, AllCovered, OnHops, OfSharedClass
<1>8. AllCovered /\ Disjoint(c) <=>
          /\ Known
          /\ \A i \in Hops : input.hops[i].ref \notin PeerElements(c)
          /\ \A k \in 1 .. n, i \in Hops : ~Shares(i, c, classes[k])
  <2>1. PathElements = {input.hops[i].ref : i \in Hops}
    BY DEF PathElements
  <2>2. PeerElements(c) = input.peers[c.peer].elements
    BY DEF PeerElements
  <2> HIDE DEF classes, n
  <2>3. (\A k \in 1 .. n, i \in Hops : ~Shares(i, c, classes[k])) <=>
            \A ref \in PathElements, other \in PeerElements(c) :
               \A d \in input.memberships[ref] \cap input.memberships[other] :
                   input.domain_class[d] \notin ToSet(classes)
    BY <1>4, <2>1 DEF Shares
  <2>4. (\A i \in Hops : input.hops[i].ref \notin PeerElements(c)) <=>
            \A ref \in PeerElements(c) : ref \notin PathElements
    BY <2>1
  <2>5. QED  BY <2>2, <2>3, <2>4 DEF Disjoint, Established, classes
<1> HIDE DEF element, Known, codes, classes, n, Violates, unknown
<1>9. /\ FlattenSeq(element) \in Seq(Finding(codes))
      /\ \A x : Raises(FlattenSeq(element), x) <=> \E i \in Hops : Raises(element[i], x)
  BY <1>5, OnHopsRaises
<1>11. each \in [1 .. n -> Seq(Finding(codes))]
  BY <1>6
<1> HIDE DEF each
<1>12. /\ FlattenSeq(each) \in Seq(Finding(codes))
       /\ \A x : Raises(FlattenSeq(each), x) <=> \E k \in 1 .. n : Raises(each[k], x)
  BY <1>4, <1>11, FlattenRaises
<1> DEFINE all == FlattenSeq(element) \o FlattenSeq(each)
<1>13. /\ all \in Seq(Finding(codes))
       /\ \A x : Raises(all, x) <=> Raises(FlattenSeq(element), x) \/ Raises(FlattenSeq(each), x)
  BY <1>9, <1>12, ConcatRaises
<1> HIDE DEF all
<1>14. \A x : Raises(all, x) <=>
                 /\ x = "HARD"
                 /\ \/ \E i \in Hops : input.hops[i].ref \in PeerElements(c)
                    \/ \E k \in 1 .. n, i \in Hops : Shares(i, c, classes[k])
  <2> TAKE x
  <2>1. Raises(FlattenSeq(element), x) <=>
            x = "HARD" /\ \E i \in Hops : input.hops[i].ref \in PeerElements(c)
    BY <1>5, <1>9
  <2>2. Raises(FlattenSeq(each), x) <=>
            x = "HARD" /\ \E k \in 1 .. n, i \in Hops : Shares(i, c, classes[k])
    <3>1. Raises(FlattenSeq(each), x) <=> \E k \in 1 .. n : Raises(each[k], x)
      BY <1>12
    <3>2. \A k \in 1 .. n : Raises(each[k], x) <=>
                               x = "HARD" /\ \E i \in Hops : Shares(i, c, classes[k])
      BY <1>6
    <3>3. QED  BY <3>1, <3>2
  <2>3. QED  BY <1>13, <2>1, <2>2
<1>15. QED  BY <1>2, <1>7, <1>8, <1>13, <1>14 DEF codes, all

\* A finding for every domain of a class that a hop is in.
OfForbiddenClass(code, class) ==
    FlattenSeq([i \in Hops |->
        IF Covered(input.hops[i])
        THEN Repeat(Cardinality(OfClass(input.hops[i].ref, class)), Hard(code, input.hops[i].ref))
        ELSE CoverageUnknown(input.hops[i].ref)])

LEMMA ForbiddenClassDecides ==
    ASSUME InputOK, NEW codes, "FAILURE_DOMAIN_COVERAGE_UNKNOWN" \in codes, NEW code \in codes,
           NEW class
    PROVE  /\ OfForbiddenClass(code, class) \in Seq(Finding(codes))
           /\ Raises(OfForbiddenClass(code, class), "HARD") <=>
                 ~ (AllCovered /\ \A ref \in PathElements : Outside(ref, class))
           /\ ~Raises(OfForbiddenClass(code, class), "CONDITION")
<1> DEFINE Violates(i) == Hard(code, input.hops[i].ref)
           Number(i) == Cardinality(OfClass(input.hops[i].ref, class))
           said == [i \in Hops |-> Repeat(Number(i), Violates(i))]
           all == FlattenSeq([i \in Hops |-> IF Covered(input.hops[i]) THEN said[i]
                                             ELSE CoverageUnknown(input.hops[i].ref)])
<1>1. \A i \in Hops : /\ Violates(i) \in Seq(Finding(codes))
                      /\ \A x : Raises(Violates(i), x) <=> x = "HARD"
  BY PathFacts, HardRaises
<1>2. \A i \in Hops : /\ Number(i) \in Nat
                      /\ Number(i) # 0 <=> ~Outside(input.hops[i].ref, class)
  BY PathFacts, MembershipFacts
<1>3. \A i \in Hops : said[i] = Repeat(Number(i), Violates(i))
  OBVIOUS
<1>4. OfForbiddenClass(code, class) = all
  BY DEF OfForbiddenClass
<1> HIDE DEF Violates, Number
<1>5. \A i \in Hops : /\ said[i] \in Seq(Finding(codes))
                      /\ Raises(said[i], "HARD") <=> ~Outside(input.hops[i].ref, class)
                      /\ ~Raises(said[i], "CONDITION")
  <2> HIDE DEF said
  <2> TAKE i \in Hops
  <2>1. Repeat(Number(i), Violates(i)) \in Seq(Finding(codes))
    BY <1>1, <1>2, RepeatRaises
  <2>2. \A x : Raises(Repeat(Number(i), Violates(i)), x) <=> Number(i) # 0 /\ Raises(Violates(i), x)
    BY <1>1, <1>2, RepeatRaises
  <2>3. QED  BY <1>1, <1>2, <1>3, <2>1, <2>2
<1>6. said \in [Hops -> Seq(Finding(codes))]
  BY <1>5
<1> HIDE DEF said
<1>7. /\ all \in Seq(Finding(codes))
      /\ Raises(all, "HARD") <=> ~AllCovered \/ \E i \in Hops : Raises(said[i], "HARD")
      /\ ~Raises(all, "CONDITION")
  BY <1>5, <1>6, CoveredHopsDecide
<1> HIDE DEF all
<1>8. (\E i \in Hops : Raises(said[i], "HARD")) <=> ~ \A ref \in PathElements : Outside(ref, class)
  BY <1>5 DEF PathElements
<1>9. QED  BY <1>4, <1>7, <1>8

LEMMA ForbiddenDomainDecides ==
    ASSUME InputOK, NEW c \in DomainConstraint, c.kind = "FORBIDDEN_DOMAIN"
    PROVE  LET all == CheckDomains(c) IN
           /\ all \in Seq(Finding(Codes["FAILURE_DOMAIN"]))
           /\ Raises(all, "HARD") <=>
                 ~ (AllCovered /\ \A ref \in PathElements : c.domain \notin input.memberships[ref])
           /\ ~Raises(all, "CONDITION")
<1> DEFINE codes == Codes["FAILURE_DOMAIN"]
           Violates(i) == Hard("FAILURE_DOMAIN_VIOLATION", input.hops[i].ref)
           Inside(i) == c.domain \in input.memberships[input.hops[i].ref]
           said == [i \in Hops |-> IF Inside(i) THEN Violates(i) ELSE <<>>]
           all == FlattenSeq([i \in Hops |-> IF Covered(input.hops[i]) THEN said[i]
                                             ELSE CoverageUnknown(input.hops[i].ref)])
<1>1. \A i \in Hops : /\ Violates(i) \in Seq(Finding(codes))
                      /\ \A x : Raises(Violates(i), x) <=> x = "HARD"
  BY PathFacts, StageCodes, HardRaises
<1>2. <<>> \in Seq(Finding(codes)) /\ \A x : ~Raises(<<>>, x)
  BY NothingRaises
<1>3. CheckDomains(c) = all
  BY Zenon DEF CheckDomains, OnCoveredHops, OnHops
<1> HIDE DEF Violates, Inside, codes
<1>4. \A i \in Hops : /\ said[i] \in Seq(Finding(codes))
                      /\ Raises(said[i], "HARD") <=> Inside(i)
                      /\ ~Raises(said[i], "CONDITION")
  BY <1>1, <1>2
<1>5. said \in [Hops -> Seq(Finding(codes))]
  BY <1>4
<1>6. "FAILURE_DOMAIN_COVERAGE_UNKNOWN" \in codes
  BY StageCodes DEF codes
<1> HIDE DEF said
<1>7. /\ all \in Seq(Finding(codes))
      /\ Raises(all, "HARD") <=> ~AllCovered \/ \E i \in Hops : Raises(said[i], "HARD")
      /\ ~Raises(all, "CONDITION")
  BY <1>4, <1>5, <1>6, CoveredHopsDecide
<1> HIDE DEF all
<1>8. (\E i \in Hops : Inside(i)) <=>
          ~ \A ref \in PathElements : c.domain \notin input.memberships[ref]
  BY DEF PathElements, Inside
<1>9. QED  BY <1>3, <1>4, <1>7, <1>8 DEF codes

LEMMA DomainCountDecides ==
    ASSUME InputOK, NEW c \in DomainConstraint, c.kind = "MAX_MEMBERS_FROM_DOMAIN"
    PROVE  LET all == CheckDomains(c) IN
           /\ all \in Seq(Finding(Codes["FAILURE_DOMAIN"]))
           /\ Raises(all, "HARD") <=>
                 ~ (AllCovered /\ AtMost(c.max_members,
                                         LAMBDA ref : c.domain \in input.memberships[ref]))
           /\ ~Raises(all, "CONDITION")
<1> DEFINE members == {i \in Hops : c.domain \in input.memberships[input.hops[i].ref]}
           all == CheckCount(members, c.max_members, c.domain)
<1>1. CheckDomains(c) = all
  BY Zenon DEF CheckDomains
<1>2. AtMost(c.max_members, LAMBDA ref : c.domain \in input.memberships[ref]) <=>
          Cardinality(members) <= c.max_members
  BY Zenon DEF AtMost
<1>3. members \in SUBSET Hops /\ c.max_members \in Nat /\ c.domain \in Subjects
  BY DEF DomainConstraint, Subjects
<1> HIDE DEF members
<1>4. /\ all \in Seq(Finding(Codes["FAILURE_DOMAIN"]))
      /\ Raises(all, "HARD") <=> ~AllCovered \/ ~ (Cardinality(members) <= c.max_members)
      /\ ~Raises(all, "CONDITION")
  BY <1>3, CountDecides
<1> HIDE DEF all
<1>5. QED  BY <1>1, <1>2, <1>4

LEMMA ClassCountDecides ==
    ASSUME InputOK, NEW c \in DomainConstraint, c.kind = "MAX_MEMBERS_FROM_CLASS"
    PROVE  LET all == CheckDomains(c) IN
           /\ all \in Seq(Finding(Codes["FAILURE_DOMAIN"]))
           /\ Raises(all, "HARD") <=>
                 ~ (AllCovered /\ AtMost(c.max_members, LAMBDA ref : ~Outside(ref, c.domain_class)))
           /\ ~Raises(all, "CONDITION")
<1> DEFINE members == {i \in Hops : OfClass(input.hops[i].ref, c.domain_class) # {}}
           counted == {i \in Hops : ~Outside(input.hops[i].ref, c.domain_class)}
           all == CheckCount(members, c.max_members, c.domain_class)
<1>1. CheckDomains(c) = all
  BY Zenon DEF CheckDomains
<1>2. AtMost(c.max_members, LAMBDA ref : ~Outside(ref, c.domain_class)) <=>
          Cardinality(counted) <= c.max_members
  BY Zenon DEF AtMost
<1>3. \A i \in Hops : OfClass(input.hops[i].ref, c.domain_class) # {} <=>
                          ~Outside(input.hops[i].ref, c.domain_class)
  BY PathFacts, MembershipFacts
<1>4. members = counted
  BY <1>3
<1>5. members \in SUBSET Hops /\ c.max_members \in Nat /\ c.domain_class \in Subjects
  BY DEF DomainConstraint, Subjects
<1> HIDE DEF members, counted
<1>6. /\ all \in Seq(Finding(Codes["FAILURE_DOMAIN"]))
      /\ Raises(all, "HARD") <=> ~AllCovered \/ ~ (Cardinality(members) <= c.max_members)
      /\ ~Raises(all, "CONDITION")
  BY <1>5, CountDecides
<1> HIDE DEF all
<1>7. QED  BY <1>1, <1>2, <1>4, <1>6

LEMMA CoverageDecides ==
    ASSUME InputOK, NEW c \in DomainConstraint, c.kind = "REQUIRE_COVERAGE_COMPLETENESS"
    PROVE  LET all == CheckDomains(c) IN
           /\ all \in Seq(Finding(Codes["FAILURE_DOMAIN"]))
           /\ Raises(all, "HARD") <=> ~AllCovered
           /\ ~Raises(all, "CONDITION")
<1> DEFINE codes == Codes["FAILURE_DOMAIN"]
           said == [i \in Hops |-> <<>>]
           all == FlattenSeq([i \in Hops |-> IF Covered(input.hops[i]) THEN said[i]
                                             ELSE CoverageUnknown(input.hops[i].ref)])
<1>1. CheckDomains(c) = all
  BY Zenon DEF CheckDomains, OnCoveredHops, OnHops
<1> HIDE DEF codes
<1>2. said \in [Hops -> Seq(Finding(codes))] /\ \A i \in Hops : \A x : ~Raises(said[i], x)
  BY NothingRaises
<1>3. "FAILURE_DOMAIN_COVERAGE_UNKNOWN" \in codes
  BY StageCodes DEF codes
<1> HIDE DEF said
<1>4. /\ all \in Seq(Finding(codes))
      /\ Raises(all, "HARD") <=> ~AllCovered \/ \E i \in Hops : Raises(said[i], "HARD")
      /\ ~Raises(all, "CONDITION")
  BY <1>2, <1>3, CoveredHopsDecide
<1> HIDE DEF all
<1>5. QED  BY <1>1, <1>2, <1>4 DEF codes

\* Whatever a constraint asks for, its check is hard unless it is satisfied.
LEMMA ConstraintDecides ==
    ASSUME InputOK, NEW c \in DomainConstraint
    PROVE  LET all == CheckDomains(c) IN
           /\ all \in Seq(Finding(Codes["FAILURE_DOMAIN"]))
           /\ Raises(all, "HARD") <=> ~Satisfied(c)
           /\ ~Raises(all, "CONDITION")
<1>1. AllCovered <=> \A ref \in PathElements : input.coverage[ref]
  BY AllCoveredMeans
<1>2. c.kind \in {"FORBIDDEN_DOMAIN", "MAX_MEMBERS_FROM_DOMAIN", "MAX_MEMBERS_FROM_CLASS",
                  "EXCLUDE_DOMAIN_CLASS", "REQUIRE_COVERAGE_COMPLETENESS",
                  "DIVERSE_FROM_PEER_PATH"}
  <2>1. c.kind \in ToSet(FailureDomainConstraintKinds)
    BY DEF DomainConstraint
  <2>2. QED  BY <2>1 DEF ToSet, FailureDomainConstraintKinds
<1>3. CASE c.kind = "FORBIDDEN_DOMAIN"
  <2>1. Satisfied(c) <=>
            AllCovered /\ \A ref \in PathElements : c.domain \notin input.memberships[ref]
    BY <1>1, <1>3, Zenon DEF Satisfied
  <2>2. QED  BY <1>3, <2>1, ForbiddenDomainDecides
<1>4. CASE c.kind = "MAX_MEMBERS_FROM_DOMAIN"
  <2>1. Satisfied(c) <=>
            AllCovered /\ AtMost(c.max_members, LAMBDA ref : c.domain \in input.memberships[ref])
    BY <1>1, <1>4, Zenon DEF Satisfied
  <2>2. QED  BY <1>4, <2>1, DomainCountDecides
<1>5. CASE c.kind = "MAX_MEMBERS_FROM_CLASS"
  <2>1. Satisfied(c) <=>
            AllCovered /\ AtMost(c.max_members, LAMBDA ref : ~Outside(ref, c.domain_class))
    BY <1>1, <1>5, Zenon DEF Satisfied
  <2>2. QED  BY <1>5, <2>1, ClassCountDecides
<1>6. CASE c.kind = "EXCLUDE_DOMAIN_CLASS"
  <2>1. Satisfied(c) <=>
            AllCovered /\ \A ref \in PathElements : Outside(ref, c.domain_class)
    BY <1>1, <1>6, Zenon DEF Satisfied
  <2>2. CheckDomains(c) = OfForbiddenClass("FAILURE_DOMAIN_VIOLATION", c.domain_class)
    BY <1>6, Zenon DEF CheckDomains, OnCoveredHops, OnHops, OfForbiddenClass
  <2>3. QED  BY <2>1, <2>2, StageCodes, ForbiddenClassDecides
<1>7. CASE c.kind = "REQUIRE_COVERAGE_COMPLETENESS"
  <2>1. Satisfied(c) <=> AllCovered
    BY <1>1, <1>7, Zenon DEF Satisfied
  <2>2. QED  BY <1>7, <2>1, CoverageDecides
<1>8. CASE c.kind = "DIVERSE_FROM_PEER_PATH"
  <2>1. Satisfied(c) <=> AllCovered /\ Disjoint(c)
    BY <1>1, <1>8, Zenon DEF Satisfied
  <2>2. CheckDomains(c) = CheckDiversity(c)
    BY <1>8, Zenon DEF CheckDomains
  <2>3. QED  BY <2>1, <2>2, DiversityDecides
<1>9. QED  BY <1>2, <1>3, <1>4, <1>5, <1>6, <1>7, <1>8

LEMMA FailureDomainDecides ==
    ASSUME InputOK
    PROVE  /\ FailureDomain \in Seq(Finding(Codes["FAILURE_DOMAIN"]))
           /\ Raises(FailureDomain, "HARD") <=> ~Proven("FAILURE_DOMAIN")
           /\ ~Raises(FailureDomain, "CONDITION")
<1> DEFINE codes == Codes["FAILURE_DOMAIN"]
           entries == rules.failure_domains
           n == Len(entries)
           said == [i \in 1 .. n |-> CheckDomains(entries[i])]
<1>1. /\ n \in Nat /\ DOMAIN entries = 1 .. n
      /\ \A i \in 1 .. n : entries[i] \in DomainConstraint
      /\ ToSet(entries) = {entries[i] : i \in 1 .. n}
  <2>1. entries \in Seq(DomainConstraint)
    BY CombinedFailureDomains
  <2> HIDE DEF entries
  <2>2. QED  BY <2>1, SequenceElements
<1>2. \A i \in 1 .. n : /\ said[i] \in Seq(Finding(codes))
                        /\ Raises(said[i], "HARD") <=> ~Satisfied(entries[i])
                        /\ ~Raises(said[i], "CONDITION")
  BY <1>1, ConstraintDecides
<1>3. said \in [1 .. n -> Seq(Finding(codes))]
  BY <1>2
<1>4. FailureDomain = FlattenSeq(said)
  BY <1>1 DEF FailureDomain
<1>5. Proven("FAILURE_DOMAIN") <=> \A c \in ToSet(entries) : Satisfied(c)
  BY CombinedFailureDomains DEF Proven
<1> HIDE DEF said, codes, n, entries
<1>6. /\ FlattenSeq(said) \in Seq(Finding(codes))
      /\ \A x : Raises(FlattenSeq(said), x) <=> \E i \in 1 .. n : Raises(said[i], x)
  BY <1>1, <1>3, FlattenRaises
<1>7. Raises(FailureDomain, "HARD") <=> ~Proven("FAILURE_DOMAIN")
  BY <1>1, <1>2, <1>4, <1>5, <1>6
<1>8. QED  BY <1>2, <1>4, <1>6, <1>7 DEF codes

-----------------------------------------------------------------------------
(* Policy.                                                                 *)

\* A path is at as many elements as it has hops unless it is at one of them twice.
LEMMA LoopFacts ==
    ASSUME InputOK
    PROVE  Cardinality(PathElements) = Len(input.hops) <=>
               \A i \in Hops : \A j \in 1 .. i - 1 : input.hops[j].ref # input.hops[i].ref
<1> DEFINE n == Len(input.hops)
           at == [i \in 1 .. n |-> input.hops[i].ref]
<1>1. n \in Nat /\ Hops = 1 .. n
  BY PathFacts
<1>2. at \in Surjection(1 .. n, PathElements)
  BY <1>1 DEF PathElements, Surjection
<1>3. \A i \in 1 .. n : at[i] = input.hops[i].ref
  OBVIOUS
<1> HIDE DEF at, n
<1>4. IsFiniteSet(1 .. n) /\ Cardinality(1 .. n) = n
  BY <1>1, FS_Interval
<1>5. Cardinality(PathElements) = n <=> at \in Injection(1 .. n, PathElements)
  BY <1>2, <1>4, FS_Surjection
<1>6. at \in Injection(1 .. n, PathElements) <=>
          \A i, j \in 1 .. n : at[i] = at[j] => i = j
  BY <1>2 DEF Injection, IsInjective, Surjection
<1>7. (\A i, j \in 1 .. n : at[i] = at[j] => i = j) <=>
          \A i \in 1 .. n : \A j \in 1 .. i - 1 : at[j] # at[i]
  <2>1. ASSUME \A i \in 1 .. n : \A j \in 1 .. i - 1 : at[j] # at[i],
               NEW i \in 1 .. n, NEW j \in 1 .. n, at[i] = at[j]
        PROVE  i = j
    <3>1. CASE i < j
      <4>1. i \in 1 .. j - 1
        BY <1>1, <3>1
      <4>2. QED  BY <2>1, <4>1
    <3>2. CASE j < i
      <4>1. j \in 1 .. i - 1
        BY <1>1, <3>2
      <4>2. QED  BY <2>1, <4>1
    <3>3. QED  BY <1>1, <3>1, <3>2
  <2>2. ASSUME \A i, j \in 1 .. n : at[i] = at[j] => i = j,
               NEW i \in 1 .. n, NEW j \in 1 .. i - 1
        PROVE  at[j] # at[i]
    <3>1. j \in 1 .. n /\ j # i
      BY <1>1
    <3>2. QED  BY <2>2, <3>1
  <2>3. QED  BY <2>1, <2>2
<1>8. (\A i \in 1 .. n : \A j \in 1 .. i - 1 : at[j] # at[i]) <=>
          \A i \in 1 .. n : \A j \in 1 .. i - 1 : input.hops[j].ref # input.hops[i].ref
  <2>1. \A i \in 1 .. n : \A j \in 1 .. i - 1 : j \in 1 .. n
    BY <1>1
  <2>2. QED  BY <1>3, <2>1
<1>9. QED  BY <1>1, <1>5, <1>6, <1>7, <1>8 DEF n

LEMMA LayersDecide ==
    ASSUME InputOK
    PROVE  LET all == OnHops(CheckLayer) IN
           /\ all \in Seq(Finding(Codes["POLICY"]))
           /\ Raises(all, "HARD") <=>
                 ~ (NoLayerLeft \/ \A i \in Hops : LayerPermitted(input.hops[i].layer))
           /\ ~Raises(all, "CONDITION")
<1> DEFINE codes == Codes["POLICY"]
           Rejects(i) == PolicyRejected(input.hops[i].ref)
           said == [i \in Hops |-> CheckLayer(input.hops[i])]
<1>1. \A i \in Hops : /\ Rejects(i) \in Seq(Finding(codes))
                      /\ \A x : Raises(Rejects(i), x) <=> x = "HARD"
  BY PathFacts, StageCodes, HardRaises DEF PolicyRejected
<1>2. <<>> \in Seq(Finding(codes)) /\ \A x : ~Raises(<<>>, x)
  BY NothingRaises
<1>3. \A i \in Hops : allows(rules, input.hops[i].layer) <=>
                          NoLayerLeft \/ LayerPermitted(input.hops[i].layer)
  BY PathFacts, CombinedLayersPermit
<1>4. \A i \in Hops : said[i] = IF allows(rules, input.hops[i].layer) THEN <<>> ELSE Rejects(i)
  BY DEF CheckLayer
<1>5. OnHops(CheckLayer) = FlattenSeq(said)
  BY DEF OnHops
<1> HIDE DEF codes, Rejects
<1>6. said \in [Hops -> Seq(Finding(codes))]
  BY <1>1, <1>2, <1>4
<1> HIDE DEF said
<1>7. \A i \in Hops : /\ Raises(said[i], "HARD") <=>
                            ~ (NoLayerLeft \/ LayerPermitted(input.hops[i].layer))
                      /\ ~Raises(said[i], "CONDITION")
  BY <1>1, <1>2, <1>3, <1>4
<1>8. /\ FlattenSeq(said) \in Seq(Finding(codes))
      /\ \A x : Raises(FlattenSeq(said), x) <=> \E i \in Hops : Raises(said[i], x)
  BY <1>6, OnHopsRaises
<1>9. QED  BY <1>5, <1>7, <1>8 DEF codes

LEMMA LoopsDecide ==
    ASSUME InputOK
    PROVE  LET all == FlattenSeq([i \in Hops |-> CheckLoop(i)]) IN
           /\ all \in Seq(Finding(Codes["POLICY"]))
           /\ Raises(all, "HARD") <=>
                 ~ (\/ Cardinality(PathElements) = Len(input.hops)
                    \/ input.constraints.allow_loops /\ input.policy.allow_loops)
           /\ ~Raises(all, "CONDITION")
<1> DEFINE codes == Codes["POLICY"]
           Rejects(i) == PolicyRejected(input.hops[i].ref)
           Again(i) == \E j \in 1 .. i - 1 : input.hops[j].ref = input.hops[i].ref
           said == [i \in Hops |-> CheckLoop(i)]
<1>1. \A i \in Hops : /\ Rejects(i) \in Seq(Finding(codes))
                      /\ \A x : Raises(Rejects(i), x) <=> x = "HARD"
  BY PathFacts, StageCodes, HardRaises DEF PolicyRejected
<1>2. <<>> \in Seq(Finding(codes)) /\ \A x : ~Raises(<<>>, x)
  BY NothingRaises
<1>3. rules.allow_loops = (input.constraints.allow_loops /\ input.policy.allow_loops)
  BY RulesUnfold
<1>4. \A i \in Hops : said[i] = IF ~rules.allow_loops /\ Again(i) THEN Rejects(i) ELSE <<>>
  BY DEF CheckLoop
<1>5. Cardinality(PathElements) = Len(input.hops) <=> \A i \in Hops : ~Again(i)
  BY LoopFacts
<1> HIDE DEF codes, Rejects, Again
<1>6. said \in [Hops -> Seq(Finding(codes))]
  BY <1>1, <1>2, <1>4
<1> HIDE DEF said
<1>7. \A i \in Hops : /\ Raises(said[i], "HARD") <=> ~rules.allow_loops /\ Again(i)
                      /\ ~Raises(said[i], "CONDITION")
  BY <1>1, <1>2, <1>4
<1>8. /\ FlattenSeq(said) \in Seq(Finding(codes))
      /\ \A x : Raises(FlattenSeq(said), x) <=> \E i \in Hops : Raises(said[i], x)
  BY <1>6, OnHopsRaises
<1>9. QED  BY <1>3, <1>5, <1>7, <1>8 DEF codes, said

LEMMA ForbiddenClassesDecide ==
    ASSUME InputOK
    PROVE  LET classes == rules.forbidden_domain_classes
               all == FlattenSeq([i \in DOMAIN classes |-> CheckForbiddenClass(classes[i])])
           IN  /\ all \in Seq(Finding(Codes["POLICY"]))
               /\ Raises(all, "HARD") <=>
                     ~ \A class \in input.policy.forbidden_domain_classes, ref \in PathElements :
                           input.coverage[ref] /\ Outside(ref, class)
               /\ ~Raises(all, "CONDITION")
<1> DEFINE codes == Codes["POLICY"]
           classes == rules.forbidden_domain_classes
           n == Len(classes)
           said == [i \in 1 .. n |-> CheckForbiddenClass(classes[i])]
           Kept(class) == AllCovered /\ \A ref \in PathElements : Outside(ref, class)
<1>1. /\ n \in Nat /\ DOMAIN classes = 1 .. n
      /\ input.policy.forbidden_domain_classes = {classes[i] : i \in 1 .. n}
  <2>1. classes \in Seq(ToSet(DomainClassKinds))
    BY CombinedForbiddenClasses
  <2>2. ToSet(classes) = input.policy.forbidden_domain_classes
    BY CombinedForbiddenClasses
  <2> DEFINE names == ToSet(DomainClassKinds)
  <2> HIDE DEF classes, names
  <2>3. QED  BY <2>1, <2>2, SequenceElements DEF names
<1>2. \A i \in 1 .. n : said[i] = OfForbiddenClass("POLICY_REJECTED", classes[i])
  BY Zenon DEF CheckForbiddenClass, OnCoveredHops, OnHops, OfForbiddenClass, PolicyRejected
<1>3. \A i \in 1 .. n : /\ said[i] \in Seq(Finding(codes))
                        /\ Raises(said[i], "HARD") <=> ~Kept(classes[i])
                        /\ ~Raises(said[i], "CONDITION")
  <2> HIDE DEF said
  <2>1. QED  BY <1>2, StageCodes, ForbiddenClassDecides
<1>4. said \in [1 .. n -> Seq(Finding(codes))]
  BY <1>3
<1>5. FlattenSeq([i \in DOMAIN classes |-> CheckForbiddenClass(classes[i])]) = FlattenSeq(said)
  BY <1>1
<1>6. (\A class \in input.policy.forbidden_domain_classes, ref \in PathElements :
           input.coverage[ref] /\ Outside(ref, class)) <=>
      \A class \in input.policy.forbidden_domain_classes : Kept(class)
  <2>1. AllCovered <=> \A ref \in PathElements : input.coverage[ref]
    BY AllCoveredMeans
  <2>2. QED  BY <2>1
<1> HIDE DEF said, codes, Kept, n
<1>7. /\ FlattenSeq(said) \in Seq(Finding(codes))
      /\ \A x : Raises(FlattenSeq(said), x) <=> \E i \in 1 .. n : Raises(said[i], x)
  BY <1>1, <1>4, FlattenRaises
<1>8. Raises(FlattenSeq(said), "HARD") <=>
          ~ \A class \in input.policy.forbidden_domain_classes : Kept(class)
  BY <1>1, <1>3, <1>7
<1>9. QED  BY <1>3, <1>5, <1>6, <1>7, <1>8 DEF codes

LEMMA PolicyDecides ==
    ASSUME InputOK, Len(input.hops) <= input.limits.max_hops
    PROVE  /\ Policy \in Seq(Finding(Codes["POLICY"]))
           /\ Raises(Policy, "HARD") <=> ~Proven("POLICY")
           /\ ~Raises(Policy, "CONDITION")
<1> DEFINE codes == Codes["POLICY"]
           classes == rules.forbidden_domain_classes
           layers == OnHops(CheckLayer)
           loops == FlattenSeq([i \in Hops |-> CheckLoop(i)])
           bound == IF Len(input.hops) > rules.max_hops THEN PolicyRejected("path") ELSE <<>>
           forbidden == FlattenSeq([i \in DOMAIN classes |-> CheckForbiddenClass(classes[i])])
           LayersKept == NoLayerLeft \/ \A i \in Hops : LayerPermitted(input.hops[i].layer)
           LoopsKept == \/ Cardinality(PathElements) = Len(input.hops)
                        \/ input.constraints.allow_loops /\ input.policy.allow_loops
           BoundKept == WithinBound(input.constraints.max_hops) /\ WithinBound(input.policy.max_hops)
           ClassesKept ==
               \A class \in input.policy.forbidden_domain_classes, ref \in PathElements :
                   input.coverage[ref] /\ Outside(ref, class)
<1>1. /\ layers \in Seq(Finding(codes))
      /\ Raises(layers, "HARD") <=> ~LayersKept
      /\ ~Raises(layers, "CONDITION")
  BY LayersDecide
<1>2. /\ loops \in Seq(Finding(codes))
      /\ Raises(loops, "HARD") <=> ~LoopsKept
      /\ ~Raises(loops, "CONDITION")
  BY LoopsDecide
<1>3. /\ bound \in Seq(Finding(codes))
      /\ Raises(bound, "HARD") <=> ~BoundKept
      /\ ~Raises(bound, "CONDITION")
  <2>1. "path" \in Subjects
    BY DEF Subjects
  <2>2. /\ PolicyRejected("path") \in Seq(Finding(codes))
        /\ \A x : Raises(PolicyRejected("path"), x) <=> x = "HARD"
    BY <2>1, StageCodes, HardRaises DEF PolicyRejected
  <2>3. <<>> \in Seq(Finding(codes)) /\ \A x : ~Raises(<<>>, x)
    BY NothingRaises
  <2>4. Len(input.hops) > rules.max_hops <=> ~BoundKept
    <3>1. Len(input.hops) \in Nat /\ rules.max_hops \in Nat
      BY PathFacts, CombinedHopBound
    <3>2. Len(input.hops) <= rules.max_hops <=> BoundKept
      BY CombinedHopBound
    <3>3. QED  BY <3>1, <3>2
  <2> HIDE DEF codes, BoundKept
  <2>5. QED  BY <2>2, <2>3, <2>4
<1>4. /\ forbidden \in Seq(Finding(codes))
      /\ Raises(forbidden, "HARD") <=> ~ClassesKept
      /\ ~Raises(forbidden, "CONDITION")
  BY ForbiddenClassesDecide
<1>5. Policy = layers \o loops \o bound \o forbidden
  BY Zenon DEF Policy
<1>6. Proven("POLICY") <=> LayersKept /\ LoopsKept /\ BoundKept /\ ClassesKept
  BY DEF Proven
<1> HIDE DEF codes, classes, layers, loops, bound, forbidden, LayersKept, LoopsKept, BoundKept,
             ClassesKept
<1>7. /\ layers \o loops \in Seq(Finding(codes))
      /\ \A x : Raises(layers \o loops, x) <=> Raises(layers, x) \/ Raises(loops, x)
  <2>1. layers \in Seq(Finding(codes)) /\ loops \in Seq(Finding(codes))
    BY <1>1, <1>2
  <2>2. QED  BY <2>1, ConcatRaises
<1>8. /\ layers \o loops \o bound \in Seq(Finding(codes))
      /\ \A x : Raises(layers \o loops \o bound, x) <=>
                   Raises(layers \o loops, x) \/ Raises(bound, x)
  BY <1>3, <1>7, ConcatRaises
<1> DEFINE three == layers \o loops \o bound
<1>9. /\ three \o forbidden \in Seq(Finding(codes))
      /\ \A x : Raises(three \o forbidden, x) <=> Raises(three, x) \/ Raises(forbidden, x)
  <2>1. three \in Seq(Finding(codes))
    BY <1>8
  <2> HIDE DEF three
  <2>2. QED  BY <1>4, <2>1, ConcatRaises
<1>10. Raises(Policy, "HARD") <=> ~Proven("POLICY")
  BY <1>1, <1>2, <1>3, <1>4, <1>5, <1>6, <1>7, <1>8, <1>9
<1>11. ~Raises(Policy, "CONDITION")
  BY <1>1, <1>2, <1>3, <1>4, <1>5, <1>7, <1>8, <1>9
<1>12. QED  BY <1>5, <1>9, <1>10, <1>11 DEF codes

-----------------------------------------------------------------------------
(* The stages together.                                                    *)

LEMMA StageNames ==
    /\ DOMAIN Stages = 1 .. 7 /\ Len(Stages) = 7
    /\ Stages[1] = "STRUCTURAL_TOPOLOGY" /\ Stages[2] = "BOUND_INPUT_CURRENTNESS"
    /\ Stages[3] = "PORT_ADMINISTRATIVE" /\ Stages[4] = "LINK_STATE"
    /\ Stages[5] = "CAPABILITY" /\ Stages[6] = "FAILURE_DOMAIN" /\ Stages[7] = "POLICY"
    /\ ToSet(Stages) = {Stages[i] : i \in 1 .. 7}
BY DEF Stages, ToSet

LEMMA Numbers == ASSUME NEW i \in 1 .. 7 PROVE i \in {1, 2, 3, 4, 5, 6, 7}
OBVIOUS

\* What each stage raises, by its place.
LEMMA StageRaises ==
    /\ Raised(Stages[1]) = StructuralTopology
    /\ Raised(Stages[2]) = BoundInputCurrentness
    /\ Raised(Stages[3]) = OnHops(CheckPort)
    /\ Raised(Stages[4]) = OnHops(CheckLink)
    /\ Raised(Stages[5]) = Capability
    /\ Raised(Stages[6]) = FailureDomain
    /\ Raised(Stages[7]) = Policy
BY StageNames, Zenon DEF Raised

\* Every stage raises its own codes, and a hard one just where its part of the path is
\* not proven.
LEMMA StageDecides ==
    ASSUME InputOK, Len(input.hops) <= input.limits.max_hops, NEW i \in DOMAIN Stages
    PROVE  /\ Raised(Stages[i]) \in Seq(Finding(Codes[Stages[i]]))
           /\ Raises(Raised(Stages[i]), "HARD") <=> ~Proven(Stages[i])
<1>1. CASE i = 1
  BY <1>1, StageNames, StageRaises, StructureDecides
<1>2. CASE i = 2
  BY <1>2, StageNames, StageRaises, BindingDecides
<1>3. CASE i = 3
  BY <1>3, StageNames, StageRaises, PortsDecide
<1>4. CASE i = 4
  BY <1>4, StageNames, StageRaises, LinksDecide
<1>5. CASE i = 5
  BY <1>5, StageNames, StageRaises, CapabilitiesDecide
<1>6. CASE i = 6
  BY <1>6, StageNames, StageRaises, FailureDomainDecides
<1>7. CASE i = 7
  BY <1>7, StageNames, StageRaises, PolicyDecides
<1>8. QED  BY <1>1, <1>2, <1>3, <1>4, <1>5, <1>6, <1>7, StageNames, Numbers

-----------------------------------------------------------------------------
(* Evidence: the entries there were are kept, and no more than there is    *)
(* room for.                                                               *)

LEMMA SubsetOfSize ==
    ASSUME NEW all, IsFiniteSet(all), NEW entries \in SUBSET all, NEW size \in Nat,
           Cardinality(entries) <= size, size <= Cardinality(all)
    PROVE  \E kept \in SUBSET all : entries \subseteq kept /\ Cardinality(kept) = size
<1> DEFINE least == Cardinality(entries)
           most == Cardinality(all)
           Kept(k) == \E kept \in SUBSET all : entries \subseteq kept /\ Cardinality(kept) = least + k
           S == {k \in Nat : least + k <= most => Kept(k)}
<1>1. IsFiniteSet(entries) /\ least \in Nat /\ most \in Nat
  BY FS_Subset, FS_CardinalityType
<1>2. 0 \in S
  <2>1. entries \subseteq entries /\ Cardinality(entries) = least + 0
    BY <1>1
  <2>2. Kept(0)
    BY <2>1
  <2>3. QED  BY <2>2
<1>3. ASSUME NEW k \in Nat, k \in S
      PROVE  k + 1 \in S
  <2>1. CASE least + (k + 1) <= most
    <3>1. least + k <= most /\ least + k # most
      BY <1>1, <2>1
    <3>2. Kept(k)
      BY <1>3, <3>1
    <3>3. PICK kept \in SUBSET all : entries \subseteq kept /\ Cardinality(kept) = least + k
      BY <3>2
    <3>4. kept # all
      BY <3>1, <3>3
    <3>5. PICK x \in all : x \notin kept
      BY <3>4
    <3>6. IsFiniteSet(kept)
      BY FS_Subset
    <3>7. Cardinality(kept \cup {x}) = (least + k) + 1
      BY <3>3, <3>5, <3>6, FS_AddElement
    <3>8. (least + k) + 1 = least + (k + 1)
      BY <1>1
    <3>9. /\ kept \cup {x} \in SUBSET all /\ entries \subseteq kept \cup {x}
          /\ Cardinality(kept \cup {x}) = least + (k + 1)
      BY <3>3, <3>5, <3>7, <3>8
    <3>10. Kept(k + 1)
      BY <3>9
    <3>11. QED  BY <3>10
  <2>2. CASE ~ (least + (k + 1) <= most)
    BY <2>2
  <2>3. QED  BY <2>1, <2>2
<1>4. Nat \subseteq S
  <2> HIDE DEF S
  <2>1. QED  BY <1>2, <1>3, NatSetInduction
<1> HIDE DEF least, most
<1>5. size - least \in Nat /\ least + (size - least) = size /\ size <= most
  BY <1>1 DEF least, most
<1>6. size - least \in S
  BY <1>4, <1>5
<1>7. Kept(size - least)
  BY <1>5, <1>6
<1>8. QED  BY <1>5, <1>7

LEMMA RetainedKeeps ==
    ASSUME InputOK, NEW entries, IsFiniteSet(entries), NEW reads, IsFiniteSet(reads),
           Cardinality(entries) <= input.limits.max_dependencies_per_path
    PROVE  LET kept == Retained(entries, reads) IN
           /\ IsFiniteSet(kept)
           /\ entries \subseteq kept
           /\ Cardinality(kept) <= input.limits.max_dependencies_per_path
<1> DEFINE all == entries \cup reads
           room == input.limits.max_dependencies_per_path
           Fits(kept) == entries \subseteq kept /\ Cardinality(kept) = room
<1>1. IsFiniteSet(all) /\ Cardinality(all) \in Nat /\ entries \in SUBSET all
  BY FS_Union, FS_CardinalityType
<1>2. room \in Nat
  BY DEF InputOK
<1>3. Retained(entries, reads) =
          IF Cardinality(all) <= room THEN all ELSE CHOOSE kept \in SUBSET all : Fits(kept)
  BY DEF Retained
<1>4. CASE Cardinality(all) <= room
  BY <1>1, <1>3, <1>4
<1>5. CASE ~ (Cardinality(all) <= room)
  <2>1. \E kept \in SUBSET all : Fits(kept)
    <3>1. Cardinality(entries) <= room /\ room <= Cardinality(all)
      BY <1>1, <1>2, <1>5
    <3> HIDE DEF all, room
    <3>2. QED  BY <1>1, <1>2, <3>1, SubsetOfSize
  <2> DEFINE kept == CHOOSE kept \in SUBSET all : Fits(kept)
  <2> HIDE DEF Fits, all
  <2>2. kept \in SUBSET all /\ Fits(kept)
    BY <2>1
  <2>3. Retained(entries, reads) = kept
    BY <1>3, <1>5
  <2> HIDE DEF kept
  <2>4. IsFiniteSet(kept)
    BY <1>1, <2>2, FS_Subset
  <2>5. entries \subseteq kept /\ Cardinality(kept) = room
    BY <2>2 DEF Fits
  <2>6. QED  BY <1>2, <2>3, <2>4, <2>5
<1>6. QED  BY <1>4, <1>5

LEMMA DomainElementsFinite ==
    ASSUME InputOK
    PROVE  DomainElements \subseteq Element
<1>1. PathElements \subseteq Element
  BY PathFacts
<1>2. ASSUME NEW c \in ToSet(rules.failure_domains)
      PROVE  PeerElements(c) \subseteq Element
  <2>1. c \in DomainConstraint
    BY CombinedFailureDomains, SequenceElements
  <2>2. QED  BY <2>1 DEF DomainConstraint, PeerElements, InputOK, ViewsOK
<1>3. QED  BY <1>1, <1>2 DEF DomainElements

LEMMA PairsFinite ==
    ASSUME NEW kind, NEW S, IsFiniteSet(S), NEW T \in SUBSET S
    PROVE  IsFiniteSet({kind} \X T)
<1>1. IsFiniteSet({kind}) /\ IsFiniteSet(T)
  BY FS_Singleton, FS_Subset
<1>2. QED  BY <1>1, FS_Product

LEMMA ReadsByStage ==
    /\ Reads(Stages[1]) = {"STRUCTURAL_ELEMENT"} \X PathElements
    /\ Reads(Stages[2]) = {<<"UNDERLYING_AUTHORITY", "underlying">> :
                              chain \in {c \in {input.underlying} : c.bound # 0 /\ c.found}}
    /\ Reads(Stages[3]) = {"PORT_CONFIG"} \X OfKind("PORT")
    /\ Reads(Stages[4]) = {"LINK_STATE"} \X OfKind("LINK")
    /\ Reads(Stages[5]) = {<<"CAPABILITY", r.subject>> : r \in ToSet(rules.capabilities)}
    /\ Reads(Stages[6]) = DomainReads
    /\ Reads(Stages[7]) = {}
<1>1. /\ Reads(Stages[1]) = {"STRUCTURAL_ELEMENT"} \X PathElements
      /\ Reads(Stages[3]) = {"PORT_CONFIG"} \X OfKind("PORT")
      /\ Reads(Stages[4]) = {"LINK_STATE"} \X OfKind("LINK")
  BY StageNames, Zenon DEF Reads
<1>2. Reads(Stages[2]) = {<<"UNDERLYING_AUTHORITY", "underlying">> :
                             chain \in {c \in {input.underlying} : c.bound # 0 /\ c.found}}
  BY StageNames, Zenon DEF Reads
<1>3. Reads(Stages[5]) = {<<"CAPABILITY", r.subject>> : r \in ToSet(rules.capabilities)}
  BY StageNames, Zenon DEF Reads
<1>4. Reads(Stages[6]) = DomainReads /\ Reads(Stages[7]) = {}
  BY StageNames, Zenon DEF Reads
<1>5. QED  BY <1>1, <1>2, <1>3, <1>4

LEMMA ReadsFinite ==
    ASSUME InputOK, NEW i \in DOMAIN Stages
    PROVE  IsFiniteSet(Reads(Stages[i]))
<1>1. IsFiniteSet(Element)
  BY EvaluationAssumption
<1>2. PathElements \subseteq Element /\ \A kind : OfKind(kind) \subseteq Element
  BY PathFacts DEF OfKind
<1>3. CASE i = 1
  <2>1. IsFiniteSet({"STRUCTURAL_ELEMENT"} \X PathElements)
    BY <1>1, <1>2, PairsFinite
  <2>2. QED  BY <1>3, <2>1, ReadsByStage
<1>4. CASE i = 2
  <2> DEFINE entry == <<"UNDERLYING_AUTHORITY", "underlying">>
  <2>1. Reads(Stages[2]) \in SUBSET {entry}
    BY ReadsByStage
  <2> HIDE DEF entry
  <2>2. QED  BY <1>4, <2>1, FS_Singleton, FS_Subset
<1>5. CASE i = 3
  <2>1. IsFiniteSet({"PORT_CONFIG"} \X OfKind("PORT"))
    BY <1>1, <1>2, PairsFinite
  <2>2. QED  BY <1>5, <2>1, ReadsByStage
<1>6. CASE i = 4
  <2>1. IsFiniteSet({"LINK_STATE"} \X OfKind("LINK"))
    BY <1>1, <1>2, PairsFinite
  <2>2. QED  BY <1>6, <2>1, ReadsByStage
<1>7. CASE i = 5
  <2>1. ASSUME NEW r \in ToSet(rules.capabilities)
        PROVE  r.subject \in DOMAIN input.record
    <3>1. r \in RequirementEntry
      BY CombinedCapabilities, SequenceElements
    <3>2. QED  BY <3>1 DEF RequirementEntry
  <2>2. IsFiniteSet({"CAPABILITY"} \X DOMAIN input.record)
    <3>1. IsFiniteSet(DOMAIN input.record)
      BY DEF InputOK, ViewsOK
    <3>2. QED  BY <3>1, PairsFinite
  <2>3. Reads(Stages[5]) \in SUBSET ({"CAPABILITY"} \X DOMAIN input.record)
    BY <2>1, ReadsByStage
  <2>4. QED  BY <1>7, <2>2, <2>3, FS_Subset
<1>8. CASE i = 6
  <2> DEFINE domains == UNION {input.memberships[ref] : ref \in DomainElements}
  <2>1. DomainReads = ({"MEMBERSHIP"} \X DomainElements) \cup ({"DOMAIN"} \X domains)
    BY DEF DomainReads
  <2>2. IsFiniteSet(DOMAIN input.domain_class) /\ domains \in SUBSET DOMAIN input.domain_class
    BY DomainElementsFinite DEF InputOK, ViewsOK
  <2> HIDE DEF domains
  <2>3. IsFiniteSet({"DOMAIN"} \X domains)
    BY <2>2, PairsFinite
  <2>4. IsFiniteSet({"MEMBERSHIP"} \X DomainElements)
    BY <1>1, DomainElementsFinite, PairsFinite
  <2>5. IsFiniteSet(DomainReads)
    BY <2>1, <2>3, <2>4, FS_Union
  <2>6. QED  BY <1>8, <2>5, ReadsByStage
<1>9. CASE i = 7
  BY <1>9, ReadsByStage, FS_EmptySet
<1>10. QED  BY <1>3, <1>4, <1>5, <1>6, <1>7, <1>8, <1>9, StageNames, Numbers

-----------------------------------------------------------------------------
(* The inductive invariant.                                                *)

\* A stage has something to say that makes authority conditional.
StageConditional(i) ==
    \/ i = 3 /\ \E ref \in OfKind("PORT") : PortTolerated(input.port[ref])
    \/ i = 4 /\ \E ref \in OfKind("LINK") :
                    LinkTolerated(input.link[ref]) /\ LinkConditional(input.link[ref])
    \/ i = 5 /\ \E r \in ToSet(rules.capabilities) :
                    ~input.record[r.subject].known /\ ~r.fail_closed_on_unknown

ConditionBefore(n) == \E i \in DOMAIN Stages : i < n /\ StageConditional(i)

ProvenBefore(n) == \A i \in DOMAIN Stages : i < n => Proven(Stages[i])

\* The outcome is a code of the earliest stage that something speaks against.
RejectedBefore(n) ==
    \E i \in DOMAIN Stages : /\ i < n /\ ProvenBefore(i) /\ ~Proven(Stages[i])
                             /\ primary \in Codes[Stages[i]]

Full == Len(violations) = input.limits.max_explanation_entries

AllCodes == UNION {Codes[s] : s \in ToSet(Stages)}

Types ==
    /\ InputOK
    /\ pc \in 0 .. Done
    /\ primary \in Authorizing \cup {"MALFORMED_PATH", "RESOURCE_LIMIT"} \cup AllCodes
    /\ hard_failure \in BOOLEAN /\ overflow \in BOOLEAN
    /\ violations \in Seq(Violations)
    /\ Len(violations) <= input.limits.max_explanation_entries
    /\ IsFiniteSet(evidence)
    /\ Cardinality(evidence) <= input.limits.max_dependencies_per_path

\* Between the stages: rejected already, or nothing found so far but conditions.
Open ==
    \/ hard_failure /\ RejectedBefore(pc)
    \/ /\ ~hard_failure /\ primary = "AUTHORIZED" /\ ProvenBefore(pc)
       /\ Raises(violations, "CONDITION") => ConditionBefore(pc)
       /\ ConditionBefore(pc) => Raises(violations, "CONDITION") \/ Full

\* After the stages: how conditions and lost evidence were resolved.
Decided ==
    \/ hard_failure /\ RejectedBefore(pc)
    \/ /\ ProvenBefore(pc)
       /\ \/ ~hard_failure /\ primary = "AUTHORIZED" /\ (~ConditionBefore(pc) \/ Full)
          \/ /\ ~hard_failure /\ primary = "CONDITIONALLY_AUTHORIZED"
             /\ ConditionBefore(pc) /\ input.policy.allow_conditional_authorization
          \/ /\ hard_failure /\ primary \notin Authorizing
             /\ ConditionBefore(pc) /\ ~input.policy.allow_conditional_authorization
          \/ pc = Done /\ hard_failure /\ primary = "RESOURCE_LIMIT" /\ overflow

\* Unless an entry was refused, what the stages so far have read is remembered.
Remembered ==
    ~overflow =>
        /\ Scalars \subseteq evidence
        /\ ShapeStatus = "VALID" =>
              \A i \in DOMAIN Stages : i < pc => Reads(Stages[i]) \subseteq evidence

IInv ==
    /\ Types
    /\ pc = 0 => ~hard_failure /\ primary = "AUTHORIZED" /\ violations = <<>>
    /\ pc \in 1 .. Limits => ShapeStatus = "VALID"
    /\ pc \in 1 .. Resolution => Open
    /\ pc = Limits => Decided
    /\ pc = Done =>
          IF ShapeStatus = "VALID" THEN Decided /\ (overflow => primary \notin Authorizing)
          ELSE primary \in {"MALFORMED_PATH", "RESOURCE_LIMIT"}
    /\ Remembered

-----------------------------------------------------------------------------
(* StageCollector: the first of the entries, and the bound on them all.    *)

LEMMA SelectsFirstHard ==
    ASSUME NEW codes, NEW entries \in Seq(Finding(codes))
    PROVE  LET first == SelectInSeq(entries, IsHard) IN
           /\ first = 0 <=> ~Raises(entries, "HARD")
           /\ first # 0 => entries[first].code \in codes
<1> DEFINE n == Len(entries)
           I == {i \in 1 .. n : IsHard(entries[i])}
<1>1. /\ n \in Nat
      /\ \A i \in 1 .. n : entries[i] \in Finding(codes) /\ entries[i] \in ToSet(entries)
      /\ ToSet(entries) = {entries[i] : i \in 1 .. n}
  BY SequenceElements
<1>2. SelectInSeq(entries, IsHard) = IF I # {} THEN Min(I) ELSE 0
  BY DEF SelectInSeq
<1>3. I # {} <=> Raises(entries, "HARD")
  BY <1>1 DEF Raises, IsHard
<1>4. I \in SUBSET Nat /\ 0 \notin I
  BY <1>1
<1>5. \A i \in I : entries[i].code \in codes
  BY <1>1 DEF Finding
<1> HIDE DEF I
<1>6. I # {} => Min(I) \in I
  BY <1>4, MinIsLeast
<1>7. QED  BY <1>2, <1>3, <1>4, <1>5, <1>6

LEMMA SelectsFirstCondition ==
    ASSUME violations \in Seq(Violations)
    PROVE  /\ Conditional = 0 <=> ~Raises(violations, "CONDITION")
           /\ Conditional # 0 => Conditional \in 1 .. Len(violations)
<1> DEFINE n == Len(violations)
           I == {i \in 1 .. n : violations[i].severity = "CONDITION"}
<1>1. /\ n \in Nat
      /\ ToSet(violations) = {violations[i] : i \in 1 .. n}
  BY SequenceElements
<1>2. Conditional = IF I # {} THEN Min(I) ELSE 0
  BY Zenon DEF Conditional, SelectInSeq
<1>3. I # {} <=> Raises(violations, "CONDITION")
  BY <1>1 DEF Raises
<1>4. I \in SUBSET Nat /\ 0 \notin I /\ I \subseteq 1 .. n
  BY <1>1
<1> HIDE DEF I
<1>5. I # {} => Min(I) \in I
  BY <1>4, MinIsLeast
<1>6. QED  BY <1>2, <1>3, <1>4, <1>5

LEMMA FindingsAreViolations ==
    ASSUME NEW codes, codes \subseteq AllCodes \cup {"RESOURCE_LIMIT"},
           NEW entries \in Seq(Finding(codes))
    PROVE  entries \in Seq(Violations)
<1> DEFINE known == {"RESOURCE_LIMIT"} \cup AllCodes
<1>1. Finding(codes) \subseteq Violations
  <2>1. Violations = [severity : Severity, subject : Subjects, code : known]
    BY Zenon DEF Violations, AllCodes
  <2>2. Finding(codes) = [severity : Severity, code : codes, subject : Subjects]
    BY DEF Finding
  <2>3. codes \subseteq known
    OBVIOUS
  <2> HIDE DEF known
  <2>4. QED  BY <2>1, <2>2, <2>3
<1>2. /\ Len(entries) \in Nat /\ DOMAIN entries = 1 .. Len(entries)
      /\ \A i \in 1 .. Len(entries) : entries[i] \in Finding(codes)
  BY SequenceElements
<1>3. entries = [i \in 1 .. Len(entries) |-> entries[i]]
  BY <1>2, SeqDef
<1> DEFINE n == Len(entries)
           copy == [i \in 1 .. n |-> entries[i]]
<1>4. copy \in Seq(Violations)
  <2> HIDE DEF n
  <2>1. \A i \in 1 .. n : entries[i] \in Violations
    BY <1>1, <1>2 DEF n
  <2>2. n \in Nat
    BY <1>2 DEF n
  <2>3. QED  BY <2>1, <2>2, IsASeq
<1>5. QED  BY <1>3, <1>4

LEMMA PushFacts ==
    ASSUME InputOK, violations \in Seq(Violations),
           Len(violations) <= input.limits.max_explanation_entries,
           NEW entries \in Seq(Violations), Push(entries)
    PROVE  /\ violations' \in Seq(Violations)
           /\ Len(violations') <= input.limits.max_explanation_entries
           /\ Raises(violations', "CONDITION") =>
                 Raises(violations, "CONDITION") \/ Raises(entries, "CONDITION")
           /\ Raises(violations, "CONDITION") \/ Raises(entries, "CONDITION") =>
                 \/ Raises(violations', "CONDITION")
                 \/ Len(violations') = input.limits.max_explanation_entries
           /\ Len(violations) <= Len(violations')
<1> DEFINE all == violations \o entries
           room == input.limits.max_explanation_entries
           n == Min({Len(all), room})
<1>1. room \in Nat /\ Len(violations) \in Nat /\ Len(entries) \in Nat
  BY LenProperties DEF InputOK
<1>2. /\ all \in Seq(Violations) /\ Len(all) = Len(violations) + Len(entries)
      /\ ToSet(all) = ToSet(violations) \cup ToSet(entries)
  <2>1. all \in Seq(Violations) /\ ToSet(all) = ToSet(violations) \cup ToSet(entries)
    BY ConcatElements
  <2>2. QED  BY <2>1, ConcatProperties
<1>3. violations' = SubSeq(all, 1, n)
  BY DEF Push
<1> HIDE DEF all
<1>4. /\ Len(all) \in Nat /\ DOMAIN all = 1 .. Len(all)
      /\ \A i \in 1 .. Len(all) : all[i] \in Violations /\ all[i] \in ToSet(all)
      /\ ToSet(all) = {all[i] : i \in 1 .. Len(all)}
  BY <1>2, SequenceElements
<1>5. n \in Nat /\ n <= Len(all) /\ n <= room /\ (n = Len(all) \/ n = room)
  <2>1. {Len(all), room} \in SUBSET Nat /\ {Len(all), room} # {}
    BY <1>1, <1>4
  <2> DEFINE S == {Len(all), room}
  <2>2. \A k \in S : k = Len(all) \/ k = room
    OBVIOUS
  <2>3. Len(all) \in S /\ room \in S
    OBVIOUS
  <2>4. Min(S) \in S /\ \A k \in S : Min(S) <= k
    <3> HIDE DEF S
    <3>1. S \in SUBSET Nat /\ S # {}
      BY <2>1 DEF S
    <3>2. QED  BY <3>1, MinIsLeast
  <2> HIDE DEF S
  <2>5. QED  BY <1>1, <1>4, <2>2, <2>3, <2>4 DEF S
<1> HIDE DEF n
<1>6. \A i \in 1 .. n : i \in 1 .. Len(all)
  <2>1. Len(all) \in Nat
    BY <1>4
  <2>2. QED  BY <1>5, <2>1
<1>7. /\ violations' \in Seq(Violations) /\ Len(violations') = n
      /\ \A i \in 1 .. n : violations'[i] = all[i]
  <2>1. \A i \in 1 .. n : all[i] \in Violations
    BY <1>4, <1>6
  <2> DEFINE kept == SubSeq(all, 1, n)
  <2>2. /\ kept \in Seq(Violations)
        /\ Len(kept) = IF 1 <= n THEN n - 1 + 1 ELSE 0
        /\ \A i \in 1 .. n - 1 + 1 : kept[i] = all[1 + i - 1]
    BY <1>5, <2>1, SubSeqProperties
  <2> HIDE DEF kept
  <2>3. n - 1 + 1 = n /\ \A i \in 1 .. n : 1 + i - 1 = i
    BY <1>5
  <2>4. /\ kept \in Seq(Violations) /\ Len(kept) = n
        /\ \A i \in 1 .. n : kept[i] = all[i]
    BY <1>5, <2>2, <2>3
  <2>5. QED  BY <1>3, <2>4 DEF kept
<1>8. /\ ToSet(violations') = {violations'[i] : i \in 1 .. n}
      /\ \A i \in 1 .. n : violations'[i] \in ToSet(violations')
  BY <1>7, SequenceElements
<1>9. ToSet(violations') \subseteq ToSet(all)
  BY <1>4, <1>6, <1>7, <1>8
<1>10. n = Len(all) => ToSet(all) \subseteq ToSet(violations')
  BY <1>4, <1>7, <1>8
<1>11. Len(violations) <= n
  BY <1>1, <1>2, <1>5
<1>12. QED  BY <1>2, <1>5, <1>7, <1>9, <1>10, <1>11 DEF Raises

\* What a stage raises makes authority conditional just where StageConditional says so.
LEMMA StageConditions ==
    ASSUME InputOK, Len(input.hops) <= input.limits.max_hops, NEW i \in DOMAIN Stages
    PROVE  Raises(Raised(Stages[i]), "CONDITION") <=> StageConditional(i)
<1>1. CASE i = 1
  BY <1>1, StageRaises, StructureDecides DEF StageConditional
<1>2. CASE i = 2
  BY <1>2, StageRaises, BindingDecides DEF StageConditional
<1>3. CASE i = 3
  BY <1>3, StageRaises, PortsDecide DEF StageConditional
<1>4. CASE i = 4
  BY <1>4, StageRaises, LinksDecide DEF StageConditional
<1>5. CASE i = 5
  BY <1>5, StageRaises, CapabilitiesDecide DEF StageConditional
<1>6. CASE i = 6
  BY <1>6, StageRaises, FailureDomainDecides DEF StageConditional
<1>7. CASE i = 7
  BY <1>7, StageRaises, PolicyDecides DEF StageConditional
<1>8. QED  BY <1>1, <1>2, <1>3, <1>4, <1>5, <1>6, <1>7, StageNames, Numbers

-----------------------------------------------------------------------------
(* The input never changes, nor does what is said of it.                   *)

LEMMA InputStays ==
    ASSUME input' = input
    PROVE  /\ InputOK => InputOK'
           /\ ShapeStatus' = ShapeStatus
           /\ Violations' = Violations
<1>1. ViewsOK => ViewsOK'
  BY Zenon DEF ViewsOK
<1>2. ConstraintsOK => ConstraintsOK'
  BY Zenon DEF ConstraintsOK, SideOK, RequirementsOK
<1>3. PolicyOK => PolicyOK'
  BY Zenon DEF PolicyOK, SideOK, RequirementsOK
<1>4. InputOK => InputOK'
  BY <1>1, <1>2, <1>3, Zenon DEF InputOK
<1>5. ShapeStatus' = ShapeStatus
  BY Zenon DEF ShapeStatus
<1>6. Subjects' = Subjects
  BY Zenon DEF Subjects
<1>7. Violations' = Violations
  BY <1>6, Zenon DEF Violations
<1>8. QED  BY <1>4, <1>5, <1>7

LEMMA PathStays ==
    ASSUME input' = input
    PROVE  /\ Hops' = Hops /\ PathElements' = PathElements /\ rules' = rules
           /\ \A kind : OfKind(kind)' = OfKind(kind)
<1>1. Hops' = Hops /\ PathElements' = PathElements
  BY Zenon DEF Hops, PathElements
<1>2. rules' = rules
  BY Zenon DEF rules
<1>3. ASSUME NEW kind PROVE OfKind(kind)' = OfKind(kind)
  BY Zenon DEF OfKind, Hops
<1>4. QED  BY <1>1, <1>2, <1>3

LEMMA ToleratedStays ==
    ASSUME input' = input, NEW state
    PROVE  /\ PortTolerated(state)' <=> PortTolerated(state)
           /\ LinkTolerated(state)' <=> LinkTolerated(state)
           /\ LinkConditional(state)' <=> LinkConditional(state)
<1>1. PortTolerated(state)' <=> PortTolerated(state)
  BY Zenon DEF PortTolerated, BothAllow
<1>2. LinkTolerated(state)' <=> LinkTolerated(state)
  BY Zenon DEF LinkTolerated, BothAllow
<1>3. LinkConditional(state)' <=> LinkConditional(state)
  BY PathStays, Zenon DEF LinkConditional
<1>4. QED  BY <1>1, <1>2, <1>3

LEMMA SatisfiedStays ==
    ASSUME input' = input, NEW c
    PROVE  Satisfied(c)' <=> Satisfied(c)
<1>1. PathElements' = PathElements /\ Hops' = Hops
  BY PathStays
<1>2. Disjoint(c)' <=> Disjoint(c)
  BY <1>1, Zenon DEF Disjoint
<1>3. QED  BY <1>1, <1>2, Zenon DEF Satisfied, AtMost, Outside

LEMMA ProvenStays ==
    ASSUME input' = input, NEW i \in DOMAIN Stages
    PROVE  Proven(Stages[i])' <=> Proven(Stages[i])
<1>1. /\ Hops' = Hops /\ PathElements' = PathElements
      /\ OfKind("PORT")' = OfKind("PORT") /\ OfKind("LINK")' = OfKind("LINK")
  BY PathStays
<1>2. CASE i = 1
  <2>1. Proven("STRUCTURAL_TOPOLOGY")' <=> Proven("STRUCTURAL_TOPOLOGY")
    BY Zenon DEF Proven, Hops, Adjacent
  <2>2. QED  BY <1>2, <2>1, StageNames
<1>3. CASE i = 2
  <2>1. Proven("BOUND_INPUT_CURRENTNESS")' <=> Proven("BOUND_INPUT_CURRENTNESS")
    BY Zenon DEF Proven
  <2>2. QED  BY <1>3, <2>1, StageNames
<1>4. CASE i = 3
  <2>1. Proven("PORT_ADMINISTRATIVE")' <=> Proven("PORT_ADMINISTRATIVE")
    BY <1>1, Zenon DEF Proven, PortTolerated, BothAllow
  <2>2. QED  BY <1>4, <2>1, StageNames
<1>5. CASE i = 4
  <2>1. Proven("LINK_STATE")' <=> Proven("LINK_STATE")
    BY <1>1, Zenon DEF Proven, LinkTolerated, BothAllow
  <2>2. QED  BY <1>5, <2>1, StageNames
<1>6. CASE i = 5
  <2>1. Proven("CAPABILITY")' <=> Proven("CAPABILITY")
    BY Zenon DEF Proven, Meaning
  <2>2. QED  BY <1>6, <2>1, StageNames
<1>7. CASE i = 6
  <2>1. \A c : Satisfied(c)' <=> Satisfied(c)
    BY SatisfiedStays
  <2>2. Proven("FAILURE_DOMAIN")' <=> Proven("FAILURE_DOMAIN")
    BY <2>1, Zenon DEF Proven
  <2>3. QED  BY <1>7, <2>2, StageNames
<1>8. CASE i = 7
  <2>1. NoLayerLeft' <=> NoLayerLeft
    BY Zenon DEF NoLayerLeft, LayerPermitted
  <2>2. Proven("POLICY")' <=> Proven("POLICY")
    BY <1>1, <2>1, Zenon DEF Proven, LayerPermitted, WithinBound, Outside
  <2>3. QED  BY <1>8, <2>2, StageNames
<1>9. QED  BY <1>2, <1>3, <1>4, <1>5, <1>6, <1>7, <1>8, StageNames, Numbers

LEMMA ConditionStays ==
    ASSUME input' = input, NEW i
    PROVE  StageConditional(i)' <=> StageConditional(i)
<1>1. OfKind("PORT")' = OfKind("PORT") /\ OfKind("LINK")' = OfKind("LINK") /\ rules' = rules
  BY PathStays
<1>2. QED
  BY <1>1, ZenonT(60) DEF StageConditional, PortTolerated, LinkTolerated, LinkConditional, BothAllow

LEMMA ReadsStay ==
    ASSUME input' = input, NEW stage
    PROVE  Reads(stage)' = Reads(stage)
<1>1. /\ PathElements' = PathElements /\ rules' = rules
      /\ OfKind("PORT")' = OfKind("PORT") /\ OfKind("LINK")' = OfKind("LINK")
  BY PathStays
<1>2. DomainElements' = DomainElements
  <2> DEFINE peers == {d \in ToSet(rules.failure_domains) :
                           d.kind = "DIVERSE_FROM_PEER_PATH" /\ Established(d)}
  <2>1. \A d : Established(d)' <=> Established(d)
    BY Zenon DEF Established
  <2>2. \A d : PeerElements(d)' = PeerElements(d)
    BY Zenon DEF PeerElements
  <2>3. peers' = peers
    BY <1>1, <2>1, Zenon
  <2>4. DomainElements = IF rules.failure_domains = <<>> /\ rules.forbidden_domain_classes = <<>>
                         THEN {} ELSE PathElements \cup UNION {PeerElements(c) : c \in peers}
    BY Zenon DEF DomainElements
  <2>5. DomainElements' = IF rules'.failure_domains = <<>> /\ rules'.forbidden_domain_classes = <<>>
                          THEN {} ELSE PathElements' \cup UNION {PeerElements(c)' : c \in peers'}
    BY Zenon DEF DomainElements
  <2> HIDE DEF peers
  <2>6. {PeerElements(c)' : c \in peers'} = {PeerElements(c) : c \in peers}
    BY <2>2, <2>3, Zenon
  <2>7. QED  BY <1>1, <2>4, <2>5, <2>6, Zenon
<1>3. DomainReads' = DomainReads
  BY <1>2 DEF DomainReads
<1>4. QED  BY <1>1, <1>3, Zenon DEF Reads

-----------------------------------------------------------------------------
(* The invariant holds first and is kept by every step.                    *)

\* The invariant's parts after a step, in terms of the input before it.
LEMMA PartsStay ==
    ASSUME input' = input
    PROVE  /\ ProvenBefore(pc)' <=> ProvenBefore(pc')
           /\ ConditionBefore(pc)' <=> ConditionBefore(pc')
           /\ RejectedBefore(pc)' <=>
                 \E i \in DOMAIN Stages : /\ i < pc' /\ ProvenBefore(i) /\ ~Proven(Stages[i])
                                          /\ primary' \in Codes[Stages[i]]
           /\ Full' <=> Len(violations') = input.limits.max_explanation_entries
           /\ Remembered' <=>
                 (~overflow' =>
                      /\ Scalars \subseteq evidence'
                      /\ ShapeStatus = "VALID" =>
                            \A i \in DOMAIN Stages : i < pc' => Reads(Stages[i]) \subseteq evidence')
<1>1. \A i \in DOMAIN Stages : Proven(Stages[i])' <=> Proven(Stages[i])
  BY ProvenStays
<1>2. \A i : StageConditional(i)' <=> StageConditional(i)
  BY ConditionStays
<1>3. \A i \in DOMAIN Stages : Reads(Stages[i])' = Reads(Stages[i])
  BY ReadsStay
<1>4. ShapeStatus' = ShapeStatus
  BY InputStays
<1>5. ProvenBefore(pc)' <=> ProvenBefore(pc')
  BY <1>1 DEF ProvenBefore
<1>6. ConditionBefore(pc)' <=> ConditionBefore(pc')
  BY <1>2 DEF ConditionBefore
<1>7. RejectedBefore(pc)' <=>
          \E i \in DOMAIN Stages : /\ i < pc' /\ ProvenBefore(i) /\ ~Proven(Stages[i])
                                   /\ primary' \in Codes[Stages[i]]
  BY <1>1 DEF RejectedBefore, ProvenBefore
<1>8. Full' <=> Len(violations') = input.limits.max_explanation_entries
  BY DEF Full
<1>9. Remembered' <=>
          (~overflow' =>
               /\ Scalars \subseteq evidence'
               /\ ShapeStatus = "VALID" =>
                     \A i \in DOMAIN Stages : i < pc' => Reads(Stages[i]) \subseteq evidence')
  BY <1>3, <1>4, Zenon DEF Remembered
<1>10. QED  BY <1>5, <1>6, <1>7, <1>8, <1>9

LEMMA ScalarsFinite == IsFiniteSet(Scalars)
<1>1. IsFiniteSet({"EPOCH"})
  BY FS_Singleton
<1>2. IsFiniteSet({"EPOCH"} \cup {"POLICY"})
  BY <1>1, FS_AddElement
<1>3. IsFiniteSet({"EPOCH"} \cup {"POLICY"} \cup {"CONSTRAINTS"})
  BY <1>2, FS_AddElement
<1>4. IsFiniteSet({"EPOCH"} \cup {"POLICY"} \cup {"CONSTRAINTS"} \cup {"TOPOLOGY"})
  BY <1>3, FS_AddElement
<1>5. {"EPOCH"} \cup {"POLICY"} \cup {"CONSTRAINTS"} \cup {"TOPOLOGY"} =
          {"EPOCH", "POLICY", "CONSTRAINTS", "TOPOLOGY"}
  OBVIOUS
<1>6. IsFiniteSet({"self"})
  BY FS_Singleton
<1>7. QED  BY <1>4, <1>5, <1>6, FS_Product DEF Scalars

LEMMA Numbering == Resolution = 8 /\ Limits = 9 /\ Done = 10 /\ DOMAIN Stages = 1 .. 7
BY StageNames DEF Resolution, Limits, Done

LEMMA InvariantFirst == Init => IInv
<1> SUFFICES ASSUME Init PROVE IInv
  OBVIOUS
<1>1. /\ InputOK /\ pc = 0 /\ primary = "AUTHORIZED" /\ hard_failure = FALSE
      /\ violations = <<>> /\ evidence = Retained({}, Scalars)
      /\ overflow = (evidence # Scalars)
  BY DEF Init, Start
<1>2. /\ IsFiniteSet(evidence)
      /\ Cardinality(evidence) <= input.limits.max_dependencies_per_path
  <2>1. Cardinality({}) <= input.limits.max_dependencies_per_path
    BY <1>1, FS_EmptySet DEF InputOK
  <2>2. QED  BY <1>1, <2>1, ScalarsFinite, FS_EmptySet, RetainedKeeps
<1>3. Len(violations) <= input.limits.max_explanation_entries
  BY <1>1 DEF InputOK
<1>4. violations \in Seq(Violations)
  BY <1>1, EmptySequence
<1>5. overflow \in BOOLEAN /\ (~overflow => evidence = Scalars)
  BY <1>1
<1>6. Types
  <2>1. pc \in 0 .. Done
    BY <1>1, Numbering
  <2>2. primary \in Authorizing
    BY <1>1 DEF Authorizing
  <2>3. QED  BY <1>1, <1>2, <1>3, <1>4, <1>5, <2>1, <2>2 DEF Types
<1>7. Remembered
  BY <1>1, <1>5, Numbering DEF Remembered
<1>8. QED  BY <1>1, <1>6, <1>7, Numbering DEF IInv

LEMMA ShapeBounds ==
    ASSUME InputOK, ShapeStatus = "VALID"
    PROVE  Len(input.hops) <= input.limits.max_hops
<1>1. Len(input.hops) \in Nat /\ input.limits.max_hops \in Nat
  BY PathFacts DEF InputOK
<1>2. ~ (Len(input.hops) > input.limits.max_hops)
  BY DEF ShapeStatus, validate_path_shape
<1>3. QED  BY <1>1, <1>2

LEMMA DecodeKeeps ==
    ASSUME IInv, Decode
    PROVE  IInv'
<1>1. /\ Types /\ pc = 0 /\ ~hard_failure /\ primary = "AUTHORIZED" /\ violations = <<>>
      /\ Remembered
  BY DEF IInv, Decode
<1>2. /\ input' = input /\ hard_failure' = hard_failure /\ violations' = violations
      /\ evidence' = evidence /\ overflow' = overflow
  BY DEF Decode
<1>3. InputOK' /\ ShapeStatus' = ShapeStatus /\ Violations' = Violations
  BY <1>1, <1>2, InputStays DEF Types
<1>4. CASE ShapeStatus = "VALID" /\ pc' = 1 /\ primary' = primary
  <2>1. Types'
    BY <1>1, <1>2, <1>3, <1>4, Numbering DEF Types
  <2>2. Remembered'
    BY <1>1, <1>2, <1>4, PartsStay, Numbering DEF Remembered
  <2>3. Open'
    <3>1. ProvenBefore(pc') /\ ~ConditionBefore(pc')
      BY <1>4, Numbering DEF ProvenBefore, ConditionBefore
    <3>2. ~Raises(violations', "CONDITION")
      BY <1>1, <1>2, EmptySequence DEF Raises
    <3>3. QED  BY <1>1, <1>2, <1>4, <3>1, <3>2, PartsStay DEF Open
  <2>4. QED  BY <1>3, <1>4, <2>1, <2>2, <2>3, Numbering DEF IInv
<1>5. CASE /\ ShapeStatus # "VALID" /\ pc' = Done
           /\ primary' \in {"MALFORMED_PATH", "RESOURCE_LIMIT"}
  <2>1. Types'
    BY <1>1, <1>2, <1>3, <1>5, Numbering DEF Types
  <2>2. Remembered'
    BY <1>1, <1>2, <1>5, PartsStay DEF Remembered
  <2>3. QED  BY <1>3, <1>5, <2>1, <2>2, Numbering DEF IInv
<1>6. QED  BY <1>4, <1>5 DEF Decode

LEMMA StageKeeps ==
    ASSUME IInv, Stage
    PROVE  IInv'
<1> DEFINE entries == Raised(Stages[pc])
           codes == Codes[Stages[pc]]
           reads == Reads(Stages[pc])
           first == SelectInSeq(entries, IsHard)
           room == input.limits.max_explanation_entries
<1>1. /\ pc \in 1 .. 7 /\ pc' = pc + 1 /\ input' = input
      /\ pc \in DOMAIN Stages
      /\ evidence' = Retained(evidence, reads)
      /\ overflow' = (overflow \/ reads \ evidence' # {})
      /\ Push(entries)
      /\ IF hard_failure \/ first = 0
         THEN hard_failure' = hard_failure /\ primary' = primary
         ELSE hard_failure' = TRUE /\ primary' = entries[first].code
  BY Numbering DEF Stage, Remember, Collect
<1>2. Types /\ Open /\ Remembered /\ ShapeStatus = "VALID"
  BY <1>1, Numbering DEF IInv
<1>3. InputOK /\ Len(input.hops) <= input.limits.max_hops
  BY <1>2, ShapeBounds DEF Types
<1>4. InputOK' /\ ShapeStatus' = ShapeStatus /\ Violations' = Violations
  BY <1>1, <1>3, InputStays
<1>5. /\ entries \in Seq(Finding(codes))
      /\ Raises(entries, "HARD") <=> ~Proven(Stages[pc])
      /\ Raises(entries, "CONDITION") <=> StageConditional(pc)
  BY <1>1, <1>3, StageDecides, StageConditions
<1>6. codes \subseteq AllCodes
  BY <1>1, StageNames DEF AllCodes
<1>7. /\ first = 0 <=> Proven(Stages[pc])
      /\ first # 0 => entries[first].code \in codes
  <2> HIDE DEF entries, codes
  <2>1. QED  BY <1>5, SelectsFirstHard
<1>8. /\ IsFiniteSet(evidence') /\ evidence \subseteq evidence'
      /\ Cardinality(evidence') <= input.limits.max_dependencies_per_path
  BY <1>1, <1>2, <1>3, ReadsFinite, RetainedKeeps DEF Types
<1> HIDE DEF entries, codes, reads, first
<1>9. /\ violations' \in Seq(Violations)
      /\ Len(violations') <= room
      /\ Raises(violations', "CONDITION") =>
            Raises(violations, "CONDITION") \/ Raises(entries, "CONDITION")
      /\ Raises(violations, "CONDITION") \/ Raises(entries, "CONDITION") =>
            Raises(violations', "CONDITION") \/ Len(violations') = room
      /\ Len(violations) <= Len(violations')
  <2>1. entries \in Seq(Violations)
    BY <1>5, <1>6, FindingsAreViolations
  <2>2. QED  BY <1>1, <1>2, <1>3, <2>1, PushFacts DEF Types
<1>10. Types'
  <2>1. primary' \in Authorizing \cup {"MALFORMED_PATH", "RESOURCE_LIMIT"} \cup AllCodes
    BY <1>1, <1>2, <1>6, <1>7 DEF Types
  <2>2. hard_failure' \in BOOLEAN /\ overflow' \in BOOLEAN
    BY <1>1, <1>2 DEF Types
  <2>3. pc' \in 0 .. Done
    BY <1>1, Numbering
  <2>4. violations' \in Seq(Violations')
    BY <1>4, <1>9
  <2>5. QED  BY <1>1, <1>4, <1>8, <1>9, <2>1, <2>2, <2>3, <2>4 DEF Types
<1>11. Remembered'
  <2>1. SUFFICES ASSUME ~overflow'
                 PROVE  /\ Scalars \subseteq evidence'
                        /\ \A i \in DOMAIN Stages : i < pc' => Reads(Stages[i]) \subseteq evidence'
    BY <1>1, PartsStay
  <2>2. ~overflow /\ reads \subseteq evidence'
    BY <1>1, <2>1
  <2>3. /\ Scalars \subseteq evidence
        /\ \A i \in DOMAIN Stages : i < pc => Reads(Stages[i]) \subseteq evidence
    BY <1>2, <2>2 DEF Remembered
  <2>4. \A i \in DOMAIN Stages : i < pc' => i < pc \/ i = pc
    BY <1>1, Numbering
  <2>5. QED  BY <1>8, <2>2, <2>3, <2>4 DEF reads
<1>12. Open'
  <2>1. \A i \in DOMAIN Stages : i < pc' <=> i < pc \/ i = pc
    BY <1>1, Numbering
  <2>2. /\ ProvenBefore(pc') <=> ProvenBefore(pc) /\ Proven(Stages[pc])
        /\ ConditionBefore(pc') <=> ConditionBefore(pc) \/ StageConditional(pc)
    BY <1>1, <2>1 DEF ProvenBefore, ConditionBefore
  <2>3. CASE hard_failure
    <3>1. hard_failure' /\ primary' = primary
      BY <1>1, <2>3
    <3>2. RejectedBefore(pc)
      BY <1>2, <2>3 DEF Open
    <3>3. RejectedBefore(pc)'
      BY <1>1, <2>1, <3>1, <3>2, PartsStay DEF RejectedBefore
    <3>4. QED  BY <3>1, <3>3 DEF Open
  <2>4. CASE ~hard_failure /\ first = 0
    <3>1. ~hard_failure' /\ primary' = primary
      BY <1>1, <2>4
    <3>2. /\ primary = "AUTHORIZED" /\ ProvenBefore(pc)
          /\ Raises(violations, "CONDITION") => ConditionBefore(pc)
          /\ ConditionBefore(pc) => Raises(violations, "CONDITION") \/ Full
      BY <1>2, <2>4 DEF Open
    <3>3. ProvenBefore(pc)'
      BY <1>1, <1>7, <2>2, <2>4, <3>2, PartsStay
    <3>4. Raises(violations', "CONDITION") => ConditionBefore(pc')
      BY <1>5, <1>9, <2>2, <3>2
    <3>5. Full => Len(violations') = room
      <4>1. Len(violations) \in Nat /\ Len(violations') \in Nat /\ room \in Nat
        BY <1>2, <1>3, <1>9, LenProperties DEF Types, InputOK
      <4>2. QED  BY <1>9, <4>1 DEF Full
    <3>6. ConditionBefore(pc') => Raises(violations', "CONDITION") \/ Len(violations') = room
      BY <1>5, <1>9, <2>2, <3>2, <3>5
    <3>7. QED  BY <1>1, <3>1, <3>2, <3>3, <3>4, <3>6, PartsStay DEF Open
  <2>5. CASE ~hard_failure /\ first # 0
    <3>1. hard_failure' /\ primary' \in Codes[Stages[pc]]
      BY <1>1, <1>7, <2>5 DEF codes
    <3>2. ProvenBefore(pc) /\ ~Proven(Stages[pc])
      BY <1>2, <1>7, <2>5 DEF Open
    <3>3. RejectedBefore(pc)'
      BY <1>1, <2>1, <3>1, <3>2, PartsStay
    <3>4. QED  BY <3>1, <3>3 DEF Open
  <2>6. QED  BY <2>3, <2>4, <2>5
<1>13. pc' \in 1 .. Resolution /\ pc' # 0 /\ pc' # Limits /\ pc' # Done /\ ShapeStatus' = "VALID"
  BY <1>1, <1>2, <1>4, Numbering
<1>14. QED  BY <1>10, <1>11, <1>12, <1>13 DEF IInv

\* No stage has an authorizing code, so a rejection is one.
LEMMA CodesReject == AllCodes \cap Authorizing = {}
<1>1. \A i \in 1 .. 7 : Codes[Stages[i]] \cap Authorizing = {}
  <2> TAKE i \in 1 .. 7
  <2>1. i \in {1, 2, 3, 4, 5, 6, 7}
    BY Numbers
  <2>2. QED  BY <2>1, StageNames DEF Codes, Authorizing
<1>2. QED  BY <1>1, StageNames DEF AllCodes

LEMMA RejectedMeans ==
    ASSUME NEW n, RejectedBefore(n)
    PROVE  primary \notin Authorizing
<1>1. PICK i \in DOMAIN Stages : primary \in Codes[Stages[i]]
  BY DEF RejectedBefore
<1>2. QED  BY <1>1, CodesReject, StageNames DEF AllCodes

LEMMA ResolveKeeps ==
    ASSUME IInv, Resolve
    PROVE  IInv'
<1>1. /\ pc = 8 /\ pc' = 9 /\ input' = input /\ evidence' = evidence /\ overflow' = overflow
      /\ \/ /\ hard_failure \/ Conditional = 0
            /\ primary' = primary /\ hard_failure' = hard_failure /\ violations' = violations
         \/ /\ ~hard_failure /\ Conditional # 0
            /\ rules.allow_conditional_authorization
            /\ primary' = "CONDITIONALLY_AUTHORIZED"
            /\ hard_failure' = hard_failure /\ violations' = violations
         \/ /\ ~hard_failure /\ Conditional # 0
            /\ ~rules.allow_conditional_authorization
            /\ primary' = violations[Conditional].code
            /\ hard_failure' = TRUE
            /\ violations' = [violations EXCEPT ![Conditional].severity = "HARD"]
  BY Numbering DEF Resolve
<1>2. Types /\ Open /\ Remembered /\ ShapeStatus = "VALID"
  BY <1>1, Numbering DEF IInv
<1>3. InputOK /\ InputOK' /\ ShapeStatus' = ShapeStatus /\ Violations' = Violations
  BY <1>1, <1>2, InputStays DEF Types
<1>4. /\ Conditional = 0 <=> ~Raises(violations, "CONDITION")
      /\ Conditional # 0 => Conditional \in 1 .. Len(violations)
  BY <1>2, SelectsFirstCondition DEF Types
<1>5. rules.allow_conditional_authorization = input.policy.allow_conditional_authorization
  BY RulesUnfold
<1>6. \A i \in DOMAIN Stages : i < pc /\ i < pc'
  BY <1>1, Numbering
<1>7. /\ ProvenBefore(pc') <=> ProvenBefore(pc)
      /\ ConditionBefore(pc') <=> ConditionBefore(pc)
  BY <1>6 DEF ProvenBefore, ConditionBefore
<1>8. Remembered'
  BY <1>1, <1>2, <1>6, PartsStay DEF Remembered
<1>9. SUFFICES Types' /\ Decided'
  BY <1>1, <1>2, <1>3, <1>8, Numbering DEF IInv
<1>10. pc' \in 0 .. Done /\ pc' # Done
  BY <1>1, Numbering
<1>11. CASE hard_failure
  <2>1. primary' = primary /\ hard_failure' = hard_failure /\ violations' = violations
    BY <1>1, <1>11
  <2>2. RejectedBefore(pc)
    BY <1>2, <1>11 DEF Open
  <2>3. RejectedBefore(pc)'
    BY <1>1, <1>6, <2>1, <2>2, PartsStay DEF RejectedBefore
  <2>4. Types'
    BY <1>1, <1>2, <1>3, <1>10, <2>1 DEF Types
  <2>5. QED  BY <1>11, <2>1, <2>3, <2>4 DEF Decided
<1>12. CASE ~hard_failure /\ Conditional = 0
  <2>1. primary' = primary /\ hard_failure' = hard_failure /\ violations' = violations
    BY <1>1, <1>12
  <2>2. /\ primary = "AUTHORIZED" /\ ProvenBefore(pc)
        /\ ConditionBefore(pc) => Full
    BY <1>2, <1>4, <1>12 DEF Open
  <2>3. Types'
    BY <1>1, <1>2, <1>3, <1>10, <2>1 DEF Types
  <2>4. Full' <=> Full
    BY <1>1, <2>1 DEF Full
  <2>5. QED  BY <1>1, <1>7, <1>12, <2>1, <2>2, <2>3, <2>4, PartsStay DEF Decided
<1>13. CASE /\ ~hard_failure /\ Conditional # 0
            /\ rules.allow_conditional_authorization
  <2>1. /\ primary' = "CONDITIONALLY_AUTHORIZED" /\ hard_failure' = hard_failure
        /\ violations' = violations
    BY <1>1, <1>13
  <2>2. ProvenBefore(pc) /\ ConditionBefore(pc)
    BY <1>2, <1>4, <1>13 DEF Open
  <2>3. Types'
    <3>1. primary' \in Authorizing
      BY <2>1 DEF Authorizing
    <3>2. QED  BY <1>1, <1>2, <1>3, <1>10, <2>1, <3>1 DEF Types
  <2>4. input'.policy.allow_conditional_authorization
    BY <1>1, <1>5, <1>13
  <2>5. QED  BY <1>1, <1>7, <1>13, <2>1, <2>2, <2>3, <2>4, PartsStay DEF Decided
<1>14. CASE /\ ~hard_failure /\ Conditional # 0
            /\ ~rules.allow_conditional_authorization
  <2> DEFINE k == Conditional
  <2>1. /\ primary' = violations[k].code /\ hard_failure' = TRUE
        /\ violations' = [violations EXCEPT ![k].severity = "HARD"]
    BY <1>1, <1>14
  <2>2. ProvenBefore(pc) /\ ConditionBefore(pc)
    BY <1>2, <1>4, <1>14 DEF Open
  <2>3. k \in 1 .. Len(violations)
    BY <1>4, <1>14
  <2> HIDE DEF k
  <2>4. violations[k] \in Violations
    BY <1>2, <2>3, SequenceElements DEF Types
  <2>5. primary' \in {"RESOURCE_LIMIT"} \cup AllCodes
    BY <2>1, <2>4 DEF Violations, AllCodes
  <2>6. primary' \notin Authorizing
    BY <2>5, CodesReject DEF Authorizing
  <2>7. violations' \in Seq(Violations) /\ Len(violations') = Len(violations)
    <3> DEFINE resolved == [violations[k] EXCEPT !.severity = "HARD"]
    <3>1. resolved \in Violations
      BY <2>4 DEF Violations, Severity
    <3>2. violations' = [violations EXCEPT ![k] = resolved]
      BY <2>1
    <3> HIDE DEF resolved
    <3>3. violations \in Seq(Violations)
      BY <1>2 DEF Types
    <3>4. QED  BY <2>3, <3>1, <3>2, <3>3, ExceptSeq
  <2>8. Types'
    BY <1>1, <1>2, <1>3, <1>10, <2>1, <2>5, <2>7 DEF Types
  <2>9. ~input'.policy.allow_conditional_authorization
    BY <1>1, <1>5, <1>14
  <2>10. QED  BY <1>1, <1>7, <2>1, <2>2, <2>6, <2>8, <2>9, PartsStay DEF Decided
<1>15. QED  BY <1>11, <1>12, <1>13, <1>14

LEMMA CheckLimitsKeeps ==
    ASSUME IInv, CheckLimits
    PROVE  IInv'
<1> DEFINE entries == IF overflow THEN Hard("RESOURCE_LIMIT", "path") ELSE <<>>
           codes == {"RESOURCE_LIMIT"}
           first == SelectInSeq(entries, IsHard)
           room == input.limits.max_explanation_entries
<1>1. /\ pc = 9 /\ pc' = 10 /\ input' = input /\ evidence' = evidence /\ overflow' = overflow
      /\ Push(entries)
      /\ IF hard_failure \/ first = 0
         THEN hard_failure' = hard_failure /\ primary' = primary
         ELSE hard_failure' = TRUE /\ primary' = entries[first].code
  BY Numbering DEF CheckLimits, Collect
<1>2. Types /\ Decided /\ Remembered /\ ShapeStatus = "VALID"
  BY <1>1, Numbering DEF IInv
<1>3. InputOK /\ InputOK' /\ ShapeStatus' = ShapeStatus /\ Violations' = Violations
  BY <1>1, <1>2, InputStays DEF Types
<1>4. entries \in Seq(Finding(codes)) /\ (Raises(entries, "HARD") <=> overflow)
  <2>1. "path" \in Subjects
    BY DEF Subjects
  <2>2. /\ Hard("RESOURCE_LIMIT", "path") \in Seq(Finding(codes))
        /\ Raises(Hard("RESOURCE_LIMIT", "path"), "HARD")
    BY <2>1, HardRaises
  <2>3. <<>> \in Seq(Finding(codes)) /\ ~Raises(<<>>, "HARD")
    BY NothingRaises
  <2> HIDE DEF codes
  <2>4. QED  BY <2>2, <2>3
<1> HIDE DEF entries
<1>5. /\ first = 0 <=> ~overflow
      /\ first # 0 => entries[first].code = "RESOURCE_LIMIT"
  BY <1>4, SelectsFirstHard
<1> HIDE DEF first
<1>6. /\ violations' \in Seq(Violations)
      /\ Len(violations') <= room
      /\ Len(violations) <= Len(violations')
  <2>1. entries \in Seq(Violations)
    BY <1>4, FindingsAreViolations
  <2>2. QED  BY <1>1, <1>2, <1>3, <2>1, PushFacts DEF Types
<1>7. Full => Full'
  <2>1. Len(violations) \in Nat /\ Len(violations') \in Nat /\ room \in Nat
    BY <1>2, <1>3, <1>6, LenProperties DEF Types, InputOK
  <2>2. QED  BY <1>1, <1>6, <2>1 DEF Full
<1>8. \A i \in DOMAIN Stages : i < pc /\ i < pc'
  BY <1>1, Numbering
<1>9. /\ ProvenBefore(pc)' <=> ProvenBefore(pc)
      /\ ConditionBefore(pc)' <=> ConditionBefore(pc)
  BY <1>1, <1>8, PartsStay DEF ProvenBefore, ConditionBefore
<1>10. Remembered'
  BY <1>1, <1>2, <1>8, PartsStay DEF Remembered
<1>11. primary' \in {primary, "RESOURCE_LIMIT"} /\ hard_failure' \in BOOLEAN
  BY <1>1, <1>2, <1>5 DEF Types
<1>12. Types'
  BY <1>1, <1>2, <1>3, <1>6, <1>11, Numbering DEF Types
<1>13. SUFFICES Decided' /\ (overflow' => primary' \notin Authorizing)
  BY <1>1, <1>2, <1>3, <1>10, <1>12, Numbering DEF IInv
<1>14. CASE hard_failure
  <2>1. hard_failure' = hard_failure /\ primary' = primary
    BY <1>1, <1>14
  <2>2. CASE RejectedBefore(pc)
    <3>1. RejectedBefore(pc)'
      BY <1>1, <1>8, <2>1, <2>2, PartsStay DEF RejectedBefore
    <3>2. QED  BY <1>14, <2>1, <2>2, <3>1, RejectedMeans DEF Decided
  <2>3. CASE ~RejectedBefore(pc)
    <3>1. /\ ProvenBefore(pc) /\ primary \notin Authorizing
          /\ ConditionBefore(pc) /\ ~input.policy.allow_conditional_authorization
      BY <1>1, <1>2, <1>14, <2>3, Numbering DEF Decided
    <3>2. QED  BY <1>1, <1>9, <1>14, <2>1, <3>1 DEF Decided
  <2>4. QED  BY <2>2, <2>3
<1>15. CASE ~hard_failure /\ overflow
  <2>1. hard_failure' /\ primary' = "RESOURCE_LIMIT"
    BY <1>1, <1>5, <1>15
  <2>2. ProvenBefore(pc)
    BY <1>2, <1>15 DEF Decided
  <2>3. QED  BY <1>1, <1>9, <1>15, <2>1, <2>2, Numbering DEF Decided, Authorizing
<1>16. CASE ~hard_failure /\ ~overflow
  <2>1. ~hard_failure' /\ primary' = primary
    BY <1>1, <1>5, <1>16
  <2>2. /\ ProvenBefore(pc)
        /\ \/ primary = "AUTHORIZED" /\ (~ConditionBefore(pc) \/ Full)
           \/ /\ primary = "CONDITIONALLY_AUTHORIZED"
              /\ ConditionBefore(pc) /\ input.policy.allow_conditional_authorization
    BY <1>2, <1>16 DEF Decided
  <2>3. QED  BY <1>1, <1>7, <1>9, <1>16, <2>1, <2>2 DEF Decided
<1>17. QED  BY <1>14, <1>15, <1>16

LEMMA StutterKeeps ==
    ASSUME IInv, UNCHANGED vars
    PROVE  IInv'
<1>1. /\ input' = input /\ pc' = pc /\ primary' = primary /\ hard_failure' = hard_failure
      /\ violations' = violations /\ evidence' = evidence /\ overflow' = overflow
  BY DEF vars
<1>2. Types /\ InputOK
  BY DEF IInv, Types
<1>3. InputOK' /\ ShapeStatus' = ShapeStatus /\ Violations' = Violations
  BY <1>1, <1>2, InputStays
<1>4. Types'
  BY <1>1, <1>2, <1>3 DEF Types
<1>5. /\ ProvenBefore(pc)' <=> ProvenBefore(pc)
      /\ ConditionBefore(pc)' <=> ConditionBefore(pc)
      /\ RejectedBefore(pc)' <=> RejectedBefore(pc)
      /\ Full' <=> Full
      /\ Remembered' <=> Remembered
  BY <1>1, PartsStay DEF RejectedBefore, Full, Remembered
<1>6. Open' <=> Open
  BY <1>1, <1>5 DEF Open
<1>7. Decided' <=> Decided
  BY <1>1, <1>5 DEF Decided
<1>8. QED  BY <1>1, <1>3, <1>4, <1>5, <1>6, <1>7 DEF IInv

\* The invariant on which all that follows rests: what each stage adds to the outcome,
\* the explanation and the evidence of compute_evaluation().
THEOREM EvaluationInvariant == Spec => []IInv
<1>1. Init => IInv
  BY InvariantFirst
<1>2. IInv /\ [Next]_vars => IInv'
  BY DecodeKeeps, StageKeeps, ResolveKeeps, CheckLimitsKeeps, StutterKeeps DEF Next
<1>3. QED  BY <1>1, <1>2, PTL DEF Spec

\* Every variable of an evaluation has its type; the explanation and the evidence stay
\* within their limits, whatever stages find.
THEOREM EvaluationTypeCorrect == Spec => []TypeOK
<1>1. ASSUME IInv PROVE TypeOK
  <2>1. Types
    BY <1>1 DEF IInv
  <2>2. \A i \in DOMAIN violations : violations[i] \in Violations
    BY <2>1, SequenceElements DEF Types
  <2>3. primary \in Authorizing \cup {"MALFORMED_PATH", "RESOURCE_LIMIT"}
            \cup UNION {Codes[s] : s \in ToSet(Stages)}
    BY <2>1 DEF Types, AllCodes
  <2>4. QED  BY <2>1, <2>2, <2>3 DEF Types, TypeOK
<1>2. QED  BY <1>1, EvaluationInvariant, PTL

-----------------------------------------------------------------------------
(* What a decision means.                                                  *)

LEMMA ProvenBeforeDone ==
    ProvenBefore(Done) <=> \A s \in ToSet(Stages) : Proven(s)
<1>1. \A i \in 1 .. 7 : i < 10
  OBVIOUS
<1>2. QED  BY <1>1, StageNames, Numbering DEF ProvenBefore

\* A decision that grants authority.
LEMMA GrantFacts ==
    ASSUME IInv, pc = Done, primary \in Authorizing
    PROVE  /\ InputOK /\ ShapeStatus = "VALID" /\ ProvenBefore(Done)
           /\ ~overflow
           /\ primary = "AUTHORIZED" => ~ConditionBefore(Done) \/ Full
           /\ primary = "CONDITIONALLY_AUTHORIZED" =>
                 ConditionBefore(Done) /\ input.policy.allow_conditional_authorization
<1>1. ShapeStatus = "VALID"
  BY DEF IInv, Authorizing
<1>2. Decided /\ ~overflow /\ InputOK /\ overflow \in BOOLEAN
  BY <1>1 DEF IInv, Types
<1>3. ~RejectedBefore(pc)
  BY RejectedMeans
<1>4. QED  BY <1>1, <1>2, <1>3 DEF Decided, Authorizing

\* Authority is granted only to a path that nothing speaks against, whatever the number of
\* hops, rules and records: compute_evaluation() as a whole.
THEOREM AuthorityAlwaysProven == Spec => []AuthorityIsProven
<1>1. ASSUME IInv PROVE AuthorityIsProven
  BY <1>1, GrantFacts, ProvenBeforeDone DEF AuthorityIsProven
<1>2. QED  BY <1>1, EvaluationInvariant, PTL

LEMMA ConditionsMean ==
    ASSUME InputOK
    PROVE  /\ ConditionBefore(Done) => HasCondition
           /\ HasCondition /\ ProvenBefore(Done) => ConditionBefore(Done)
<1>1. /\ StageConditional(3) => \E ref \in OfKind("PORT") : input.port[ref] # "ACTIVE"
      /\ ProvenBefore(Done) /\ (\E ref \in OfKind("PORT") : input.port[ref] # "ACTIVE")
            => StageConditional(3)
  <2>1. \A admin : PortTolerated(admin) => admin # "ACTIVE"
    BY DEF PortTolerated
  <2>2. ProvenBefore(Done) =>
            \A ref \in OfKind("PORT") :
                input.port[ref] = "ACTIVE" \/ PortTolerated(input.port[ref])
    <3>1. ProvenBefore(Done) => Proven("PORT_ADMINISTRATIVE")
      BY StageNames, Numbering DEF ProvenBefore
    <3>2. QED  BY <3>1 DEF Proven
  <2>3. QED  BY <2>1, <2>2 DEF StageConditional
<1> DEFINE LinkHas ==
               \E ref \in OfKind("LINK") :
                  \/ /\ input.link[ref] = "DEGRADED"
                     /\ \/ input.constraints.link_state.degraded_is_conditional
                        \/ input.policy.link_state.degraded_is_conditional
                  \/ /\ input.link[ref] \in {"UNKNOWN", "absent"}
                     /\ \/ input.constraints.link_state.unknown_is_conditional
                        \/ input.policy.link_state.unknown_is_conditional
           RecordHas == \E r \in ToSet(rules.capabilities) : ~input.record[r.subject].known
<1>2. /\ StageConditional(4) => LinkHas
      /\ ProvenBefore(Done) /\ LinkHas => StageConditional(4)
  <2>1. \A state : LinkConditional(state) <=>
            \/ /\ state = "DEGRADED"
               /\ \/ input.constraints.link_state.degraded_is_conditional
                  \/ input.policy.link_state.degraded_is_conditional
            \/ /\ state \in {"UNKNOWN", "absent"}
               /\ \/ input.constraints.link_state.unknown_is_conditional
                  \/ input.policy.link_state.unknown_is_conditional
    BY CombinedAcceptances, Zenon DEF LinkConditional
  <2>2. LinkHas <=> \E ref \in OfKind("LINK") : LinkConditional(input.link[ref])
    BY <2>1
  <2>3. ProvenBefore(Done) =>
            \A ref \in OfKind("LINK") :
                input.link[ref] = "UP" \/ LinkTolerated(input.link[ref])
    <3>1. ProvenBefore(Done) => Proven("LINK_STATE")
      BY StageNames, Numbering DEF ProvenBefore
    <3>2. QED  BY <3>1 DEF Proven
  <2>4. \A state : LinkConditional(state) => state # "UP"
    BY DEF LinkConditional
  <2> HIDE DEF LinkHas
  <2>5. QED  BY <2>2, <2>3, <2>4 DEF StageConditional
<1>3. /\ StageConditional(5) => RecordHas
      /\ ProvenBefore(Done) /\ RecordHas => StageConditional(5)
  <2>1. ProvenBefore(Done) =>
            \A r \in ToSet(rules.capabilities) :
                ~input.record[r.subject].known => ~r.fail_closed_on_unknown
    <3>1. ProvenBefore(Done) => Proven("CAPABILITY")
      BY StageNames, Numbering DEF ProvenBefore
    <3>2. QED  BY <3>1, CombinedCapabilities DEF Proven
  <2>2. QED  BY <2>1 DEF StageConditional
<1>4. HasCondition <=>
          (\E ref \in OfKind("PORT") : input.port[ref] # "ACTIVE") \/ LinkHas \/ RecordHas
  BY Zenon DEF HasCondition
<1> HIDE DEF LinkHas, RecordHas
<1>5. ConditionBefore(Done) <=> StageConditional(3) \/ StageConditional(4) \/ StageConditional(5)
  <2>1. \A i \in DOMAIN Stages : StageConditional(i) => i \in {3, 4, 5}
    BY DEF StageConditional
  <2>2. 3 \in DOMAIN Stages /\ 4 \in DOMAIN Stages /\ 5 \in DOMAIN Stages
    BY Numbering
  <2>3. QED  BY <2>1, <2>2, Numbering DEF ConditionBefore
<1>6. QED  BY <1>1, <1>2, <1>3, <1>4, <1>5

\* A rejection is the earliest stage's that something speaks against the path in, whatever
\* later stages find; without one it is for conditions or for lost evidence.
THEOREM EarliestStageAlwaysDecides == Spec => []EarliestStageDecides
<1> DEFINE failing == {i \in DOMAIN Stages : ~Proven(Stages[i])}
<1>1. ASSUME IInv, pc = Done, primary \notin Authorizing, ShapeStatus = "VALID"
      PROVE  IF failing = {}
             THEN \/ HasCondition /\ ~input.policy.allow_conditional_authorization
                  \/ primary = "RESOURCE_LIMIT" /\ overflow
             ELSE primary \in Codes[Stages[Min(failing)]]
  <2>1. Decided /\ InputOK
    BY <1>1 DEF IInv, Types
  <2>2. CASE RejectedBefore(pc)
    <3>1. PICK i \in DOMAIN Stages : /\ ProvenBefore(i) /\ ~Proven(Stages[i])
                                     /\ primary \in Codes[Stages[i]]
      BY <2>2 DEF RejectedBefore
    <3>2. i \in failing /\ \A j \in failing : ~ (j < i)
      BY <3>1 DEF ProvenBefore
    <3>3. failing \in SUBSET Nat
      BY Numbering
    <3> HIDE DEF failing
    <3>4. Min(failing) \in failing /\ Min(failing) <= i
      BY <3>2, <3>3, MinIsLeast
    <3>5. Min(failing) = i
      BY <3>2, <3>3, <3>4
    <3>6. QED  BY <3>1, <3>2, <3>5
  <2>3. CASE ~RejectedBefore(pc)
    <3>1. /\ ProvenBefore(pc)
          /\ \/ ConditionBefore(pc) /\ ~input.policy.allow_conditional_authorization
             \/ primary = "RESOURCE_LIMIT" /\ overflow
      BY <1>1, <2>1, <2>3 DEF Decided, Authorizing
    <3>2. failing = {}
      BY <1>1, <3>1, StageNames, Numbering DEF ProvenBefore
    <3>3. QED  BY <1>1, <2>1, <3>1, <3>2, ConditionsMean
  <2>4. QED  BY <2>2, <2>3
<1>2. ASSUME IInv PROVE EarliestStageDecides
  <2>1. SUFFICES ASSUME pc = Done, primary \notin Authorizing
                 PROVE  IF ShapeStatus # "VALID"
                        THEN primary \in {"MALFORMED_PATH", "RESOURCE_LIMIT"}
                        ELSE IF failing = {}
                        THEN \/ HasCondition /\ ~input.policy.allow_conditional_authorization
                             \/ primary = "RESOURCE_LIMIT" /\ overflow
                        ELSE primary \in Codes[Stages[Min(failing)]]
    BY Zenon DEF EarliestStageDecides
  <2> HIDE DEF failing
  <2>2. CASE ShapeStatus # "VALID"
    BY <1>2, <2>1, <2>2 DEF IInv
  <2>3. CASE ShapeStatus = "VALID"
    BY <1>1, <1>2, <2>1, <2>3
  <2>4. QED  BY <2>2, <2>3
<1>3. QED  BY <1>2, EvaluationInvariant, PTL

\* Authority is unconditional only if nothing makes it conditional, and conditional only
\* where the policy lets conditions stand, as long as the explanation has room.
THEOREM ConditionsAlwaysResolved == Spec => []ConditionsResolved
<1>1. ASSUME IInv PROVE ConditionsResolved
  <2>1. SUFFICES ASSUME pc = Done
                 PROVE  /\ primary = "AUTHORIZED" =>
                              \/ ~HasCondition
                              \/ Len(violations) = input.limits.max_explanation_entries
                        /\ primary = "CONDITIONALLY_AUTHORIZED" =>
                              HasCondition /\ input.policy.allow_conditional_authorization
    BY DEF ConditionsResolved
  <2>2. CASE primary \in Authorizing
    BY <1>1, <2>1, <2>2, GrantFacts, ConditionsMean DEF Full
  <2>3. CASE primary \notin Authorizing
    BY <2>3 DEF Authorizing
  <2>4. QED  BY <2>2, <2>3
<1>2. QED  BY <1>1, EvaluationInvariant, PTL

\* What the failure domain stage reads, said of the two sides' rules.
LEMMA DomainReadsMean ==
    ASSUME InputOK, NEW ref \in DomainElements
    PROVE  /\ <<"MEMBERSHIP", ref>> \in DomainReads
           /\ \A d \in input.memberships[ref] : <<"DOMAIN", d>> \in DomainReads
BY DEF DomainReads

LEMMA DomainElementsMean ==
    ASSUME InputOK, ProvenBefore(Done)
    PROVE  /\ input.constraints.failure_domains # <<>> \/ input.policy.forbidden_domain_classes # {}
                => PathElements \subseteq DomainElements
           /\ \A c \in ToSet(input.constraints.failure_domains) :
                 c.kind = "DIVERSE_FROM_PEER_PATH" =>
                     input.peers[c.peer].elements \subseteq DomainElements
<1>1. rules.failure_domains = <<>> <=> input.constraints.failure_domains = <<>>
  BY CombinedFailureDomains
<1>2. rules.forbidden_domain_classes = <<>> <=> input.policy.forbidden_domain_classes = {}
  BY CombinedForbiddenClasses
<1>3. ToSet(rules.failure_domains) = ToSet(input.constraints.failure_domains)
  BY CombinedFailureDomains
<1>4. input.constraints.failure_domains # <<>> \/ input.policy.forbidden_domain_classes # {}
          => PathElements \subseteq DomainElements
  BY <1>1, <1>2 DEF DomainElements
<1>5. ASSUME NEW c \in ToSet(input.constraints.failure_domains),
             c.kind = "DIVERSE_FROM_PEER_PATH"
      PROVE  input.peers[c.peer].elements \subseteq DomainElements
  <2>1. Proven("FAILURE_DOMAIN")
    BY StageNames, Numbering DEF ProvenBefore
  <2>2. Satisfied(c)
    BY <2>1 DEF Proven
  <2>3. Disjoint(c)
    BY <1>5, <2>2, Zenon DEF Satisfied
  <2>4. Established(c)
    BY <2>3 DEF Disjoint, Established
  <2>5. rules.failure_domains # <<>>
    BY <1>3, EmptySequence
  <2>6. PeerElements(c) \subseteq DomainElements
    BY <1>3, <1>5, <2>4, <2>5 DEF DomainElements
  <2>7. QED  BY <2>6 DEF PeerElements
<1>6. QED  BY <1>4, <1>5

\* Authority binds every view and record it was decided from, so that a change of any of
\* them withdraws it.
THEOREM AuthorityAlwaysBindsReads == Spec => []AuthorityBindsReads
<1>1. ASSUME IInv, pc = Done, primary \in Authorizing
      PROVE  /\ Scalars \subseteq evidence
             /\ \A ref \in PathElements : <<"STRUCTURAL_ELEMENT", ref>> \in evidence
             /\ \A ref \in OfKind("PORT") : <<"PORT_CONFIG", ref>> \in evidence
             /\ \A ref \in OfKind("LINK") : <<"LINK_STATE", ref>> \in evidence
             /\ \A r \in ToSet(rules.capabilities) : <<"CAPABILITY", r.subject>> \in evidence
             /\ input.underlying.bound # 0 => <<"UNDERLYING_AUTHORITY", "underlying">> \in evidence
             /\ \A ref \in DomainElements :
                   /\ <<"MEMBERSHIP", ref>> \in evidence
                   /\ \A d \in input.memberships[ref] : <<"DOMAIN", d>> \in evidence
             /\ InputOK /\ ProvenBefore(Done)
  <2>1. InputOK /\ ShapeStatus = "VALID" /\ ProvenBefore(Done) /\ ~overflow
    BY <1>1, GrantFacts
  <2>2. /\ Scalars \subseteq evidence
        /\ \A i \in 1 .. 7 : Reads(Stages[i]) \subseteq evidence
    BY <1>1, <2>1, Numbering DEF IInv, Remembered
  <2>3. \A ref \in PathElements : <<"STRUCTURAL_ELEMENT", ref>> \in evidence
    <3>1. Reads(Stages[1]) \subseteq evidence
      BY <2>2
    <3>2. QED  BY <3>1, ReadsByStage
  <2>4. /\ \A ref \in OfKind("PORT") : <<"PORT_CONFIG", ref>> \in evidence
        /\ \A ref \in OfKind("LINK") : <<"LINK_STATE", ref>> \in evidence
    <3>1. Reads(Stages[3]) \subseteq evidence /\ Reads(Stages[4]) \subseteq evidence
      BY <2>2
    <3>2. QED  BY <3>1, ReadsByStage
  <2>5. \A r \in ToSet(rules.capabilities) : <<"CAPABILITY", r.subject>> \in evidence
    <3>1. Reads(Stages[5]) \subseteq evidence
      BY <2>2
    <3>2. QED  BY <3>1, ReadsByStage
  <2>6. input.underlying.bound # 0 => <<"UNDERLYING_AUTHORITY", "underlying">> \in evidence
    <3>1. Reads(Stages[2]) \subseteq evidence
      BY <2>2
    <3>2. Proven("BOUND_INPUT_CURRENTNESS")
      BY <2>1, StageNames, Numbering DEF ProvenBefore
    <3>3. input.underlying.bound # 0 => input.underlying.found
      BY <3>2 DEF Proven
    <3>4. QED  BY <3>1, <3>3, ReadsByStage
  <2>7. \A ref \in DomainElements :
            /\ <<"MEMBERSHIP", ref>> \in evidence
            /\ \A d \in input.memberships[ref] : <<"DOMAIN", d>> \in evidence
    <3>1. Reads(Stages[6]) \subseteq evidence
      BY <2>2
    <3>2. DomainReads \subseteq evidence
      BY <3>1, ReadsByStage
    <3>3. QED  BY <2>1, <3>2, DomainReadsMean
  <2>8. QED  BY <2>1, <2>2, <2>3, <2>4, <2>5, <2>6, <2>7
<1>2. ASSUME IInv PROVE AuthorityBindsReads
  <2>1. CASE pc = Done /\ primary \in Authorizing
    <3>1. InputOK /\ ProvenBefore(Done)
      BY <1>1, <1>2, <2>1
    <3>2. /\ input.constraints.failure_domains # <<>>
                \/ input.policy.forbidden_domain_classes # {}
                => PathElements \subseteq DomainElements
          /\ \A c \in ToSet(input.constraints.failure_domains) :
                c.kind = "DIVERSE_FROM_PEER_PATH" =>
                    input.peers[c.peer].elements \subseteq DomainElements
      BY <3>1, DomainElementsMean
    <3>3. QED  BY <1>1, <1>2, <2>1, <3>2 DEF AuthorityBindsReads
  <2>2. CASE ~ (pc = Done /\ primary \in Authorizing)
    BY <2>2 DEF AuthorityBindsReads
  <2>3. QED  BY <2>1, <2>2
<1>3. QED  BY <1>2, EvaluationInvariant, PTL
=============================================================================
