-------------------------- MODULE SearchQueryProofs --------------------------
(* What is proved of SearchQuery, for any documents, kinds, fields and      *)
(* conditions, any bounds and either engine: a page has the documents it    *)
(* should have, in order, and Count gives the number that satisfy.          *)
EXTENDS SearchQuery, SequenceTheorems, FiniteSetTheorems, WellFoundedInduction, TLAPS

----------------------------------------------------------------------------
(* Sequences that list a set. *)

\* s has every element of D, once.
Lists(s, D) ==
  /\ s \in Seq(D) /\ IsInjective(s) /\ ToSet(s) = D
  /\ IsFiniteSet(D) /\ Len(s) = Cardinality(D) /\ Len(s) \in Nat

\* A sequence without repetition lists its elements.
LEMMA InjectiveLists ==
  ASSUME NEW S, NEW s \in Seq(S), IsInjective(s)
  PROVE  Lists(s, ToSet(s))
<1> PICK n \in Nat : n = Len(s)
  BY LenProperties
<1>1. s \in [1..n -> ToSet(s)] /\ DOMAIN s = 1..n
  BY LenProperties DEF ToSet
<1>2. s \in Seq(ToSet(s))
  BY <1>1
<1>3. s \in Injection(1..n, ToSet(s)) /\ s \in Surjection(1..n, ToSet(s))
  BY <1>1 DEF Injection, Surjection, IsInjective, ToSet
<1>4. ExistsBijection(1..n, ToSet(s))
  BY <1>3 DEF ExistsBijection, Bijection
<1>5. IsFiniteSet(1..n) /\ Cardinality(1..n) = n
  <2>1. 1 \in Int /\ n \in Int /\ (1 > n => n = 0)
    OBVIOUS
  <2>2. IsFiniteSet(1..n) /\ Cardinality(1..n) = IF 1 > n THEN 0 ELSE n - 1 + 1
    BY <2>1, FS_Interval
  <2> QED
    BY <2>1, <2>2
<1>6. IsFiniteSet(ToSet(s)) /\ Cardinality(ToSet(s)) = n
  BY <1>4, <1>5, FS_Bijection
<1> QED
  BY <1>2, <1>6 DEF Lists

\* The orders of a finite set list it.
LEMMA SetToSeqsLists ==
  ASSUME NEW D, IsFiniteSet(D), NEW s \in SetToSeqs(D)
  PROVE  Lists(s, D)
<1> PICK n : n = Cardinality(D)
  OBVIOUS
<1>1. n \in Nat
  BY FS_CardinalityType
<1>2. s \in [1..n -> D] /\ \A i, j \in 1..n : s[i] = s[j] => i = j
  BY Zenon DEF SetToSeqs
<1>3. IsInjective(s)
  BY <1>2 DEF IsInjective
<1>4. s \in Injection(1..n, D)
  BY <1>2 DEF Injection, IsInjective
<1>5. Cardinality(1..n) = n
  BY <1>1, FS_Interval
<1>6. s \in Surjection(1..n, D)
  BY <1>4, <1>5, FS_Injection
<1>7. ToSet(s) = D
  BY <1>2, <1>6 DEF Surjection, ToSet
<1>8. s \in Seq(D) /\ Len(s) = n
  BY <1>1, <1>2
<1> QED
  BY <1>1, <1>3, <1>7, <1>8 DEF Lists

\* What a list says of its elements.
LEMMA ListFacts ==
  ASSUME NEW D, NEW s, Lists(s, D)
  PROVE  /\ DOMAIN s = 1..Len(s) /\ Len(s) \in Nat
         /\ \A i \in 1..Len(s) : s[i] \in D
         /\ \A i, j \in 1..Len(s) : s[i] = s[j] => i = j
         /\ \A d \in D : \E i \in 1..Len(s) : s[i] = d
<1>1. DOMAIN s = 1..Len(s) /\ \A i \in 1..Len(s) : s[i] \in D
  BY LenProperties, ElementOfSeq DEF Lists
<1> QED
  BY <1>1 DEF Lists, IsInjective, ToSet

\* One list after the other lists both sets.
LEMMA ConcatLists ==
  ASSUME NEW D, NEW E, D \cap E = {}, NEW s, NEW t, Lists(s, D), Lists(t, E)
  PROVE  Lists(s \o t, D \cup E)
<1> PICK m \in Nat, n \in Nat : m = Len(s) /\ n = Len(t)
  BY DEF Lists
<1> PICK c : c = s \o t
  OBVIOUS
<1>1. s \in Seq(D \cup E) /\ t \in Seq(D \cup E)
  BY SeqMonotonic DEF Lists
<1>2. /\ c \in Seq(D \cup E) /\ Len(c) = m + n
      /\ \A i \in 1..(m + n) : c[i] = IF i <= m THEN s[i] ELSE t[i - m]
  BY <1>1, ConcatProperties
<1>3. DOMAIN c = 1..(m + n)
  BY <1>2, LenProperties
<1>4. ASSUME NEW i \in 1..(m + n), NEW j \in 1..(m + n), c[i] = c[j]
      PROVE  i = j
  <2>1. CASE i <= m /\ j <= m
    <3>1. i \in 1..m /\ j \in 1..m /\ s[i] = s[j]
      BY <1>2, <1>4, <2>1
    <3> QED
      BY <3>1, ListFacts
  <2>2. CASE ~(i <= m) /\ ~(j <= m)
    <3>1. i - m \in 1..n /\ j - m \in 1..n /\ t[i - m] = t[j - m]
      BY <1>2, <1>4, <2>2
    <3>2. i - m = j - m
      BY <3>1, ListFacts
    <3> QED
      BY <3>2
  <2>3. CASE i <= m /\ ~(j <= m)
    <3>1. i \in 1..m /\ j - m \in 1..n /\ s[i] = t[j - m]
      BY <1>2, <1>4, <2>3
    <3>2. s[i] \in D /\ t[j - m] \in E
      BY <3>1, ListFacts
    <3> QED
      BY <3>1, <3>2
  <2>4. CASE ~(i <= m) /\ j <= m
    <3>1. j \in 1..m /\ i - m \in 1..n /\ s[j] = t[i - m]
      BY <1>2, <1>4, <2>4
    <3>2. s[j] \in D /\ t[i - m] \in E
      BY <3>1, ListFacts
    <3> QED
      BY <3>1, <3>2
  <2> QED
    BY <2>1, <2>2, <2>3, <2>4
<1>5. IsInjective(c)
  BY <1>3, <1>4 DEF IsInjective
<1>6. ToSet(c) = D \cup E
  <2>1. ASSUME NEW d \in D PROVE d \in ToSet(c)
    <3>1. PICK i \in 1..m : s[i] = d
      BY ListFacts
    <3>2. i \in 1..(m + n) /\ c[i] = d
      BY <1>2, <3>1
    <3> QED
      BY <1>3, <3>2 DEF ToSet
  <2>2. ASSUME NEW e \in E PROVE e \in ToSet(c)
    <3>1. PICK i \in 1..n : t[i] = e
      BY ListFacts
    <3>2. i + m \in 1..(m + n) /\ ~(i + m <= m) /\ (i + m) - m = i
      OBVIOUS
    <3>3. c[i + m] = e
      BY <1>2, <3>1, <3>2
    <3> QED
      BY <1>3, <3>2, <3>3 DEF ToSet
  <2>3. ToSet(c) \subseteq D \cup E
    BY <1>2, <1>3, ElementOfSeq DEF ToSet
  <2> QED
    BY <2>1, <2>2, <2>3
<1> QED
  BY <1>2, <1>5, <1>6, InjectiveLists

----------------------------------------------------------------------------
(* A page is a window on a list in order. *)

\* What a window of a list, from the (a+1)st element to the b-th, shows of a
\* set, when the list is in the order R: of the rest of the set no more than a
\* elements must come before, and a can.
Window(w, S, R, a, b) ==
  LET rest == S \ ToSet(w)
      before == {d \in rest : \A e \in ToSet(w) : <<d, e>> \in R}
      after  == {d \in rest : \A e \in ToSet(w) : <<e, d>> \in R}
  IN /\ ToSet(w) \subseteq S /\ IsInjective(w)
     /\ Len(w) = b - a /\ DOMAIN w = 1..(b - a)
     /\ \A i, j \in DOMAIN w : i < j => <<w[i], w[j]>> \in R
     /\ before \cup after = rest
     /\ Cardinality(rest \ after) <= a
     /\ a <= Cardinality(before)

FirstOf(s, a) == {s[i] : i \in 1..a}

\* The first elements of a list are as many as they are.
LEMMA FirstElements ==
  ASSUME NEW S, NEW s, Lists(s, S), NEW a \in Nat, a <= Len(s)
  PROVE  IsFiniteSet(FirstOf(s, a)) /\ Cardinality(FirstOf(s, a)) = a
<1> PICK n \in Nat : n = Len(s)
  BY DEF Lists
<1> DEFINE p == [i \in 1..a |-> s[i]]
<1>1. \A i \in 1..a : i \in 1..n /\ s[i] \in S
  BY ListFacts
<1>2. p \in Seq(S) /\ DOMAIN p = 1..a /\ Len(p) = a
  BY <1>1
<1>3. \A i, j \in 1..a : p[i] = p[j] => i = j
  BY <1>1, ListFacts
<1>4. ToSet(p) = FirstOf(s, a)
  BY <1>2 DEF ToSet, FirstOf
<1>5. IsInjective(p)
  BY <1>2, <1>3 DEF IsInjective
<1> HIDE DEF p
<1>6. Lists(p, ToSet(p))
  BY <1>2, <1>5, InjectiveLists
<1> QED
  BY <1>2, <1>4, <1>6 DEF Lists

LEMMA WindowOfList ==
  ASSUME NEW S, NEW s, Lists(s, S), NEW R,
         \A i, j \in 1..Len(s) : i < j => <<s[i], s[j]>> \in R,
         NEW a \in Nat, NEW b \in Nat, a <= b, b <= Len(s)
  PROVE  Window(SubSeq(s, a + 1, b), S, R, a, b)
<1> PICK n \in Nat : n = Len(s)
  BY DEF Lists
<1> PICK w : w = SubSeq(s, a + 1, b)
  OBVIOUS
<1>1. \A i \in (a + 1)..b : i \in 1..n /\ s[i] \in S
  BY ListFacts
<1>2. /\ w \in Seq(S) /\ Len(w) = b - a
      /\ \A i \in 1..(b - a) : w[i] = s[a + i]
  <2>1. a + 1 \in Int /\ b \in Int
    OBVIOUS
  <2>2. /\ w \in Seq(S) /\ Len(w) = IF a + 1 <= b THEN b - (a + 1) + 1 ELSE 0
        /\ \A i \in 1..(b - (a + 1) + 1) : w[i] = s[a + 1 + i - 1]
    BY <1>1, <2>1, SubSeqProperties
  <2>3. \A i \in 1..(b - a) : i \in 1..(b - (a + 1) + 1) /\ a + 1 + i - 1 = a + i
    OBVIOUS
  <2>4. Len(w) = b - a
    BY <2>2
  <2> QED
    BY <2>2, <2>3, <2>4
<1>3. DOMAIN w = 1..(b - a)
  BY <1>2, LenProperties
<1>4. \A i \in 1..(b - a) : a + i \in 1..n
  OBVIOUS
<1>5. IsInjective(w)
  <2>1. ASSUME NEW i \in 1..(b - a), NEW j \in 1..(b - a), w[i] = w[j]
        PROVE  i = j
    <3>1. s[a + i] = s[a + j] /\ a + i \in 1..n /\ a + j \in 1..n
      BY <1>2, <1>4, <2>1
    <3>2. a + i = a + j
      BY <3>1, ListFacts
    <3> QED
      BY <3>2
  <2> QED
    BY <1>3, <2>1 DEF IsInjective
<1>6. ToSet(w) \subseteq S
  BY <1>2, <1>3, ElementOfSeq DEF ToSet
<1>7. \A i, j \in 1..(b - a) : i < j => <<w[i], w[j]>> \in R
  BY <1>2, <1>4
<1> DEFINE rest == S \ ToSet(w)
           before == {d \in rest : \A e \in ToSet(w) : <<d, e>> \in R}
           after  == {d \in rest : \A e \in ToSet(w) : <<e, d>> \in R}
           first == FirstOf(s, a)
<1>8. ASSUME NEW e \in ToSet(w)
      PROVE  \E k \in (a + 1)..b : k \in 1..n /\ s[k] = e
  <2>1. PICK i \in 1..(b - a) : w[i] = e
    BY <1>3 DEF ToSet
  <2>2. a + i \in (a + 1)..b /\ a + i \in 1..n /\ s[a + i] = e
    BY <1>2, <1>4, <2>1
  <2> QED
    BY <2>2
<1>9. ASSUME NEW k \in (a + 1)..b
      PROVE  s[k] \in ToSet(w)
  <2>1. k - a \in 1..(b - a) /\ a + (k - a) = k
    OBVIOUS
  <2>2. w[k - a] = s[k]
    BY <1>2, <2>1
  <2> QED
    BY <1>3, <2>1, <2>2 DEF ToSet
<1>10. ASSUME NEW i \in 1..a
       PROVE  s[i] \in before
  <2>1. i \in 1..n /\ s[i] \in S
    BY ListFacts
  <2>2. ASSUME NEW e \in ToSet(w) PROVE e # s[i] /\ <<s[i], e>> \in R
    <3>1. PICK k \in (a + 1)..b : k \in 1..n /\ s[k] = e
      BY <1>8
    <3>2. i < k /\ i # k
      OBVIOUS
    <3> QED
      BY <2>1, <3>1, <3>2, ListFacts
  <2> QED
    BY <2>1, <2>2
<1>11. ASSUME NEW i \in (b + 1)..n
       PROVE  s[i] \in after
  <2>1. i \in 1..n /\ s[i] \in S
    BY ListFacts
  <2>2. ASSUME NEW e \in ToSet(w) PROVE e # s[i] /\ <<e, s[i]>> \in R
    <3>1. PICK k \in (a + 1)..b : k \in 1..n /\ s[k] = e
      BY <1>8
    <3>2. k < i /\ i # k
      OBVIOUS
    <3> QED
      BY <2>1, <3>1, <3>2, ListFacts
  <2> QED
    BY <2>1, <2>2
<1>12. ASSUME NEW d \in rest
       PROVE  d \in first \/ d \in after
  <2>1. PICK i \in 1..n : s[i] = d
    BY ListFacts
  <2>2. i \in 1..a \/ i \in (a + 1)..b \/ i \in (b + 1)..n
    OBVIOUS
  <2>3. ~(i \in (a + 1)..b)
    BY <1>9, <2>1
  <2> QED
    BY <1>11, <2>1, <2>2, <2>3 DEF FirstOf
<1>13. first \subseteq before
  BY <1>10 DEF FirstOf
<1>14. rest \ after \subseteq first /\ before \cup after = rest
  BY <1>12, <1>13
<1>15. IsFiniteSet(first) /\ Cardinality(first) = a /\ IsFiniteSet(S)
  <2>1. a <= Len(s) /\ IsFiniteSet(S)
    BY DEF Lists
  <2> QED
    BY <2>1, FirstElements
<1>16. Cardinality(rest \ after) <= a
  <2> PICK out : out = rest \ after
    OBVIOUS
  <2>1. out \in SUBSET first
    BY <1>14
  <2> HIDE DEF rest, after, first
  <2> QED
    BY <1>15, <2>1, FS_Subset
<1>17. a <= Cardinality(before)
  <2>1. before \subseteq S
    OBVIOUS
  <2> HIDE DEF before, first
  <2>2. IsFiniteSet(before)
    BY <1>15, <2>1, FS_Subset
  <2> QED
    BY <1>13, <1>15, <2>2, FS_Subset
<1> QED
  BY <1>2, <1>3, <1>5, <1>6, <1>7, <1>14, <1>16, <1>17 DEF Window

----------------------------------------------------------------------------
(* The inductive invariant. *)

AllDocs == (UNION Indexes) \cup Offered

Queries ==
  [kind : Kinds, docs : Seq(AllDocs), filterType : {"none", "and", "or"},
   filters : Seq(Conditions), from : 0..MaxFrom, limit : 0..MaxLimit,
   order : Fields \cup {None}, reverse : BOOLEAN]

\* What memsearch keeps of a set of documents.
Wanted(D) == {d \in D : query.filterType = "none" \/ MemKept(d)}

Shape ==
  /\ engine \in Engines
  /\ index \subseteq AllDocs /\ IsFiniteSet(index)
  /\ \A d, e \in index : SameKey(d, e) => d = e
  /\ query # None =>
       /\ query \in Queries
       /\ IsInjective(query.docs)
       /\ \A d \in ToSet(query.docs) : d.kind = query.kind
  /\ taken \subseteq AllDocs /\ IsFiniteSet(taken)
  /\ answer.is \in {"none", "docs", "count", "error"}
  /\ calls \in 0..MaxCalls /\ ran \in BOOLEAN /\ changed \in BOOLEAN

\* Until a Run has cut a page out of them, and as long as the filter that a
\* Count applied is still that of the query, nothing that a memsearch query
\* wants of what it took is missing from its documents.
Whole ==
  engine = "memsearch" /\ query # None =>
    /\ calls = 0 => ToSet(query.docs) = taken
    /\ ~ran /\ ~changed => Wanted(ToSet(query.docs)) = Wanted(taken)

\* d may come before e in the order asked for.
Comes(d, e) ==
  query.order # None =>
    \/ query.order \notin DOMAIN e.data /\ engine = "elasticsearch"
    \/ /\ query.order \in DOMAIN d.data \cap DOMAIN e.data
       /\ ~Precedes(e, d, query.order, query.reverse)

Sorted(s) == \A i, j \in 1..Len(s) : i < j => Comes(s[i], s[j])

\* The documents that Run returned are a page of all that can be shown, sorted.
Paged ==
  answer.is = "docs" /\ ~Conjunction /\ (engine = "memsearch" => answer.first /\ answer.same)
    => /\ query \in Queries
       /\ \E s : /\ Lists(s, Shown) /\ Sorted(s)
                 /\ answer.docs = IF engine = "memsearch" THEN Page(s) ELSE ElasticPage(s)

IInv == Shape /\ Whole /\ Paged /\ CountsHits

LEMMA EngineIs == Shape => engine = "memsearch" \/ engine = "elasticsearch"
BY SearchQueryConstants DEF Shape

----------------------------------------------------------------------------
(* Filtering. *)

\* A set of numbers with an element has a smallest one.
LEMMA Smallest ==
  ASSUME NEW T \in SUBSET Nat, T # {}
  PROVE  \E x \in T : \A y \in T : x <= y
<1> DEFINE R == OpToRel(<, Nat)
<1>1. IsWellFoundedOn(R, Nat)
  BY NatLessThanWellFounded
<1> HIDE DEF R
<1>2. PICK x \in T : \A y \in T : ~ (<<y, x>> \in R)
  BY <1>1, WFMin
<1>3. \A y \in T : <<y, x>> \in R <=> y < x
  BY DEF R, OpToRel
<1>4. x \in Nat /\ \A y \in T : y \in Nat /\ ~(y < x)
  BY <1>2, <1>3
<1> QED
  BY <1>4

\* What the filter has kept of the first k documents, for k up to n.
Filters(n, f) ==
  f = [i \in 0..n |-> IF i = 0 THEN <<>> ELSE MemKeep(f[i - 1], query.docs[i])]

\* The loop of the filter is defined: there is no first document at which it
\* is not.
LEMMA FilterDefined ==
  ASSUME NEW n \in Nat
  PROVE  \E f : Filters(n, f)
<1> DEFINE Missing == {k \in 0..n : ~\E f : Filters(k, f)}
<1> SUFFICES ASSUME Missing # {} PROVE FALSE
  <2>1. n \in 0..n
    OBVIOUS
  <2> QED
    BY <2>1
<1>1. PICK k \in Missing : \A j \in Missing : k <= j
  <2>1. Missing \in SUBSET Nat
    OBVIOUS
  <2> HIDE DEF Missing
  <2> QED
    BY <2>1, Smallest
<1>2. k \in 0..n /\ ~\E f : Filters(k, f)
  BY <1>1
<1>3. CASE k = 0
  <2> DEFINE f == [i \in 0..0 |-> <<>>]
  <2>1. \A i \in 0..0 : i = 0
    OBVIOUS
  <2>2. Filters(0, f)
    BY <2>1 DEF Filters
  <2> QED
    BY <1>2, <1>3, <2>2
<1>4. CASE k # 0
  <2>1. k - 1 \in 0..n /\ ~(k <= k - 1)
    BY <1>2, <1>4
  <2>2. PICK g : Filters(k - 1, g)
    BY <1>1, <2>1
  <2> DEFINE f == [i \in 0..k |-> IF i = k THEN MemKeep(g[k - 1], query.docs[k]) ELSE g[i]]
  <2>3. \A i \in 0..(k - 1) : f[i] = g[i] /\ i \in 0..k
    BY <1>2
  <2>4. ASSUME NEW i \in 0..k
        PROVE  f[i] = IF i = 0 THEN <<>> ELSE MemKeep(f[i - 1], query.docs[i])
    <3>1. CASE i = k
      <4>1. f[i] = MemKeep(g[k - 1], query.docs[k]) /\ f[k - 1] = g[k - 1] /\ i # 0
        BY <1>2, <1>4, <2>3, <3>1
      <4> QED
        BY <3>1, <4>1
    <3>2. CASE i # k
      <4>1. i \in 0..(k - 1)
        BY <1>2, <3>2
      <4>2. f[i] = g[i]
        BY <2>3, <4>1
      <4>3. g[i] = IF i = 0 THEN <<>> ELSE MemKeep(g[i - 1], query.docs[i])
        BY <2>2, <4>1 DEF Filters
      <4>4. i # 0 => f[i - 1] = g[i - 1]
        <5>1. i # 0 => i - 1 \in 0..(k - 1)
          BY <1>2, <4>1
        <5> QED
          BY <2>3, <5>1
      <4> QED
        BY <4>2, <4>3, <4>4
    <3> QED
      BY <3>1, <3>2
  <2>5. DOMAIN f = 0..k /\ f = [i \in 0..k |-> f[i]]
    OBVIOUS
  <2> HIDE DEF f
  <2>6. Filters(k, f)
    BY <2>4, <2>5 DEF Filters
  <2> QED
    BY <1>2, <2>6
<1> QED
  BY <1>3, <1>4

\* s has those of the first k documents that match, each once.
KeptOfFirst(s, k) ==
  /\ s \in Seq(AllDocs) /\ IsInjective(s)
  /\ ToSet(s) = {d \in {query.docs[i] : i \in 1..k} : MemKept(d)}

\* The filter goes from each document to the next.
LEMMA FilterStep ==
  ASSUME query \in Queries, IsInjective(query.docs), NEW n \in Nat, n = Len(query.docs),
         NEW k \in 1..n, NEW s, KeptOfFirst(s, k - 1)
  PROVE  KeptOfFirst(MemKeep(s, query.docs[k]), k)
<1> USE DEF KeptOfFirst
<1> PICK docs, d : docs = query.docs /\ d = docs[k]
  OBVIOUS
<1>1. docs \in Seq(AllDocs) /\ DOMAIN docs = 1..n
  BY LenProperties DEF Queries
<1>2. d \in AllDocs
  BY <1>1, ElementOfSeq
<1>3. \A i \in 1..k : i \in 1..(k - 1) \/ i = k
  OBVIOUS
<1>4. k \in 1..k /\ \A i \in 1..(k - 1) : i \in 1..k
  OBVIOUS
<1>5. {docs[i] : i \in 1..k} = {docs[i] : i \in 1..(k - 1)} \cup {d}
  BY <1>3, <1>4
<1>6. CASE MemKept(d)
  <2> PICK m \in Nat : m = Len(s)
    BY LenProperties
  <2> PICK t : t = Append(s, d)
    OBVIOUS
  <2>1. /\ t \in Seq(AllDocs) /\ Len(t) = m + 1 /\ t[m + 1] = d
        /\ \A i \in 1..m : t[i] = s[i]
    BY <1>2, AppendProperties
  <2>2. DOMAIN t = 1..(m + 1) /\ DOMAIN s = 1..m
    BY <2>1, LenProperties
  <2>3. \A i \in 1..(m + 1) : i \in 1..m \/ i = m + 1
    OBVIOUS
  <2>4. m + 1 \in 1..(m + 1) /\ \A i \in 1..m : i \in 1..(m + 1)
    OBVIOUS
  <2>5. ToSet(t) = ToSet(s) \cup {d}
    BY <2>1, <2>2, <2>3, <2>4 DEF ToSet
  <2>6. d \notin ToSet(s)
    <3> SUFFICES ASSUME NEW i \in 1..(k - 1), docs[i] = d PROVE FALSE
      OBVIOUS
    <3>1. i \in 1..n /\ i # k
      OBVIOUS
    <3> QED
      BY <1>1, <3>1 DEF IsInjective
  <2>7. \A i \in 1..m : s[i] # d
    BY <2>2, <2>6 DEF ToSet
  <2>8. \A i, j \in 1..(m + 1) : t[i] = t[j] => i = j
    BY <2>1, <2>2, <2>3, <2>7 DEF IsInjective
  <2>9. IsInjective(t)
    BY <2>2, <2>8 DEF IsInjective
  <2>10. MemKeep(s, d) = t
    BY <1>6 DEF MemKeep
  <2>11. ToSet(t) = {x \in {docs[i] : i \in 1..k} : MemKept(x)}
    BY <1>5, <1>6, <2>5
  <2> QED
    BY <2>1, <2>9, <2>10, <2>11
<1>7. CASE ~MemKept(d)
  <2>1. MemKeep(s, d) = s
    BY <1>7 DEF MemKeep
  <2>2. ToSet(s) = {x \in {docs[i] : i \in 1..k} : MemKept(x)}
    BY <1>5, <1>7
  <2> QED
    BY <2>1, <2>2
<1> QED
  BY <1>6, <1>7

\* The filter keeps the documents that match, each once.
LEMMA FilterLists ==
  ASSUME query \in Queries, IsInjective(query.docs)
  PROVE  Lists(MemFiltered, Wanted(ToSet(query.docs))) /\ MemFiltered \in Seq(AllDocs)
<1> PICK docs : docs = query.docs
  OBVIOUS
<1> PICK n \in Nat : n = Len(docs)
  BY LenProperties DEF Queries
<1>1. docs \in Seq(AllDocs) /\ DOMAIN docs = 1..n
  BY LenProperties DEF Queries
<1>2. CASE query.filterType = "none"
  <2>1. MemFiltered = docs /\ Wanted(ToSet(docs)) = ToSet(docs)
    BY <1>2 DEF MemFiltered, Wanted
  <2> QED
    BY <1>1, <2>1, InjectiveLists
<1>3. CASE query.filterType # "none"
  <2>1. PICK f : f = CHOOSE g : Filters(n, g)
    OBVIOUS
  <2>2. Filters(n, f)
    BY <2>1, FilterDefined
  <2>3. MemFiltered = f[n]
    <3>1. MemFilter = (CHOOSE g : Filters(n, g))[n]
      BY DEF MemFilter, Filters
    <3> QED
      BY <1>3, <2>1, <3>1 DEF MemFiltered
  <2> DEFINE Bad == {k \in 0..n : ~KeptOfFirst(f[k], k)}
  <2>4. KeptOfFirst(f[0], 0)
    <3>1. f[0] = <<>>
      BY <2>2 DEF Filters
    <3>2. DOMAIN <<>> = {} /\ 1..0 = {} /\ <<>> \in Seq(AllDocs)
      OBVIOUS
    <3>3. ToSet(<<>>) = {} /\ IsInjective(<<>>)
      BY <3>2 DEF ToSet, IsInjective
    <3> QED
      BY <3>1, <3>2, <3>3 DEF KeptOfFirst
  <2>5. ASSUME NEW k \in 1..n, KeptOfFirst(f[k - 1], k - 1)
        PROVE  KeptOfFirst(f[k], k)
    <3>1. k \in 0..n /\ k # 0
      OBVIOUS
    <3>2. f[k] = IF k = 0 THEN <<>> ELSE MemKeep(f[k - 1], query.docs[k])
      BY <2>2, <3>1 DEF Filters
    <3>3. f[k] = MemKeep(f[k - 1], query.docs[k])
      BY <3>1, <3>2
    <3> QED
      BY <2>5, <3>3, FilterStep
  <2>6. Bad = {}
    <3> SUFFICES ASSUME Bad # {} PROVE FALSE
      OBVIOUS
    <3>1. PICK k \in Bad : \A j \in Bad : k <= j
      <4>1. Bad \in SUBSET Nat
        OBVIOUS
      <4> HIDE DEF Bad
      <4> QED
        BY <4>1, Smallest
    <3>2. k \in 0..n /\ ~KeptOfFirst(f[k], k) /\ k # 0
      BY <2>4, <3>1
    <3>3. k \in 1..n /\ k - 1 \in 0..n /\ ~(k <= k - 1)
      BY <3>2
    <3>4. KeptOfFirst(f[k - 1], k - 1)
      BY <3>1, <3>3
    <3> QED
      BY <2>5, <3>2, <3>3, <3>4
  <2>7. KeptOfFirst(f[n], n)
    <3>1. n \in 0..n
      OBVIOUS
    <3> QED
      BY <2>6, <3>1
  <2>8. {docs[i] : i \in 1..n} = ToSet(docs)
    BY <1>1 DEF ToSet
  <2>9. /\ MemFiltered \in Seq(AllDocs) /\ IsInjective(MemFiltered)
        /\ ToSet(MemFiltered) = Wanted(ToSet(docs))
    BY <1>3, <2>3, <2>7, <2>8 DEF KeptOfFirst, Wanted
  <2> QED
    BY <2>9, InjectiveLists
<1> QED
  BY <1>2, <1>3

----------------------------------------------------------------------------
(* The page of a sorted list is what Run should return. *)

LEMMA MinMaxOfTwo ==
  ASSUME NEW m \in Int, NEW n \in Int
  PROVE  /\ Min({m, n}) = IF m <= n THEN m ELSE n
         /\ Max({m, n}) = IF m >= n THEN m ELSE n
<1>1. PICK lo : lo = IF m <= n THEN m ELSE n
  OBVIOUS
<1>2. PICK hi : hi = IF m >= n THEN m ELSE n
  OBVIOUS
<1>3. lo \in {m, n} /\ \A y \in {m, n} : lo <= y
  BY <1>1
<1>4. \A x \in {m, n} : (\A y \in {m, n} : x <= y) => x = lo
  BY <1>1
<1>5. hi \in {m, n} /\ \A y \in {m, n} : hi >= y
  BY <1>2
<1>6. \A x \in {m, n} : (\A y \in {m, n} : x >= y) => x = hi
  BY <1>2
<1>7. Min({m, n}) = lo
  BY <1>3, <1>4 DEF Min
<1>8. Max({m, n}) = hi
  BY <1>5, <1>6 DEF Max
<1> QED
  BY <1>1, <1>2, <1>7, <1>8

\* l documents after the first a of n are not all.
LEMMA CutNumbers ==
  ASSUME NEW a \in Nat, NEW l \in Nat, NEW n \in Nat, l > 0, n - a > l
  PROVE  /\ a + 1 \in 1..n /\ n \in 1..n
         /\ 1 \in 1..(n - (a + 1) + 1) /\ l \in 1..(n - (a + 1) + 1)
         /\ a + 1 + 1 - 1 = a + 1 /\ a + 1 + l - 1 = a + l
         /\ a + l \in Nat /\ a <= a + l /\ a + l <= n
<1>1. a + l <= n /\ a < n
  OBVIOUS
<1> QED
  BY <1>1

LEMMA CutOfSkip ==
  ASSUME NEW S, NEW s \in Seq(S), NEW n, n = Len(s), n \in Nat,
         NEW a, a \in Nat, NEW l, l \in Nat, l > 0, n - a > l
  PROVE  SubSeq(SubSeq(s, a + 1, n), 1, l) = SubSeq(s, a + 1, a + l)
<1>1. /\ a + 1 \in 1..Len(s) /\ n \in 1..Len(s)
      /\ 1 \in 1..(n - (a + 1) + 1) /\ l \in 1..(n - (a + 1) + 1)
      /\ a + 1 + 1 - 1 = a + 1 /\ a + 1 + l - 1 = a + l
  BY CutNumbers
<1>2. SubSeq(SubSeq(s, a + 1, n), 1, l) = SubSeq(s, a + 1 + 1 - 1, a + 1 + l - 1)
  <2>1. \A i, j \in 1..Len(s) : \A m, k \in 1..(j - i + 1) :
           SubSeq(SubSeq(s, i, j), m, k) = SubSeq(s, i + m - 1, i + k - 1)
    BY SubSeqOfSubSeq
  <2> QED
    BY <1>1, <2>1, Zenon
<1> QED
  BY <1>1, <1>2

\* Where the page of a list of n documents ends.
PageEnd(n) ==
  IF query.limit > 0 /\ n - query.from > query.limit THEN query.from + query.limit ELSE n

\* memsearch cuts off what comes before the offset, then what is too much.
LEMMA PageIsWindow ==
  ASSUME NEW S, NEW s \in Seq(S), NEW n \in Nat, n = Len(s), query.from \in Nat,
         query.limit \in Nat, query.from < n \/ query.from = 0
  PROVE  /\ PageEnd(n) \in Nat /\ query.from <= PageEnd(n) /\ PageEnd(n) <= n
         /\ Page(s) = SubSeq(s, query.from + 1, PageEnd(n))
<1>1. PICK a \in Nat : a = query.from
  OBVIOUS
<1>2. PICK l \in Nat : l = query.limit
  OBVIOUS
<1>3. PICK u : u = SubSeq(s, a + 1, n)
  OBVIOUS
<1>4. SubSeq(s, 1, n) = s
  BY SubSeqFull
<1>5. a <= n
  BY <1>1
<1>6. Skip(s) = u
  <2>1. CASE a = 0
    <3>1. a + 1 = 1 /\ ~(a > 0)
      BY <2>1
    <3> QED
      BY <1>1, <1>3, <1>4, <3>1 DEF Skip
  <2>2. CASE a > 0 /\ a < n
    BY <1>1, <1>3, <2>2 DEF Skip
  <2> QED
    BY <1>1, <2>1, <2>2
<1>7. \A i \in (a + 1)..n : i \in 1..n /\ s[i] \in S
  BY ElementOfSeq
<1>8. u \in Seq(S) /\ Len(u) = n - a
  <2>1. a + 1 \in Int /\ n \in Int
    OBVIOUS
  <2>2. u \in Seq(S) /\ Len(u) = IF a + 1 <= n THEN n - (a + 1) + 1 ELSE 0
    BY <1>3, <1>7, <2>1, SubSeqProperties
  <2> QED
    BY <1>5, <2>2
<1>9. CASE l > 0 /\ n - a > l
  <2>1. Page(s) = SubSeq(u, 1, l)
    BY <1>2, <1>6, <1>8, <1>9 DEF Page, Cut
  <2>2. SubSeq(SubSeq(s, a + 1, n), 1, l) = SubSeq(s, a + 1, a + l)
    BY <1>9, CutOfSkip
  <2>3. PageEnd(n) = a + l
    BY <1>1, <1>2, <1>9 DEF PageEnd
  <2>4. a + l \in Nat /\ a <= a + l /\ a + l <= n
    BY <1>9, CutNumbers
  <2> QED
    BY <1>1, <1>3, <2>1, <2>2, <2>3, <2>4
<1>10. CASE ~(l > 0 /\ n - a > l)
  <2>1. Page(s) = u
    BY <1>2, <1>6, <1>8, <1>10 DEF Page, Cut
  <2>2. PageEnd(n) = n
    BY <1>1, <1>2, <1>10 DEF PageEnd
  <2> QED
    BY <1>1, <1>3, <1>5, <2>1, <2>2
<1> QED
  BY <1>9, <1>10

PairsInOrder(S) == {p \in S \X S : Comes(p[1], p[2])}

\* The order of a sequence, and of two documents.
LEMMA OrderedPairs ==
  /\ \A d, e : Ordered(<<d, e>>) <=> Comes(d, e)
  /\ \A w, k : DOMAIN w = 1..k /\ (\A i, j \in 1..k : i < j => Comes(w[i], w[j]))
                 => Ordered(w)
<1>1. ASSUME NEW d, NEW e
      PROVE  Ordered(<<d, e>>) <=> Comes(d, e)
  <2> PICK p : p = <<d, e>>
    OBVIOUS
  <2>1. DOMAIN p = 1..2 /\ p[1] = d /\ p[2] = e
    OBVIOUS
  <2>2. \A i, j \in 1..2 : i < j <=> i = 1 /\ j = 2
    OBVIOUS
  <2>3. 1 \in 1..2 /\ 2 \in 1..2
    OBVIOUS
  <2> QED
    BY <2>1, <2>2, <2>3 DEF Ordered, Comes
<1>2. ASSUME NEW w, NEW k, DOMAIN w = 1..k, \A i, j \in 1..k : i < j => Comes(w[i], w[j])
      PROVE  Ordered(w)
  BY <1>2 DEF Ordered, Comes
<1> QED
  BY <1>1, <1>2

\* What the property says of the documents of an answer.
PageOf(docs) ==
  LET rest == Shown \ ToSet(docs)
      before == {d \in rest : \A e \in ToSet(docs) : Ordered(<<d, e>>)}
      after  == {d \in rest : \A e \in ToSet(docs) : Ordered(<<e, d>>)}
  IN /\ ToSet(docs) \subseteq Shown /\ IsInjective(docs)
     /\ Ordered(docs)
     /\ Len(docs) = Min({PageSize, Max({0, Cardinality(Shown) - query.from})})
     /\ docs # <<>> =>
          /\ before \cup after = rest
          /\ Cardinality(rest \ after) <= query.from
          /\ query.from <= Cardinality(before)

LEMMA WindowIsPage ==
  ASSUME NEW s, Lists(s, Shown), Sorted(s), NEW w, NEW b \in Nat, query.from \in Nat,
         query.from <= b, b <= Len(s), w = SubSeq(s, query.from + 1, b),
         b - query.from = Min({PageSize, Max({0, Cardinality(Shown) - query.from})})
  PROVE  PageOf(w)
<1> PICK a \in Nat : a = query.from
  OBVIOUS
<1> PICK S, R : S = Shown /\ R = PairsInOrder(S)
  OBVIOUS
<1>1. \A d, e \in S : <<d, e>> \in R <=> Ordered(<<d, e>>)
  BY OrderedPairs DEF PairsInOrder
<1>2. \A i, j \in 1..Len(s) : i < j => <<s[i], s[j]>> \in R
  <2>1. ASSUME NEW i \in 1..Len(s), NEW j \in 1..Len(s), i < j
        PROVE  <<s[i], s[j]>> \in R
    <3>1. s[i] \in S /\ s[j] \in S /\ Comes(s[i], s[j])
      BY <2>1, ListFacts DEF Sorted
    <3> QED
      BY <3>1 DEF PairsInOrder
  <2> QED
    BY <2>1
<1>3. Window(w, S, R, a, b)
  BY <1>2, WindowOfList
<1>4. ToSet(w) \subseteq S /\ IsInjective(w) /\ Len(w) = b - a /\ DOMAIN w = 1..(b - a)
  BY <1>3 DEF Window
<1>5. Ordered(w)
  <2>1. ASSUME NEW i \in 1..(b - a), NEW j \in 1..(b - a), i < j
        PROVE  Comes(w[i], w[j])
    <3>1. <<w[i], w[j]>> \in R
      BY <1>3, <1>4, <2>1 DEF Window
    <3> QED
      BY <3>1 DEF PairsInOrder
  <2> QED
    BY <1>4, <2>1, OrderedPairs
<1> DEFINE rest == S \ ToSet(w)
<1>6. /\ {d \in rest : \A e \in ToSet(w) : Ordered(<<d, e>>)}
           = {d \in rest : \A e \in ToSet(w) : <<d, e>> \in R}
      /\ {d \in rest : \A e \in ToSet(w) : Ordered(<<e, d>>)}
           = {d \in rest : \A e \in ToSet(w) : <<e, d>> \in R}
  <2>1. \A d \in rest, e \in ToSet(w) : d \in S /\ e \in S
    BY <1>4
  <2> QED
    BY <1>1, <2>1
<1> QED
  BY <1>3, <1>4, <1>5, <1>6 DEF PageOf, Window

\* After the last document there is nothing.
LEMMA NothingIsPage ==
  ASSUME Min({PageSize, Max({0, Cardinality(Shown) - query.from})}) = 0
  PROVE  PageOf(<<>>)
<1>1. DOMAIN <<>> = {} /\ Len(<<>>) = 0
  OBVIOUS
<1>2. ToSet(<<>>) = {} /\ IsInjective(<<>>) /\ Ordered(<<>>)
  BY <1>1 DEF ToSet, IsInjective, Ordered
<1> QED
  BY <1>1, <1>2 DEF PageOf

\* How many documents a page has: of n, at most l from the offset a.
LEMMA PageNumbers ==
  ASSUME NEW a \in Nat, NEW l \in Nat, NEW n \in Nat
  PROVE  Min({l, Max({0, n - a})}) = IF a >= n THEN 0 ELSE IF l <= n - a THEN l ELSE n - a
<1>1. n - a \in Int /\ 0 \in Int /\ l \in Int
  OBVIOUS
<1>2. Max({0, n - a}) = IF 0 >= n - a THEN 0 ELSE n - a
  BY <1>1, MinMaxOfTwo
<1>3. PICK m \in Int : m = Max({0, n - a})
  BY <1>1, <1>2
<1>4. Min({l, m}) = IF l <= m THEN l ELSE m
  BY <1>1, MinMaxOfTwo
<1>5. (IF l <= m THEN l ELSE m) = IF a >= n THEN 0 ELSE IF l <= n - a THEN l ELSE n - a
  BY <1>2, <1>3
<1> QED
  BY <1>3, <1>4, <1>5

LEMMA QueryNumbers ==
  ASSUME query \in Queries
  PROVE  query.from \in Nat /\ query.limit \in Nat
BY SearchQueryConstants DEF Queries

LEMMA PagedIsRight ==
  ASSUME Shape, Paged
  PROVE  RunReturnsPage
<1> SUFFICES ASSUME answer.is = "docs", ~Conjunction,
                    engine = "memsearch" =>
                      answer.first /\ answer.same /\ query.from < Cardinality(Shown)
             PROVE  PageOf(answer.docs)
  BY DEF RunReturnsPage, PageOf
<1>1. query \in Queries
  BY DEF Paged
<1>2. PICK s : /\ Lists(s, Shown) /\ Sorted(s)
               /\ answer.docs = IF engine = "memsearch" THEN Page(s) ELSE ElasticPage(s)
  BY DEF Paged
<1>3. PICK a \in Nat : a = query.from
  BY <1>1, QueryNumbers
<1>4. PICK l \in Nat : l = query.limit
  BY <1>1, QueryNumbers
<1>5. PICK n \in Nat : n = Len(s)
  BY <1>2 DEF Lists
<1>6. n = Cardinality(Shown) /\ s \in Seq(Shown)
  BY <1>2, <1>5 DEF Lists
<1>7. DefaultSize \in Nat /\ DefaultSize > 0
  BY SearchQueryConstants
<1>8. CASE engine = "memsearch"
  <2>1. a < n
    BY <1>3, <1>6, <1>8
  <2>2. PICK b : b = PageEnd(n)
    OBVIOUS
  <2>3. /\ b \in Nat /\ a <= b /\ b <= n
        /\ Page(s) = SubSeq(s, a + 1, b)
    BY <1>3, <1>4, <1>5, <1>6, <2>1, <2>2, PageIsWindow
  <2>4. PICK z \in Nat : z = PageSize
    <3>1. PageSize = IF l > 0 THEN l ELSE n
      BY <1>4, <1>6, <1>8 DEF PageSize
    <3> QED
      BY <3>1
  <2>5. z = IF l > 0 THEN l ELSE n
    BY <1>4, <1>6, <1>8, <2>4 DEF PageSize
  <2>6. b = IF l > 0 /\ n - a > l THEN a + l ELSE n
    BY <1>3, <1>4, <2>2 DEF PageEnd
  <2>7. Min({z, Max({0, n - a})}) = IF a >= n THEN 0 ELSE IF z <= n - a THEN z ELSE n - a
    BY PageNumbers
  <2>8. b - a = Min({z, Max({0, n - a})})
    BY <2>1, <2>5, <2>6, <2>7
  <2>9. b - query.from = Min({PageSize, Max({0, Cardinality(Shown) - query.from})})
    BY <1>3, <1>6, <2>4, <2>8
  <2> QED
    BY <1>2, <1>3, <1>5, <1>8, <2>3, <2>9, WindowIsPage
<1>9. CASE engine = "elasticsearch"
  <2>1. PICK z \in Nat : z = IF l > 0 THEN l ELSE DefaultSize
    BY <1>7
  <2>2. z = PageSize /\ z > 0
    BY <1>4, <1>7, <1>9, <2>1 DEF PageSize
  <2>3. PICK b \in Nat : b = IF a + z <= n THEN a + z ELSE n
    OBVIOUS
  <2>4. /\ Min({z, Max({0, n - a})}) = IF a >= n THEN 0 ELSE IF z <= n - a THEN z ELSE n - a
        /\ Min({a + z, n}) = b
    <3>1. Min({a + z, n}) = IF a + z <= n THEN a + z ELSE n
      <4>1. a + z \in Int /\ n \in Int
        OBVIOUS
      <4> QED
        BY <4>1, MinMaxOfTwo
    <3>2. Min({z, Max({0, n - a})}) = IF a >= n THEN 0 ELSE IF z <= n - a THEN z ELSE n - a
      BY PageNumbers
    <3> QED
      BY <2>3, <3>1, <3>2
  <2>5. answer.docs = SubSeq(s, a + 1, b)
    <3>1. query.limit > 0 <=> l > 0
      BY <1>4
    <3>2. (IF query.limit > 0 THEN query.limit ELSE DefaultSize) = z
      BY <1>4, <2>1
    <3>3. ElasticPage(s) = SubSeq(s, a + 1, Min({a + z, n}))
      BY <1>3, <1>5, <3>2 DEF ElasticPage
    <3> QED
      BY <1>2, <1>9, <2>4, <3>3
  <2>6. CASE a <= n
    <3>1. a <= b /\ b <= n /\ b - a = Min({z, Max({0, n - a})})
      BY <2>2, <2>3, <2>4, <2>6
    <3>2. b - query.from = Min({PageSize, Max({0, Cardinality(Shown) - query.from})})
      BY <1>3, <1>6, <2>2, <3>1
    <3> QED
      BY <1>2, <1>3, <1>5, <2>5, <3>1, <3>2, WindowIsPage
  <2>7. CASE a > n
    <3>1. b < a + 1 /\ Min({z, Max({0, n - a})}) = 0
      BY <2>3, <2>4, <2>7
    <3>2. a + 1 \in Int /\ b \in Int
      OBVIOUS
    <3>3. answer.docs = <<>>
      BY <2>5, <3>1, <3>2, SubSeqEmpty
    <3>4. Min({PageSize, Max({0, Cardinality(Shown) - query.from})}) = 0
      BY <1>3, <1>6, <2>2, <3>1
    <3> QED
      BY <3>3, <3>4, NothingIsPage
  <2> QED
    BY <2>6, <2>7
<1> QED
  BY <1>8, <1>9, EngineIs

----------------------------------------------------------------------------
(* The steps.  First what a query's fields become, and what follows for the *)
(* operators that read them.                                                *)

QueryFields ==
  {"kind", "docs", "filterType", "filters", "from", "limit", "order", "reverse"}

LEMMA FieldsOf ==
  ASSUME query \in Queries
  PROVE  /\ query.kind \in Kinds /\ query.docs \in Seq(AllDocs)
         /\ query.filterType \in {"none", "and", "or"} /\ query.filters \in Seq(Conditions)
         /\ query.from \in 0..MaxFrom /\ query.limit \in 0..MaxLimit
         /\ query.order \in Fields \cup {None} /\ query.reverse \in BOOLEAN
         /\ DOMAIN query = QueryFields
BY DEF Queries, QueryFields

\* A call that leaves the query with other documents leaves its question.
SameQuestion ==
  /\ query'.kind = query.kind /\ query'.filterType = query.filterType
  /\ query'.filters = query.filters /\ query'.from = query.from
  /\ query'.limit = query.limit /\ query'.order = query.order
  /\ query'.reverse = query.reverse /\ engine' = engine

LEMMA NewDocs ==
  ASSUME query \in Queries, NEW docs \in Seq(AllDocs), engine' = engine,
         query' = [query EXCEPT !.docs = docs]
  PROVE  SameQuestion /\ query' \in Queries /\ query'.docs = docs /\ query' # None => query' # None
BY DEF Queries, SameQuestion

LEMMA SameDocs ==
  ASSUME query' = query, engine' = engine
  PROVE  SameQuestion
BY DEF SameQuestion

LEMMA SameMatches ==
  ASSUME query'.filters = query.filters, query'.filterType = query.filterType
  PROVE  /\ \A d : MatchesOne(d)' <=> MatchesOne(d)
         /\ \A d : MatchesAll(d)' <=> MatchesAll(d)
         /\ \A d : MemKept(d)' <=> MemKept(d)
         /\ \A D : Wanted(D)' = Wanted(D)
<1>1. \A d : MatchesOne(d)' <=> MatchesOne(d)
  BY DEF MatchesOne
<1>2. \A d : MatchesAll(d)' <=> MatchesAll(d)
  BY DEF MatchesAll
<1>3. \A d : MemKept(d)' <=> MemKept(d)
  BY <1>1 DEF MemKept
<1>4. \A D : Wanted(D)' = Wanted(D)
  BY <1>3 DEF Wanted
<1> QED
  BY <1>1, <1>2, <1>3, <1>4

\* What is asked of a set of documents.
Answers(D) == {d \in D : Satisfies(d)}
Showing(D) == IF query.order # None /\ engine = "memsearch"
              THEN Having(Answers(D), query.order) ELSE Answers(D)

LEMMA ShownIs == Hits = Answers(taken) /\ Shown = Showing(taken)
BY DEF Hits, Answers, Shown, Showing

LEMMA SameAnswers ==
  ASSUME SameQuestion
  PROVE  /\ \A D : Answers(D)' = Answers(D) /\ Showing(D)' = Showing(D)
         /\ Hits' = Answers(taken') /\ Shown' = Showing(taken')
         /\ Conjunction' <=> Conjunction
         /\ \A s : Sorted(s)' <=> Sorted(s)
         /\ \A s : Page(s)' = Page(s) /\ ElasticPage(s)' = ElasticPage(s)
<1>1. /\ \A d : MatchesOne(d)' <=> MatchesOne(d)
      /\ \A d : MatchesAll(d)' <=> MatchesAll(d)
  BY SameMatches DEF SameQuestion
<1>2. \A d : Satisfies(d)' = Satisfies(d)
  BY <1>1 DEF Satisfies, SameQuestion
<1>3. \A D : Answers(D)' = Answers(D)
  BY <1>2 DEF Answers
<1>4. \A D : Showing(D)' = Showing(D)
  BY <1>3 DEF Showing, SameQuestion, Having
<1>5. Conjunction' <=> Conjunction
  BY DEF Conjunction, SameQuestion
<1>6. \A d, e : Comes(d, e)' <=> Comes(d, e)
  BY DEF Comes, SameQuestion, Precedes
<1>7. \A s : Sorted(s)' <=> Sorted(s)
  BY <1>6 DEF Sorted
<1>8. \A s : Skip(s)' = Skip(s) /\ Cut(s)' = Cut(s)
  BY DEF Skip, Cut, SameQuestion
<1>9. \A s : Page(s)' = Page(s)
  BY <1>8 DEF Page, Skip, Cut, SameQuestion
<1>10. \A s : ElasticPage(s)' = ElasticPage(s)
  BY DEF ElasticPage, SameQuestion
<1>11. Hits' = Answers(taken')
  BY <1>2 DEF Hits, Answers
<1>12. Shown' = Showing(taken')
  BY <1>11 DEF Shown, Showing, SameQuestion, Having
<1> QED
  BY <1>3, <1>4, <1>5, <1>7, <1>9, <1>10, <1>11, <1>12

\* The page of a list has only what the list has, nothing twice.
LEMMA PageOfList ==
  ASSUME query \in Queries, NEW S, NEW s, Lists(s, S)
  PROVE  Page(s) \in Seq(S) /\ IsInjective(Page(s)) /\ ToSet(Page(s)) \subseteq S
<1>1. PICK n \in Nat : n = Len(s)
  BY DEF Lists
<1>2. query.from \in Nat /\ query.limit \in Nat
  BY QueryNumbers
<1>3. s \in Seq(S)
  BY DEF Lists
<1>4. \E a, b \in Nat : a <= b /\ b <= n /\ Page(s) = SubSeq(s, a + 1, b)
  <2>1. CASE query.from < n \/ query.from = 0
    BY <1>1, <1>2, <1>3, <2>1, PageIsWindow
  <2>2. CASE ~(query.from < n \/ query.from = 0)
    <3>1. Page(s) = Cut(s)
      BY <1>1, <2>2 DEF Page, Skip
    <3>2. CASE query.limit > 0 /\ n > query.limit
      <4>1. Page(s) = SubSeq(s, 0 + 1, query.limit) /\ 0 <= query.limit /\ query.limit <= n
        BY <1>1, <1>2, <3>1, <3>2 DEF Cut
      <4> QED
        BY <1>2, <4>1
    <3>3. CASE ~(query.limit > 0 /\ n > query.limit)
      <4>1. Page(s) = s
        BY <1>1, <3>1, <3>3 DEF Cut
      <4>2. SubSeq(s, 1, n) = s
        BY <1>1, <1>3, SubSeqFull
      <4>3. 0 + 1 = 1 /\ 0 <= n /\ n <= n /\ 0 \in Nat
        OBVIOUS
      <4>4. Page(s) = SubSeq(s, 0 + 1, n)
        BY <4>1, <4>2, <4>3
      <4> QED
        BY <4>3, <4>4
    <3> QED
      BY <3>2, <3>3
  <2> QED
    BY <2>1, <2>2
<1>5. PICK a \in Nat, b \in Nat : a <= b /\ b <= n /\ Page(s) = SubSeq(s, a + 1, b)
  BY <1>4
<1>6. PICK w : w = SubSeq(s, a + 1, b)
  OBVIOUS
<1>7. w \in Seq(S)
  <2>1. a + 1 \in Int /\ b \in Int
    OBVIOUS
  <2>2. \A i \in (a + 1)..b : i \in 1..n
    BY <1>5
  <2>3. \A i \in (a + 1)..b : s[i] \in S
    BY <1>1, <1>3, <2>2, ElementOfSeq
  <2> QED
    BY <1>6, <2>1, <2>3, SubSeqProperties
<1>8. IsInjective(w) /\ ToSet(w) \subseteq S
  <2>1. PICK R : R = S \X S
    OBVIOUS
  <2>2. \A i \in 1..n : s[i] \in S
    BY <1>1, ListFacts
  <2>3. \A i, j \in 1..Len(s) : i < j => <<s[i], s[j]>> \in R
    BY <1>1, <2>1, <2>2
  <2>4. Window(w, S, R, a, b)
    BY <1>1, <1>5, <1>6, <2>3, WindowOfList
  <2> QED
    BY <2>4 DEF Window
<1> QED
  BY <1>5, <1>6, <1>7, <1>8

\* What comes out of a memsearch query's documents, in the order asked for.
LEMMA MemOrdersList ==
  ASSUME query \in Queries, IsInjective(query.docs), engine = "memsearch",
         NEW s \in MemOrders(MemFiltered)
  PROVE  \E D : /\ D \subseteq ToSet(query.docs) /\ Lists(s, D) /\ Sorted(s)
                /\ D = IF query.order # None
                       THEN Having(Wanted(ToSet(query.docs)), query.order)
                       ELSE Wanted(ToSet(query.docs))
<1>1. PICK W : W = Wanted(ToSet(query.docs))
  OBVIOUS
<1>2. Lists(MemFiltered, W) /\ W \subseteq ToSet(query.docs)
  BY <1>1, FilterLists DEF Wanted
<1>3. CASE query.order = None
  <2>1. s = MemFiltered
    BY <1>3 DEF MemOrders
  <2>2. Sorted(s)
    BY <1>3 DEF Sorted, Comes
  <2> QED
    BY <1>1, <1>2, <1>3, <2>1, <2>2
<1>4. CASE query.order # None
  <2>1. ToSet(MemFiltered) = W /\ IsFiniteSet(W)
    BY <1>2 DEF Lists
  <2>2. PICK H : H = Having(W, query.order)
    OBVIOUS
  <2>3. s \in SetToSeqs(H) /\ InOrder(s, query.order, query.reverse)
    BY <1>4, <2>1, <2>2 DEF MemOrders, Sortings
  <2>4. H \subseteq W /\ \A d \in H : query.order \in DOMAIN d.data
    BY <2>2 DEF Having
  <2>5. IsFiniteSet(H)
    BY <2>1, <2>4, FS_Subset
  <2>6. Lists(s, H)
    BY <2>3, <2>5, SetToSeqsLists
  <2>7. Sorted(s)
    <3>1. DOMAIN s = 1..Len(s) /\ \A i \in 1..Len(s) : s[i] \in H
      BY <2>6, ListFacts
    <3>2. \A i, j \in 1..Len(s) : i < j => ~Precedes(s[j], s[i], query.order, query.reverse)
      BY <2>3, <3>1 DEF InOrder
    <3> QED
      BY <2>4, <3>1, <3>2 DEF Sorted, Comes
  <2> QED
    BY <1>1, <1>2, <1>4, <2>2, <2>4, <2>6, <2>7
<1> QED
  BY <1>3, <1>4

\* What memsearch keeps is what satisfies the query, but for a conjunction.
LEMMA WantedSatisfies ==
  ASSUME query \in Queries, engine = "memsearch", ~Conjunction
  PROVE  \A D : Wanted(D) = Answers(D)
<1> SUFFICES ASSUME NEW d
             PROVE  (query.filterType = "none" \/ MemKept(d)) <=> Satisfies(d)
  BY DEF Wanted, Answers
<1>1. CASE query.filterType = "none"
  BY <1>1 DEF Satisfies
<1>2. CASE query.filterType = "or"
  BY <1>2 DEF Satisfies, MemKept
<1>3. CASE query.filterType = "and"
  <2>1. Len(query.filters) = 1 /\ query.filters \in Seq(Conditions)
    BY <1>3, FieldsOf DEF Conjunction
  <2>2. DOMAIN query.filters = 1..1
    BY <2>1, LenProperties
  <2>3. \A i : i \in 1..1 <=> i = 1
    OBVIOUS
  <2>4. MatchesOne(d) <=> MatchesAll(d)
    BY <2>2, <2>3 DEF MatchesOne, MatchesAll
  <2>5. Satisfies(d) <=> MatchesAll(d)
    BY <1>3 DEF Satisfies
  <2> QED
    BY <1>3, <2>4, <2>5 DEF MemKept
<1> QED
  BY <1>1, <1>2, <1>3, FieldsOf

\* The answers of the service: with the field in order, then those without.
LEMMA ElasticOrdersList ==
  ASSUME engine = "elasticsearch", NEW D, IsFiniteSet(D), NEW s \in ElasticOrders(D)
  PROVE  Lists(s, D) /\ Sorted(s)
<1>1. CASE query.order = None
  <2>1. s \in SetToSeqs(D)
    BY <1>1 DEF ElasticOrders
  <2> QED
    BY <1>1, <2>1, SetToSeqsLists DEF Sorted, Comes
<1>2. CASE query.order # None
  <2>1. PICK H : H = Having(D, query.order)
    OBVIOUS
  <2>2. PICK u, t : /\ s = u \o t /\ u \in SetToSeqs(H) /\ t \in SetToSeqs(D \ H)
                    /\ InOrder(u, query.order, query.reverse)
    <3> PICK X, Y : X = Sortings(D, query.order, query.reverse)
                    /\ Y = SetToSeqs(D \ Having(D, query.order))
      OBVIOUS
    <3>0. PICK p \in X \X Y : s = p[1] \o p[2]
      BY <1>2 DEF ElasticOrders
    <3>1. PICK v, r : v = p[1] /\ r = p[2] /\ v \in X /\ r \in Y
      OBVIOUS
    <3>2. v \in SetToSeqs(H) /\ InOrder(v, query.order, query.reverse)
      BY <2>1, <3>1, Zenon DEF Sortings
    <3> QED
      BY <2>1, <3>0, <3>1, <3>2
  <2>3. /\ H \subseteq D /\ \A d \in H : query.order \in DOMAIN d.data
        /\ \A d \in D \ H : query.order \notin DOMAIN d.data
    BY <2>1 DEF Having
  <2>4. IsFiniteSet(H) /\ IsFiniteSet(D \ H)
    <3>1. H \subseteq D /\ D \ H \subseteq D
      BY <2>3
    <3> QED
      BY <3>1, FS_Subset
  <2>5. Lists(u, H) /\ Lists(t, D \ H)
    BY <2>2, <2>4, SetToSeqsLists
  <2>6. Lists(s, D)
    <3>1. H \cap (D \ H) = {} /\ H \cup (D \ H) = D
      BY <2>3
    <3>2. PICK E : E = D \ H
      OBVIOUS
    <3>3. Lists(u \o t, H \cup E)
      BY <2>5, <3>1, <3>2, ConcatLists
    <3> QED
      BY <2>2, <3>1, <3>2, <3>3
  <2>7. PICK m \in Nat, n \in Nat : m = Len(u) /\ n = Len(t)
    BY <2>5 DEF Lists
  <2>8. /\ Len(s) = m + n
        /\ \A i \in 1..(m + n) : s[i] = IF i <= m THEN u[i] ELSE t[i - m]
    <3>1. u \in Seq(H) /\ t \in Seq(D \ H)
      BY <2>5 DEF Lists
    <3>2. u \in Seq(D) /\ t \in Seq(D)
      BY <2>3, <3>1, SeqMonotonic
    <3> QED
      BY <2>2, <2>7, <3>2, ConcatProperties
  <2>9. /\ \A i \in 1..m : u[i] \in H
        /\ \A i \in 1..n : t[i] \in D \ H
        /\ \A i, j \in 1..m : i < j => ~Precedes(u[j], u[i], query.order, query.reverse)
    <3>1. DOMAIN u = 1..m
      BY <2>5, <2>7, ListFacts
    <3> QED
      BY <2>2, <2>5, <2>7, <3>1, ListFacts DEF InOrder
  <2>10. ASSUME NEW i \in 1..(m + n), NEW j \in 1..(m + n), i < j
         PROVE  Comes(s[i], s[j])
    <3>1. CASE j <= m
      <4>1. i \in 1..m /\ j \in 1..m /\ s[i] = u[i] /\ s[j] = u[j]
        BY <2>8, <2>10, <3>1
      <4>2. u[i] \in H /\ u[j] \in H /\ ~Precedes(u[j], u[i], query.order, query.reverse)
        BY <2>9, <2>10, <4>1
      <4> QED
        BY <2>3, <4>1, <4>2 DEF Comes
    <3>2. CASE ~(j <= m)
      <4>1. j - m \in 1..n /\ s[j] = t[j - m]
        BY <2>8, <3>2
      <4>2. s[j] \in D \ H
        BY <2>9, <4>1
      <4> QED
        BY <2>3, <4>2 DEF Comes
    <3> QED
      BY <3>1, <3>2
  <2>11. Sorted(s)
    BY <2>8, <2>10 DEF Sorted
  <2> QED
    BY <2>6, <2>11
<1> QED
  BY <1>1, <1>2

LEMMA ElasticHitsAre == query \in Queries => ElasticHits = Answers(DocsOf(query.kind))
BY DEF ElasticHits, ElasticMatches, Answers, Satisfies

\* An update leaves what is known of the query and its answers.
LEMMA SameButIndex ==
  ASSUME UNCHANGED <<engine, query, answer, taken, calls, ran, changed>>,
         Whole /\ Paged /\ CountsHits
  PROVE  Whole' /\ Paged' /\ CountsHits'
<1>1. SameQuestion
  BY SameDocs
<1>2. /\ \A D : Answers(D)' = Answers(D) /\ Showing(D)' = Showing(D)
      /\ Hits' = Hits /\ Shown' = Shown
      /\ Conjunction' <=> Conjunction
      /\ \A s : Sorted(s)' <=> Sorted(s)
      /\ \A s : Page(s)' = Page(s) /\ ElasticPage(s)' = ElasticPage(s)
  BY <1>1, SameAnswers, ShownIs
<1>3. \A D : Wanted(D)' = Wanted(D)
  BY SameMatches
<1>4. Whole'
  BY <1>3 DEF Whole
<1>5. Paged'
  BY <1>2 DEF Paged
<1>6. CountsHits'
  BY <1>2 DEF CountsHits
<1> QED
  BY <1>4, <1>5, <1>6

\* After a call that does not answer, there is nothing to say of the answer.
LEMMA NoAnswer ==
  ASSUME answer'.is # "docs", answer'.is # "count"
  PROVE  Paged' /\ CountsHits'
BY DEF Paged, CountsHits

LEMMA UpdateStep ==
  ASSUME IInv, NEW d \in Offered, Update(d)
  PROVE  IInv'
<1>1. Whole' /\ Paged' /\ CountsHits'
  BY SameButIndex DEF IInv, Update
<1>2. PICK kept : kept = {e \in index : ~SameKey(d, e)}
  OBVIOUS
<1>3. /\ kept \subseteq index /\ index' = kept \cup {d}
      /\ \A e \in kept : ~SameKey(d, e)
  BY <1>2 DEF Update
<1>4. index' \subseteq AllDocs
  BY <1>3 DEF IInv, Shape, AllDocs
<1>5. IsFiniteSet(index')
  <2>1. IsFiniteSet(kept)
    BY <1>3, FS_Subset DEF IInv, Shape
  <2> QED
    BY <1>3, <2>1, FS_AddElement
<1>6. \A e, f \in index' : SameKey(e, f) => e = f
  <2>1. \A e \in kept : ~SameKey(e, d)
    BY <1>3 DEF SameKey
  <2>2. \A e, f \in kept : SameKey(e, f) => e = f
    BY <1>3 DEF IInv, Shape
  <2> QED
    BY <1>3, <2>1, <2>2
<1>7. Shape'
  BY <1>4, <1>5, <1>6 DEF IInv, Shape, Update
<1> QED
  BY <1>1, <1>7 DEF IInv

LEMMA DocsOfIndex ==
  ASSUME Shape, NEW kind
  PROVE  DocsOf(kind) \subseteq AllDocs /\ IsFiniteSet(DocsOf(kind))
<1>1. DocsOf(kind) \subseteq index
  BY DEF DocsOf
<1> QED
  BY <1>1, FS_Subset DEF Shape

LEMMA NewQueryStep ==
  ASSUME IInv, NEW kind \in Kinds, NewQuery(kind)
  PROVE  IInv'
<1>1. Paged' /\ CountsHits'
  BY NoAnswer DEF NewQuery
<1>2. PICK s \in Snapshots(kind) :
         query' = [kind |-> kind, docs |-> s, filterType |-> "none", filters |-> <<>>,
                   from |-> 0, limit |-> 0, order |-> None, reverse |-> FALSE]
  BY DEF NewQuery
<1>3. DocsOf(kind) \subseteq AllDocs /\ IsFiniteSet(DocsOf(kind))
  BY DocsOfIndex DEF IInv
<1>4. /\ s \in Seq(AllDocs) /\ IsInjective(s) /\ ToSet(s) \subseteq DocsOf(kind)
      /\ engine = "memsearch" => ToSet(s) = DocsOf(kind)
  <2>1. CASE engine = "memsearch"
    <3>1. Lists(s, DocsOf(kind))
      BY <1>2, <1>3, <2>1, SetToSeqsLists DEF Snapshots
    <3>2. s \in Seq(AllDocs)
      BY <1>3, <3>1, SeqMonotonic DEF Lists
    <3> QED
      BY <3>1, <3>2 DEF Lists
  <2>2. CASE engine # "memsearch"
    <3>1. s = <<>>
      BY <1>2, <2>2 DEF Snapshots
    <3>2. DOMAIN <<>> = {} /\ <<>> \in Seq(AllDocs)
      OBVIOUS
    <3> QED
      BY <2>2, <3>1, <3>2 DEF IsInjective, ToSet
  <2> QED
    BY <2>1, <2>2
<1>5. query' \in Queries /\ query'.docs = s /\ query'.kind = kind
  <2>1. 0 \in 0..MaxFrom /\ 0 \in 0..MaxLimit /\ <<>> \in Seq(Conditions)
    BY SearchQueryConstants
  <2> QED
    BY <1>2, <1>4, <2>1 DEF Queries
<1>6. \A d \in DocsOf(kind) : d.kind = kind
  BY DEF DocsOf
<1>7. calls' = 0 /\ 0 \in 0..MaxCalls
  BY SearchQueryConstants DEF NewQuery
<1>8. Shape'
  BY <1>3, <1>4, <1>5, <1>6, <1>7 DEF IInv, Shape, NewQuery
<1>9. Whole'
  BY <1>4, <1>5 DEF Whole, NewQuery
<1> QED
  BY <1>1, <1>8, <1>9 DEF IInv

\* A call that builds the query keeps what it took, and answers nothing.
LEMMA BuildingStep ==
  ASSUME IInv, Building, query' \in Queries, changed' \in BOOLEAN,
         query'.docs = query.docs, query'.kind = query.kind,
         changed' = (calls > 0)
           \/ /\ changed' = changed
              /\ query'.filters = query.filters /\ query'.filterType = query.filterType
  PROVE  IInv'
<1>1. Paged' /\ CountsHits'
  BY NoAnswer DEF Building
<1>2. Shape'
  BY DEF IInv, Shape, Building
<1>3. Whole'
  <2> SUFFICES ASSUME engine = "memsearch"
               PROVE  /\ calls = 0 => ToSet(query.docs) = taken
                      /\ ~ran /\ ~changed' => Wanted(ToSet(query.docs))' = Wanted(taken)'
    BY DEF Whole, Building
  <2>1. /\ calls = 0 => ToSet(query.docs) = taken
        /\ ~ran /\ ~changed => Wanted(ToSet(query.docs)) = Wanted(taken)
    BY DEF IInv, Whole, Building
  <2>2. taken' = taken /\ query'.docs = query.docs
    BY DEF Building
  <2>3. CASE changed' = (calls > 0)
    <3>1. ~changed' => calls = 0
      <4>1. calls \in 0..MaxCalls /\ MaxCalls \in Nat
        BY SearchQueryConstants DEF IInv, Shape
      <4>2. ~(calls > 0) => calls = 0
        BY <4>1
      <4> QED
        BY <2>3, <4>2
    <3>2. calls = 0 => Wanted(ToSet(query.docs))' = Wanted(taken)'
      BY <2>1, <2>2
    <3> QED
      BY <2>1, <3>1, <3>2
  <2>4. CASE changed' = changed /\ query'.filters = query.filters
             /\ query'.filterType = query.filterType
    <3>1. \A D : Wanted(D)' = Wanted(D)
      BY <2>4, SameMatches
    <3> QED
      BY <2>1, <2>2, <2>4, <3>1
  <2> QED
    BY <2>1, <2>3, <2>4
<1> QED
  BY <1>1, <1>2, <1>3 DEF IInv

LEMMA Numbers ==
  ASSUME IInv, query # None
  PROVE  /\ query \in Queries /\ changed \in BOOLEAN /\ (calls > 0) \in BOOLEAN
         /\ IsInjective(query.docs) /\ \A d \in ToSet(query.docs) : d.kind = query.kind
BY DEF IInv, Shape

LEMMA NewFilterStep ==
  ASSUME IInv, NEW type \in {"and", "or"}, NewFilter(type)
  PROVE  IInv'
<1>1. query \in Queries /\ (calls > 0) \in BOOLEAN
  BY Numbers DEF NewFilter, Filtering, Building
<1>2. query' = [query EXCEPT !.filterType = type, !.filters = <<>>]
  BY DEF NewFilter
<1>3. /\ query' \in Queries /\ query'.docs = query.docs /\ query'.kind = query.kind
  <2>1. <<>> \in Seq(Conditions)
    OBVIOUS
  <2> QED
    BY <1>1, <1>2, <2>1 DEF Queries
<1> QED
  BY <1>1, <1>3, BuildingStep DEF NewFilter, Filtering

LEMMA AddConditionStep ==
  ASSUME IInv, NEW c \in Conditions, AddCondition(c)
  PROVE  IInv'
<1>1. query \in Queries /\ (calls > 0) \in BOOLEAN
  BY Numbers DEF AddCondition, Filtering, Building
<1>2. PICK fs : fs = Append(query.filters, c)
  OBVIOUS
<1>3. fs \in Seq(Conditions)
  BY <1>1, <1>2, FieldsOf, AppendProperties
<1>4. query' = [query EXCEPT !.filters = fs]
  BY <1>2 DEF AddCondition
<1>5. /\ query' \in Queries /\ query'.docs = query.docs /\ query'.kind = query.kind
  BY <1>1, <1>3, <1>4 DEF Queries
<1> QED
  BY <1>1, <1>5, BuildingStep DEF AddCondition, Filtering

LEMMA FromStep ==
  ASSUME IInv, NEW num \in 0..MaxFrom, From(num)
  PROVE  IInv'
<1>1. query \in Queries /\ changed \in BOOLEAN
  BY Numbers DEF From, Windowing, Building
<1>2. query' = [query EXCEPT !.from = num] /\ changed' = changed
  BY DEF From, Windowing
<1>3. /\ query' \in Queries /\ query'.docs = query.docs /\ query'.kind = query.kind
      /\ query'.filters = query.filters /\ query'.filterType = query.filterType
  BY <1>1, <1>2 DEF Queries
<1> QED
  BY <1>1, <1>2, <1>3, BuildingStep DEF From, Windowing

LEMMA LimitStep ==
  ASSUME IInv, NEW num \in 0..MaxLimit, Limit(num)
  PROVE  IInv'
<1>1. query \in Queries /\ changed \in BOOLEAN
  BY Numbers DEF Limit, Windowing, Building
<1>2. query' = [query EXCEPT !.limit = num] /\ changed' = changed
  BY DEF Limit, Windowing
<1>3. /\ query' \in Queries /\ query'.docs = query.docs /\ query'.kind = query.kind
      /\ query'.filters = query.filters /\ query'.filterType = query.filterType
  BY <1>1, <1>2 DEF Queries
<1> QED
  BY <1>1, <1>2, <1>3, BuildingStep DEF Limit, Windowing

LEMMA OrderStep ==
  ASSUME IInv, NEW f \in Fields, NEW reverse \in BOOLEAN, Order(f, reverse)
  PROVE  IInv'
<1>1. query \in Queries /\ changed \in BOOLEAN
  BY Numbers DEF Order, Windowing, Building
<1>2. query' = [query EXCEPT !.order = f, !.reverse = reverse] /\ changed' = changed
  BY DEF Order, Windowing
<1>3. /\ query' \in Queries /\ query'.docs = query.docs /\ query'.kind = query.kind
      /\ query'.filters = query.filters /\ query'.filterType = query.filterType
  BY <1>1, <1>2 DEF Queries
<1> QED
  BY <1>1, <1>2, <1>3, BuildingStep DEF Order, Windowing

----------------------------------------------------------------------------
(* The calls that answer. *)

LEMMA CallShape ==
  ASSUME IInv, Calling
  PROVE  /\ query \in Queries /\ calls' \in 0..MaxCalls /\ calls' # 0
         /\ engine' = engine /\ index' = index /\ changed' = changed
<1>1. query \in Queries
  BY Numbers DEF Calling
<1>2. calls \in 0..MaxCalls /\ MaxCalls \in Nat
  BY SearchQueryConstants DEF IInv, Shape
<1>3. calls + 1 \in 0..MaxCalls /\ calls + 1 # 0
  BY <1>2 DEF Calling
<1> QED
  BY <1>1, <1>3 DEF Calling

\* A memsearch call that leaves the query with some of its documents.
LEMMA MemShape ==
  ASSUME IInv, MemCalling, NEW D, NEW docs \in Seq(D), IsInjective(docs),
         D \subseteq ToSet(query.docs), query' = [query EXCEPT !.docs = docs],
         answer'.is \in {"none", "docs", "count", "error"}, ran' \in BOOLEAN
  PROVE  Shape' /\ SameQuestion /\ query' \in Queries /\ query'.docs = docs
<1>1. /\ query \in Queries /\ calls' \in 0..MaxCalls
      /\ engine' = engine /\ index' = index /\ changed' = changed
  BY CallShape DEF MemCalling
<1>2. /\ query # None /\ \A d \in ToSet(query.docs) : d.kind = query.kind
  BY Numbers DEF MemCalling, Calling
<1>3. ToSet(query.docs) \subseteq AllDocs
  <2>1. query.docs \in Seq(AllDocs)
    BY <1>1, FieldsOf
  <2> QED
    BY <2>1, LenProperties, ElementOfSeq DEF ToSet
<1>4. docs \in Seq(AllDocs)
  <2>1. D \subseteq AllDocs
    BY <1>3
  <2> QED
    BY <2>1, SeqMonotonic
<1>5. ToSet(docs) \subseteq D
  BY LenProperties, ElementOfSeq DEF ToSet
<1>6. SameQuestion /\ query' \in Queries /\ query'.docs = docs
  BY <1>1, <1>4 DEF Queries, SameQuestion
<1>7. \A d \in ToSet(query'.docs) : d.kind = query'.kind
  BY <1>2, <1>5, <1>6 DEF SameQuestion
<1>8. Shape'
  BY <1>1, <1>6, <1>7 DEF IInv, Shape, MemCalling
<1> QED
  BY <1>6, <1>8

LEMMA MemRunStep ==
  ASSUME IInv, MemRun
  PROVE  IInv'
<1>1. PICK s \in MemOrders(MemFiltered) :
         query' = [query EXCEPT !.docs = Page(s)] /\ Returns(Page(s))
  BY DEF MemRun
<1>2. /\ query \in Queries /\ calls' # 0 /\ engine = "memsearch"
      /\ query # None /\ IsInjective(query.docs)
      /\ taken' = taken /\ ran' = TRUE
  BY CallShape, Numbers DEF MemRun, MemCalling, Calling
<1>3. PICK D : /\ D \subseteq ToSet(query.docs) /\ Lists(s, D) /\ Sorted(s)
               /\ D = IF query.order # None
                      THEN Having(Wanted(ToSet(query.docs)), query.order)
                      ELSE Wanted(ToSet(query.docs))
  BY <1>1, <1>2, MemOrdersList
<1>4. PICK p : p = Page(s)
  OBVIOUS
<1>5. p \in Seq(D) /\ IsInjective(p)
  BY <1>2, <1>3, <1>4, PageOfList
<1>6. /\ answer'.is = "docs" /\ answer'.docs = p
      /\ answer'.first = ~ran /\ answer'.same = ~changed
  BY <1>1, <1>4 DEF Returns
<1>7. Shape' /\ SameQuestion /\ query' \in Queries
  <2>1. query' = [query EXCEPT !.docs = p]
    BY <1>1, <1>4
  <2>2. MemCalling /\ ran' \in BOOLEAN
    BY <1>2 DEF MemRun
  <2> QED
    BY <1>3, <1>5, <1>6, <2>1, <2>2, MemShape
<1>8. Whole'
  BY <1>2 DEF Whole
<1>9. Paged'
  <2> SUFFICES ASSUME ~Conjunction', answer'.first /\ answer'.same
               PROVE  /\ query' \in Queries
                      /\ \E t : /\ Lists(t, Shown') /\ Sorted(t)'
                                /\ answer'.docs = Page(t)'
    BY <1>2, <1>7 DEF Paged, SameQuestion
  <2>1. ~Conjunction /\ Shown' = Showing(taken) /\ Sorted(s)' /\ Page(s)' = p
    BY <1>2, <1>3, <1>4, <1>7, SameAnswers
  <2>2. Wanted(ToSet(query.docs)) = Wanted(taken)
    BY <1>2, <1>6 DEF IInv, Whole
  <2>3. Wanted(taken) = Answers(taken)
    BY <1>2, <2>1, WantedSatisfies
  <2>4. Showing(taken) = D
    BY <1>2, <1>3, <2>2, <2>3 DEF Showing
  <2> QED
    BY <1>3, <1>6, <1>7, <2>1, <2>4
<1>10. CountsHits'
  BY <1>6 DEF CountsHits
<1> QED
  BY <1>7, <1>8, <1>9, <1>10 DEF IInv

LEMMA MemCountStep ==
  ASSUME IInv, MemCount
  PROVE  IInv'
<1>1. PICK W : W = Wanted(ToSet(query.docs))
  OBVIOUS
<1>2. PICK p : p = MemFiltered
  OBVIOUS
<1>3. /\ query \in Queries /\ calls' # 0 /\ engine = "memsearch"
      /\ query # None /\ IsInjective(query.docs)
      /\ taken' = taken /\ ran' = ran /\ changed' = changed
  BY CallShape, Numbers DEF MemCount, MemCalling, Calling
<1>4. Lists(p, W) /\ W \subseteq ToSet(query.docs)
  BY <1>1, <1>2, <1>3, FilterLists DEF Wanted
<1>5. /\ answer'.is = "count" /\ answer'.count = Cardinality(W)
      /\ answer'.first = ~ran /\ answer'.same = ~changed
  BY <1>2, <1>4 DEF MemCount, Counts, Lists
<1>6. Shape' /\ SameQuestion /\ query'.docs = p
  <2>1. query' = [query EXCEPT !.docs = p] /\ MemCalling
    BY <1>2 DEF MemCount
  <2>2. p \in Seq(W) /\ IsInjective(p)
    BY <1>4 DEF Lists
  <2>3. ran' \in BOOLEAN
    BY <1>3 DEF IInv, Shape
  <2> QED
    BY <1>4, <1>5, <2>1, <2>2, <2>3, MemShape
<1>7. Whole'
  <2> SUFFICES ASSUME ~ran, ~changed
               PROVE  Wanted(ToSet(query.docs))' = Wanted(taken)'
    BY <1>3 DEF Whole
  <2>1. W = Wanted(taken)
    BY <1>1, <1>3 DEF IInv, Whole
  <2>2. \A E : Wanted(E)' = Wanted(E)
    BY <1>6, SameMatches DEF SameQuestion
  <2>3. ToSet(query'.docs) = W
    BY <1>4, <1>6 DEF Lists
  <2>4. Wanted(W) = W
    BY <1>1 DEF Wanted
  <2> QED
    BY <1>3, <2>1, <2>2, <2>3, <2>4
<1>8. CountsHits'
  <2> SUFFICES ASSUME ~Conjunction', answer'.first /\ answer'.same
               PROVE  answer'.count = Cardinality(Hits')
    BY <1>3, <1>6 DEF CountsHits, SameQuestion
  <2>1. ~Conjunction /\ Hits' = Answers(taken)
    BY <1>3, <1>6, SameAnswers
  <2>2. W = Wanted(taken)
    BY <1>1, <1>3, <1>5 DEF IInv, Whole
  <2> QED
    BY <1>3, <1>5, <2>1, <2>2, WantedSatisfies
<1>9. Paged'
  BY <1>5 DEF Paged
<1> QED
  BY <1>6, <1>7, <1>8, <1>9 DEF IInv

LEMMA MemFailsStep ==
  ASSUME IInv, MemFails
  PROVE  IInv'
<1>1. /\ query' = query /\ calls' # 0 /\ calls' \in 0..MaxCalls
      /\ engine' = engine /\ index' = index
      /\ taken' = taken /\ ran' = ran /\ changed' = changed
      /\ answer'.is = "error"
  BY CallShape DEF MemFails, MemCalling, ReturnsError
<1>2. Paged' /\ CountsHits'
  BY <1>1, NoAnswer
<1>3. Shape'
  BY <1>1 DEF IInv, Shape
<1>4. Whole'
  <2>1. \A D : Wanted(D)' = Wanted(D)
    BY <1>1, SameMatches
  <2> QED
    BY <1>1, <2>1 DEF IInv, Whole
<1> QED
  BY <1>2, <1>3, <1>4 DEF IInv

\* A call of the service leaves everything but the answer.
LEMMA ElasticShape ==
  ASSUME IInv, ElasticCalling, ran' \in BOOLEAN,
         answer'.is \in {"none", "docs", "count", "error"}
  PROVE  /\ Shape' /\ Whole' /\ SameQuestion /\ query \in Queries /\ query' = query
         /\ engine = "elasticsearch" /\ engine # "memsearch"
         /\ Shown' = ElasticHits /\ Hits' = ElasticHits /\ IsFiniteSet(ElasticHits)
<1>1. /\ query \in Queries /\ calls' \in 0..MaxCalls /\ index' = index
      /\ engine' = engine /\ query' = query /\ changed' = changed
      /\ engine = "elasticsearch" /\ taken' = DocsOf(query.kind)
  BY CallShape DEF ElasticCalling
<1>2. taken' \subseteq AllDocs /\ IsFiniteSet(taken')
  BY <1>1, DocsOfIndex DEF IInv
<1>3. Shape'
  BY <1>1, <1>2 DEF IInv, Shape
<1>4. engine # "memsearch"
  BY <1>1
<1>5. Whole'
  BY <1>1, <1>4 DEF Whole
<1>6. SameQuestion
  BY <1>1, SameDocs
<1>7. ElasticHits = Answers(taken')
  BY <1>1, ElasticHitsAre
<1>8. Hits' = ElasticHits /\ Shown' = ElasticHits
  BY <1>4, <1>6, <1>7, SameAnswers DEF Showing
<1>9. IsFiniteSet(ElasticHits)
  <2>1. ElasticHits \subseteq taken'
    BY <1>7 DEF Answers
  <2> QED
    BY <1>2, <2>1, FS_Subset
<1> QED
  BY <1>1, <1>3, <1>4, <1>5, <1>6, <1>8, <1>9

LEMMA ElasticRunStep ==
  ASSUME IInv, ElasticRun
  PROVE  IInv'
<1>1. PICK s \in ElasticOrders(ElasticHits) : Returns(ElasticPage(s))
  BY DEF ElasticRun
<1>2. answer'.is = "docs" /\ answer'.docs = ElasticPage(s) /\ ran' = TRUE /\ ElasticCalling
  BY <1>1 DEF ElasticRun, Returns
<1>3. /\ Shape' /\ Whole' /\ SameQuestion /\ query \in Queries /\ query' = query
      /\ engine = "elasticsearch" /\ engine # "memsearch"
      /\ Shown' = ElasticHits /\ IsFiniteSet(ElasticHits)
  BY <1>2, ElasticShape
<1>4. Lists(s, Shown') /\ Sorted(s)' /\ ElasticPage(s)' = ElasticPage(s) /\ engine' = engine
  <2>1. Lists(s, ElasticHits) /\ Sorted(s)
    BY <1>1, <1>3, ElasticOrdersList
  <2> QED
    BY <1>3, <2>1, SameAnswers DEF SameQuestion
<1>5. Paged'
  BY <1>2, <1>3, <1>4 DEF Paged
<1>6. CountsHits'
  BY <1>2 DEF CountsHits
<1> QED
  BY <1>3, <1>5, <1>6 DEF IInv

LEMMA ElasticCountStep ==
  ASSUME IInv, ElasticCount
  PROVE  IInv'
<1>1. /\ answer'.is = "count" /\ answer'.count = Cardinality(ElasticHits)
      /\ ran' = ran /\ ElasticCalling
  BY DEF ElasticCount, Counts
<1>2. ran' \in BOOLEAN
  BY <1>1 DEF IInv, Shape
<1>3. Shape' /\ Whole' /\ Hits' = ElasticHits
  BY <1>1, <1>2, ElasticShape
<1>4. Paged'
  BY <1>1 DEF Paged
<1>5. CountsHits'
  BY <1>1, <1>3 DEF CountsHits
<1> QED
  BY <1>3, <1>4, <1>5 DEF IInv

LEMMA ElasticFailsStep ==
  ASSUME IInv, ElasticFails
  PROVE  IInv'
<1>1. answer'.is = "error" /\ ran' = ran /\ ElasticCalling
  BY DEF ElasticFails, ReturnsError
<1>2. ran' \in BOOLEAN
  BY <1>1 DEF IInv, Shape
<1>3. Shape' /\ Whole'
  BY <1>1, <1>2, ElasticShape
<1>4. Paged' /\ CountsHits'
  BY <1>1, NoAnswer
<1> QED
  BY <1>3, <1>4 DEF IInv

----------------------------------------------------------------------------
LEMMA InitIInv == Init => IInv
<1> SUFFICES ASSUME Init PROVE IInv
  OBVIOUS
<1>1. /\ query = None /\ answer.is = "none" /\ taken = {} /\ calls = 0
      /\ ran = FALSE /\ changed = FALSE /\ engine \in Engines /\ index \in Indexes
  BY DEF Init
<1>2. IsFiniteSet({})
  BY FS_EmptySet
<1>3. /\ index \subseteq AllDocs /\ IsFiniteSet(index)
      /\ \A d, e \in index : SameKey(d, e) => d = e
  BY <1>1, SearchQueryConstants DEF AllDocs
<1>4. 0 \in 0..MaxCalls
  BY SearchQueryConstants
<1>5. Shape
  BY <1>1, <1>2, <1>3, <1>4 DEF Shape
<1>6. Whole /\ Paged /\ CountsHits
  BY <1>1 DEF Whole, Paged, CountsHits
<1> QED
  BY <1>5, <1>6 DEF IInv

LEMMA NextIInv == IInv /\ [Next]_vars => IInv'
<1> SUFFICES ASSUME IInv, [Next]_vars PROVE IInv'
  OBVIOUS
<1>1. ASSUME NEW d \in Offered, Update(d) PROVE IInv'
  BY <1>1, UpdateStep
<1>2. ASSUME NEW kind \in Kinds, NewQuery(kind) PROVE IInv'
  BY <1>2, NewQueryStep
<1>3. ASSUME NEW type \in {"and", "or"}, NewFilter(type) PROVE IInv'
  BY <1>3, NewFilterStep
<1>4. ASSUME NEW c \in Conditions, AddCondition(c) PROVE IInv'
  BY <1>4, AddConditionStep
<1>5. ASSUME NEW num \in 0..MaxFrom, From(num) PROVE IInv'
  BY <1>5, FromStep
<1>6. ASSUME NEW num \in 0..MaxLimit, Limit(num) PROVE IInv'
  BY <1>6, LimitStep
<1>7. ASSUME NEW f \in Fields, NEW reverse \in BOOLEAN, Order(f, reverse) PROVE IInv'
  BY <1>7, OrderStep
<1>8. CASE MemRun
  BY <1>8, MemRunStep
<1>9. CASE MemCount
  BY <1>9, MemCountStep
<1>10. CASE MemFails
  BY <1>10, MemFailsStep
<1>11. CASE ElasticRun
  BY <1>11, ElasticRunStep
<1>12. CASE ElasticCount
  BY <1>12, ElasticCountStep
<1>13. CASE ElasticFails
  BY <1>13, ElasticFailsStep
<1>14. CASE UNCHANGED vars
  <2>1. Whole' /\ Paged' /\ CountsHits'
    BY <1>14, SameButIndex DEF IInv, vars
  <2>2. Shape'
    BY <1>14 DEF IInv, Shape, vars
  <2> QED
    BY <2>1, <2>2 DEF IInv
<1> QED
  BY <1>1, <1>2, <1>3, <1>4, <1>5, <1>6, <1>7, <1>8, <1>9, <1>10, <1>11, <1>12, <1>13,
     <1>14 DEF Next

LEMMA ShapeHasType == Shape => TypeOK
<1> SUFFICES ASSUME Shape PROVE TypeOK
  OBVIOUS
<1>1. \A d \in AllDocs : IsDoc(d)
  BY SearchQueryConstants DEF AllDocs
<1>2. ASSUME query # None
      PROVE  /\ query \in Queries /\ ToSet(query.docs) \subseteq AllDocs
             /\ IsInjective(query.docs) /\ \A d \in ToSet(query.docs) : d.kind = query.kind
  <2>1. query \in Queries
    BY <1>2 DEF Shape
  <2>2. query.docs \in Seq(AllDocs)
    BY <2>1, FieldsOf
  <2>3. ToSet(query.docs) \subseteq AllDocs
    BY <2>2, LenProperties, ElementOfSeq DEF ToSet
  <2> QED
    BY <1>2, <2>1, <2>3 DEF Shape
<1>3. ASSUME query # None
      PROVE  /\ query.kind \in Kinds
             /\ \A d \in ToSet(query.docs) : IsDoc(d) /\ d.kind = query.kind
             /\ IsInjective(query.docs)
             /\ query.filterType \in {"none", "and", "or"}
             /\ query.from \in 0..MaxFrom /\ query.limit \in 0..MaxLimit
             /\ query.order \in Fields \cup {None}
  BY <1>1, <1>2, <1>3, FieldsOf
<1> QED
  BY <1>1, <1>3 DEF Shape, TypeOK

\* The inductive invariant holds in every state that can be reached.
THEOREM Invariant == Spec => []IInv
BY InitIInv, NextIInv, PTL DEF Spec

\* The types of the variables; above all, however calls that cut the query's
\* documents follow each other (memsearch.go, runAndFilter to Run), a query
\* never has a document of another kind, nor one twice.
THEOREM TypeCorrect == Spec => []TypeOK
<1>1. IInv => TypeOK
  BY ShapeHasType DEF IInv
<1> QED
  BY <1>1, Invariant, PTL

\* The page that Run returns has as many of the documents that satisfy the
\* query as it should, none twice, in order, and none that should have come
\* before them is missing: elasticsearch's always, memsearch's the first time.
THEOREM PageIsRight == Spec => []RunReturnsPage
<1>1. IInv => RunReturnsPage
  BY PagedIsRight DEF IInv
<1> QED
  BY <1>1, Invariant, PTL

\* Count gives the number of documents that satisfy the query, whatever it
\* was asked before and however its page is cut.
THEOREM CountIsRight == Spec => []CountsHits
<1>1. IInv => CountsHits
  BY DEF IInv
<1> QED
  BY <1>1, Invariant, PTL
=============================================================================
