-------------------------- MODULE IndexServerProofs --------------------------
(* What is proved of IndexServer, for every set of entities, goroutines and  *)
(* applications, chunk size and channel capacity; and that the server beside *)
(* the applications' indexers implements RegularIndex where their clocks     *)
(* agree, with either way of reading the store and any failures and kills.   *)
EXTENDS ServerRefines, FiniteSetTheorems, SequenceTheorems, WellFoundedInduction, TLAPS

-----------------------------------------------------------------------------
(* Entities in order. *)

\* A set of numbers that is not empty has a smallest one.
LEMMA Smallest ==
  ASSUME NEW T \in SUBSET Nat, T # {}
  PROVE  \E x \in T : \A y \in T : x <= y
<1> DEFINE R == OpToRel(<, Nat)
<1>1. IsWellFoundedOn(R, Nat)
  BY NatLessThanWellFounded
<1> HIDE DEF R
<1>2. PICK x \in T : \A y \in T : ~ (<<y, x>> \in R)
  BY <1>1, WFMin
<1>3. \A y \in T : <<y, x>> \in R <=> y < x
  BY DEF R, OpToRel
<1>4. \A y \in T : ~(y < x)
  BY <1>2, <1>3
<1>5. x \in Nat /\ \A y \in T : y \in Nat
  OBVIOUS
<1> QED
  BY <1>4, <1>5

Ascending(s) == \A i, j \in DOMAIN s : i < j => s[i] < s[j]

\* The finite sets of n numbers that cannot be put in order.
Disorders(n) ==
  {S \in SUBSET Nat : /\ IsFiniteSet(S) /\ Cardinality(S) = n
                      /\ ~ \E s \in [1..n -> S] : Ascending(s)}

\* There are none: of a smallest one, all but the least number can be.
LEMMA CanBeOrdered ==
  ASSUME NEW n \in Nat
  PROVE  Disorders(n) = {}
<1> SUFFICES ASSUME Disorders(n) # {}
             PROVE  FALSE
  OBVIOUS
<1> DEFINE Bad == {k \in Nat : Disorders(k) # {}}
<1>1. PICK k \in Bad : \A j \in Bad : k <= j
  <2>1. n \in Bad /\ Bad \in SUBSET Nat
    OBVIOUS
  <2> HIDE DEF Bad
  <2> QED
    BY <2>1, Smallest
<1>2. k \in Nat /\ Disorders(k) # {}
  OBVIOUS
<1>3. k - 1 \in Nat => Disorders(k - 1) = {}
  <2>1. k - 1 \in Nat => k - 1 \notin Bad
    <3> HIDE DEF Bad
    <3> QED
      BY <1>1, <1>2
  <2> QED
    BY <2>1
<1> HIDE DEF Bad
<1>4. PICK S \in Disorders(k) : TRUE
  BY <1>2
<1>5. /\ S \in SUBSET Nat /\ IsFiniteSet(S) /\ Cardinality(S) = k
      /\ \A s \in [1..k -> S] : ~Ascending(s)
  BY <1>4 DEF Disorders
<1>6. CASE S = {}
  <2>1. 1..k = {}
    BY <1>2, <1>5, <1>6, FS_EmptySet
  <2>2. [i \in 1..k |-> i] \in [1..k -> S]
    BY <2>1
  <2>3. Ascending([i \in 1..k |-> i])
    BY <2>1 DEF Ascending
  <2> QED
    BY <1>5, <2>2, <2>3
<1>7. CASE S # {}
  <2>1. PICK x \in S : \A y \in S : x <= y
    BY <1>5, <1>7, Smallest
  <2> DEFINE T == S \ {x}
  <2>2. IsFiniteSet(T) /\ Cardinality(T) = k - 1 /\ k # 0
    BY <1>5, <1>7, <2>1, FS_RemoveElement, FS_EmptySet
  <2>3. k - 1 \in Nat
    BY <1>2, <2>2
  <2>4. T \in SUBSET Nat /\ T \notin Disorders(k - 1)
    BY <1>3, <1>5, <2>3
  <2>5. PICK t \in [1..(k - 1) -> T] : Ascending(t)
    BY <2>2, <2>4 DEF Disorders
  <2>6. \A i \in 1..(k - 1) : t[i] \in S /\ t[i] \in Nat /\ x < t[i]
    <3>1. \A y \in T : y \in S /\ y \in Nat /\ x \in Nat /\ x <= y /\ y # x
      BY <1>5, <2>1
    <3>2. \A y \in T : x < y
      BY <3>1
    <3> QED
      BY <2>5, <3>1, <3>2
  <2> HIDE DEF T
  <2> DEFINE s == [i \in 1..k |-> IF i = 1 THEN x ELSE t[i - 1]]
  <2>7. \A i \in 1..k : i # 1 => i - 1 \in 1..(k - 1)
    BY <1>2
  <2>8. s \in [1..k -> S]
    BY <2>1, <2>6, <2>7
  <2>9. ASSUME NEW i \in 1..k, NEW j \in 1..k, i < j PROVE s[i] < s[j]
    <3>1. j # 1 /\ s[j] = t[j - 1] /\ j - 1 \in 1..(k - 1)
      BY <2>7, <2>9
    <3>2. CASE i = 1
      BY <2>6, <3>1, <3>2
    <3>3. CASE i # 1
      <4>1. s[i] = t[i - 1] /\ i - 1 \in 1..(k - 1) /\ i - 1 < j - 1
        BY <2>7, <2>9, <3>3
      <4> QED
        BY <2>5, <3>1, <4>1 DEF Ascending
    <3> QED
      BY <3>2, <3>3
  <2>10. Ascending(s)
    BY <2>9 DEF Ascending
  <2> QED
    BY <1>5, <2>8, <2>10
<1> QED
  BY <1>6, <1>7

LEMMA InOrderGives ==
  ASSUME NEW S \in SUBSET Nat, IsFiniteSet(S)
  PROVE  InOrder(S) \in Seq(S) /\ Ascending(InOrder(S)) /\ ToSet(InOrder(S)) = S
<1> DEFINE n == Cardinality(S)
           s == InOrder(S)
<1>1. n \in Nat
  BY FS_CardinalityType
<1>2. \E t \in [1..n -> S] : Ascending(t)
  <2>1. S \notin Disorders(n)
    BY <1>1, CanBeOrdered
  <2> QED
    BY <2>1 DEF Disorders
<1>3. s \in [1..n -> S] /\ Ascending(s)
  BY <1>2 DEF InOrder, Ascending
<1> HIDE DEF s
<1>4. ASSUME NEW i \in 1..n, NEW j \in 1..n, s[i] = s[j] PROVE i = j
  <2>1. s[i] \in S /\ s[j] \in S
    BY <1>3
  <2>3. \A x \in S : x \in Nat /\ ~(x < x)
    OBVIOUS
  <2>4. ~(s[i] < s[j]) /\ ~(s[j] < s[i])
    BY <1>4, <2>1, <2>3
  <2>2. ~(i < j) /\ ~(j < i)
    BY <1>3, <2>4 DEF Ascending
  <2> QED
    BY <1>1, <2>2
<1>5. s \in Injection(1..n, S)
  BY <1>3, <1>4 DEF Injection, IsInjective
<1>6. Cardinality(1..n) = n
  BY <1>1, FS_Interval
<1>7. s \in Surjection(1..n, S)
  BY <1>5, <1>6, FS_Injection
<1>8. ToSet(s) = S
  BY <1>3, <1>7 DEF Surjection, ToSet
<1>9. s \in Seq(S)
  BY <1>1, <1>3
<1> QED
  BY <1>3, <1>8, <1>9 DEF s

\* What a walk over S may start with: some of S in order, with what it leaves
\* out after all that it has, and not nothing unless S is empty.
Begins(c, S) ==
  /\ c \in Seq(S)
  /\ Ascending(c)
  /\ \A e \in S : e \in ToSet(c) \/ (c # <<>> /\ Last(c) < e)

LEMMA PrefixIsStart ==
  ASSUME NEW S \in SUBSET Nat, NEW s \in Seq(S), Ascending(s), ToSet(s) = S,
         NEW m \in Nat, m <= Len(s), m = Len(s) \/ m >= 1
  PROVE  Begins(SubSeq(s, 1, m), S)
<1> DEFINE c == SubSeq(s, 1, m)
<1>1. PICK n \in Nat : n = Len(s)
  OBVIOUS
<1>2. DOMAIN s = 1..n /\ m <= n /\ (m = n \/ m >= 1)
  BY <1>1, LenProperties
<1>3. \A i \in 1..m : i \in 1..n
  BY <1>2
<1>4. \A i \in 1..m : s[i] \in S
  BY <1>1, <1>3, ElementOfSeq
<1>5. 1 \in Int /\ m \in Int
  OBVIOUS
<1>6. c \in Seq(S) /\ Len(c) = (IF 1 <= m THEN m - 1 + 1 ELSE 0)
  BY <1>4, <1>5, SubSeqProperties
<1>7. \A i \in 1..m - 1 + 1 : c[i] = s[1 + i - 1]
  BY <1>4, <1>5, SubSeqProperties
<1> HIDE DEF c
<1>8. Len(c) = m /\ 1..m - 1 + 1 = 1..m /\ \A i \in 1..m : 1 + i - 1 = i
  BY <1>6
<1>9. Len(c) = m /\ DOMAIN c = 1..m /\ \A i \in 1..m : c[i] = s[i]
  BY <1>6, <1>7, <1>8, LenProperties
<1>10. Ascending(c)
  BY <1>2, <1>3, <1>9 DEF Ascending
<1>11. ASSUME NEW e \in S, e \notin ToSet(c)
      PROVE  c # <<>> /\ Last(c) < e
  <2>1. PICK i \in 1..n : s[i] = e
    BY <1>2 DEF ToSet
  <2>2. i \notin 1..m
    <3>1. i \in 1..m => c[i] = e
      BY <1>9, <2>1
    <3> QED
      BY <1>9, <1>11, <3>1 DEF ToSet
  <2>3. m < i /\ m # n /\ m \in 1..n
    BY <1>2, <2>2
  <2>4. s[m] < s[i]
    BY <1>2, <2>3 DEF Ascending
  <2>5. m >= 1
    BY <2>3
  <2>6. Last(c) = s[m] /\ c # <<>>
    BY <1>9, <2>5 DEF Last
  <2> QED
    BY <2>1, <2>4, <2>6
<1> QED
  BY <1>6, <1>10, <1>11 DEF Begins, c

LEMMA MinOfTwo ==
  ASSUME NEW n \in Nat, NEW k \in Nat
  PROVE  Min({n, k}) \in {n, k} /\ Min({n, k}) <= k
<1>1. \E x \in {n, k} : \A y \in {n, k} : x <= y
  OBVIOUS
<1> QED
  BY <1>1 DEF Min

LEMMA PrefixBegins ==
  ASSUME NEW S \in SUBSET Nat, IsFiniteSet(S), NEW n \in Nat, n >= 1
  PROVE  Begins(SubSeq(InOrder(S), 1, Min({n, Len(InOrder(S))})), S)
<1>1. PICK s \in Seq(S) : s = InOrder(S) /\ Ascending(s) /\ ToSet(s) = S
  BY InOrderGives
<1>2. PICK k \in Nat : k = Len(s)
  OBVIOUS
<1>3. PICK m \in Nat : m = Min({n, k}) /\ m <= k /\ (m = k \/ m >= 1)
  BY MinOfTwo
<1>4. Begins(SubSeq(s, 1, m), S)
  BY <1>1, <1>2, <1>3, PrefixIsStart
<1> QED
  BY <1>1, <1>2, <1>3, <1>4

\* Rows before one entity are before any that follows it, too.
LEMMA RowsBeforeGrows ==
  ASSUME ver \in [Entities -> 0..MaxVersion], NEW S \in SUBSET Entities,
         NEW e \in S, NEW f \in S, e <= f
  PROVE  /\ Cardinality(RowsBefore(e, S)) \in Nat
         /\ Cardinality(RowsBefore(f, S)) \in Nat
         /\ Cardinality(RowsBefore(e, S)) <= Cardinality(RowsBefore(f, S))
<1>1. IsFiniteSet(S) /\ S \subseteq Nat
  BY ServerConstants, FS_Subset
<1>2. IsFiniteSet(1..MaxVersion)
  BY ServerConstants, FS_Interval
<1>3. IsFiniteSet(S \X (1..MaxVersion))
  BY <1>1, <1>2, FS_Product
<1>4. RowsBefore(f, S) \subseteq S \X (1..MaxVersion)
  BY DEF RowsBefore
<1>5. IsFiniteSet(RowsBefore(f, S))
  BY <1>3, <1>4, FS_Subset
<1>6. RowsBefore(e, S) \subseteq RowsBefore(f, S)
  <2> SUFFICES ASSUME NEW r \in S \X (1..MaxVersion), r[1] < e, r[2] <= ver[r[1]]
               PROVE  r[1] < f
    BY DEF RowsBefore
  <2>1. r[1] \in Nat /\ e \in Nat /\ f \in Nat
    BY <1>1
  <2> QED
    BY <2>1
<1> QED
  BY <1>5, <1>6, FS_Subset, FS_CardinalityType

LEMMA RowsBegin ==
  ASSUME ver \in [Entities -> 0..MaxVersion], NEW S \in SUBSET Entities
  PROVE  Begins(InOrder({e \in S : Cardinality(RowsBefore(e, S)) < ChunkSize}), S)
<1> DEFINE T == {e \in S : Cardinality(RowsBefore(e, S)) < ChunkSize}
           c == InOrder(T)
<1>1. IsFiniteSet(S) /\ S \subseteq Nat
  BY ServerConstants, FS_Subset
<1>2. IsFiniteSet(T) /\ T \subseteq Nat /\ T \subseteq S
  BY <1>1, FS_Subset
<1>3. c \in Seq(T) /\ Ascending(c) /\ ToSet(c) = T
  BY <1>2, InOrderGives
<1>4. ASSUME NEW e \in S, NEW f \in T, e <= f PROVE e \in T
  <2>1. f \in S /\ Cardinality(RowsBefore(f, S)) < ChunkSize
    OBVIOUS
  <2>2. /\ Cardinality(RowsBefore(e, S)) \in Nat
        /\ Cardinality(RowsBefore(f, S)) \in Nat
        /\ Cardinality(RowsBefore(e, S)) <= Cardinality(RowsBefore(f, S))
    BY <1>4, <2>1, RowsBeforeGrows
  <2>3. Cardinality(RowsBefore(e, S)) < ChunkSize
    BY <2>1, <2>2, ServerConstants
  <2> QED
    BY <2>3
<1>5. ASSUME S # {} PROVE T # {}
  <2>1. PICK x \in S : \A y \in S : x <= y
    BY <1>1, <1>5, Smallest
  <2>2. RowsBefore(x, S) = {}
    <3> SUFFICES ASSUME NEW r \in S \X (1..MaxVersion), r[1] < x
                 PROVE  FALSE
      BY DEF RowsBefore
    <3>1. r[1] \in Nat /\ x \in Nat /\ x <= r[1]
      BY <1>1, <2>1
    <3> QED
      BY <3>1
  <2>3. Cardinality(RowsBefore(x, S)) = 0
    BY <2>2, FS_EmptySet
  <2>4. x \in T
    BY <2>3, ServerConstants
  <2> QED
    BY <2>4
<1> HIDE DEF T, c
<1>6. ASSUME NEW e \in S, e \notin ToSet(c)
      PROVE  c # <<>> /\ Last(c) < e
  <2>1. T # {} /\ e \notin T
    BY <1>3, <1>5, <1>6
  <2>2. c # <<>> /\ Last(c) \in T
    <3>1. DOMAIN c = 1..Len(c) /\ Len(c) \in Nat
      BY <1>3
    <3>2. PICK i \in 1..Len(c) : c[i] \in T
      BY <1>3, <2>1, <3>1 DEF ToSet
    <3>3. Len(c) \in 1..Len(c)
      BY <3>1, <3>2
    <3> QED
      BY <1>3, <3>1, <3>3 DEF Last
  <2>3. Last(c) \in Nat /\ e \in Nat
    BY <1>1, <1>2, <2>2
  <2>4. ~(e <= Last(c))
    BY <1>4, <2>1, <2>2
  <2> QED
    BY <2>2, <2>3, <2>4
<1>7. c \in Seq(S)
  BY <1>2, <1>3, SeqMonotonic
<1> QED
  BY <1>3, <1>6, <1>7 DEF Begins, c, T

\* What Iterate finds: entities in order, and of those after `from` none is
\* missing before the last it found.
LEMMA ChunkGives ==
  ASSUME ver \in [Entities -> 0..MaxVersion], from \in Entities \cup {0}
  PROVE  /\ Chunk \in Seq(Entities)
         /\ Ascending(Chunk)
         /\ \A e \in Entities : ver[e] > 0 /\ from < e =>
              e \in ToSet(Chunk) \/ (Chunk # <<>> /\ Last(Chunk) < e)
<1>1. /\ Entities \subseteq Nat /\ IsFiniteSet(Entities)
      /\ ChunkSize \in Nat /\ ChunkSize >= 1
      /\ from \in Nat
  BY ServerConstants
<1>2. CASE Driver = "leveldb"
  <2> DEFINE S == {e \in Entities : ver[e] > 0 /\ e >= from}
  <2>1. S \in SUBSET Nat /\ IsFiniteSet(S) /\ S \subseteq Entities
    BY <1>1, FS_Subset
  <2>2. \A e \in Entities : ver[e] > 0 /\ from < e => e \in S
    BY <1>1
  <2>3. Chunk = SubSeq(InOrder(S), 1, Min({ChunkSize, Len(InOrder(S))}))
    BY <1>2 DEF Chunk
  <2> HIDE DEF S
  <2>4. Begins(Chunk, S)
    BY <1>1, <2>1, <2>3, PrefixBegins
  <2>5. Chunk \in Seq(Entities)
    BY <2>1, <2>4, SeqMonotonic DEF Begins
  <2> QED
    BY <2>2, <2>4, <2>5 DEF Begins
<1>3. CASE Driver # "leveldb"
  <2> DEFINE S == {e \in Entities : ver[e] > 0 /\ e > from}
  <2>1. S \subseteq Entities
    OBVIOUS
  <2>2. \A e \in Entities : ver[e] > 0 /\ from < e => e \in S
    BY <1>1
  <2>3. Chunk = InOrder({e \in S : Cardinality(RowsBefore(e, S)) < ChunkSize})
    BY <1>3 DEF Chunk
  <2> HIDE DEF S
  <2>4. Begins(Chunk, S)
    BY <2>1, <2>3, RowsBegin
  <2>5. Chunk \in Seq(Entities)
    BY <2>1, <2>4, SeqMonotonic DEF Begins
  <2> QED
    BY <2>2, <2>4, <2>5 DEF Begins
<1> QED
  BY <1>2, <1>3

-----------------------------------------------------------------------------
(* Channels and documents. *)

LEMMA HeadAndTail ==
  ASSUME NEW S, NEW s \in Seq(S), s # <<>>
  PROVE  /\ Head(s) \in S /\ Tail(s) \in Seq(S) /\ Len(Tail(s)) <= Len(s)
         /\ ToSet(s) \subseteq {Head(s)} \cup ToSet(Tail(s))
<1>a. PICK n \in Nat : n = Len(s) /\ n \in Nat \ {0}
  BY EmptySeq
<1>1. n \in Nat /\ n = Len(s) /\ n >= 1 /\ DOMAIN s = 1..n
  BY <1>a, LenProperties
<1>2. /\ Head(s) \in S /\ Tail(s) \in Seq(S) /\ Len(Tail(s)) = n - 1
      /\ \A i \in 1..(n - 1) : Tail(s)[i] = s[i + 1]
  BY <1>1, HeadTailProperties
<1>3. DOMAIN Tail(s) = 1..(n - 1)
  BY <1>2, LenProperties
<1>4. ASSUME NEW i \in 1..n, s[i] # Head(s)
      PROVE  s[i] \in ToSet(Tail(s))
  <2>1. i # 1
    BY <1>4
  <2>2. i - 1 \in 1..(n - 1) /\ (i - 1) + 1 = i
    BY <1>1, <2>1
  <2>3. Tail(s)[i - 1] = s[i]
    BY <1>2, <2>2
  <2> QED
    BY <1>3, <2>2, <2>3 DEF ToSet
<1>5. \A x \in ToSet(s) : \E i \in 1..n : s[i] = x
  BY <1>1 DEF ToSet
<1> QED
  BY <1>1, <1>2, <1>4, <1>5

LEMMA Appended ==
  ASSUME NEW S, NEW s \in Seq(S), NEW x \in S
  PROVE  /\ Append(s, x) \in Seq(S) /\ Len(Append(s, x)) = Len(s) + 1
         /\ ToSet(Append(s, x)) = ToSet(s) \cup {x}
<1>1. PICK n \in Nat : n = Len(s) /\ DOMAIN s = 1..n
  BY LenProperties
<1>2. /\ Append(s, x) \in Seq(S) /\ Len(Append(s, x)) = n + 1
      /\ DOMAIN Append(s, x) = 1..(n + 1)
      /\ \A i \in 1..n : Append(s, x)[i] = s[i]
      /\ Append(s, x)[n + 1] = x
  BY <1>1
<1>3. 1..(n + 1) = 1..n \cup {n + 1}
  BY <1>1
<1> QED
  BY <1>1, <1>2, <1>3 DEF ToSet

\* What the server's and the applications' goroutines hold.
Job == [e: Entities \cup {0}, data: 0..MaxVersion]

LEMMA NewJob ==
  ASSUME NEW e \in Entities \cup {0}, NEW d \in 0..MaxVersion
  PROVE  [e |-> e, data |-> d] \in Job
BY DEF Job

LEMMA NoJobIsOne == NoJob \in Job
BY ServerConstants DEF NoJob, Job

LEMMA JobHas ==
  ASSUME NEW r \in Job
  PROVE  r.e \in Entities \cup {0} /\ r.data \in 0..MaxVersion
BY DEF Job

\* Which goroutines have a document under way, after each step of one.
LEMMA StampedAfter ==
  ASSUME wpc \in [Goroutines -> {"recv", "regenerate", "query", "update", "done"}]
  PROVE  /\ \A w \in Goroutines : Regenerate(w) => w \notin Stamped /\ Stamped' = Stamped \cup {w}
         /\ \A w \in Goroutines : Query(w) => w \in Stamped /\ Stamped' = Stamped
         /\ \A w \in Goroutines : HandedOver(w) => w \in Stamped /\ Stamped' = Stamped \ {w}
         /\ \A w \in Goroutines :
              Receive(w) \/ WorkerExit(w) \/ AppReceive(w) => w \notin Stamped /\ Stamped' = Stamped
         /\ \A G \in SUBSET Goroutines : Restarted(G) => Stamped' = Stamped \ G
         /\ UNCHANGED wpc => UNCHANGED Stamped
<1>1. ASSUME NEW w \in Goroutines, Regenerate(w)
      PROVE  w \notin Stamped /\ Stamped' = Stamped \cup {w}
  BY <1>1 DEF Regenerate, Stamped
<1>2. ASSUME NEW w \in Goroutines, Query(w)
      PROVE  w \in Stamped /\ Stamped' = Stamped
  BY <1>2 DEF Query, Stamped
<1>3. ASSUME NEW w \in Goroutines, HandedOver(w)
      PROVE  w \in Stamped /\ Stamped' = Stamped \ {w}
  BY <1>3 DEF HandedOver, Stamped
<1>4. ASSUME NEW w \in Goroutines, Receive(w) \/ WorkerExit(w) \/ AppReceive(w)
      PROVE  w \notin Stamped /\ Stamped' = Stamped
  BY <1>4 DEF Receive, WorkerExit, AppReceive, Stamped
<1>5. ASSUME NEW G \in SUBSET Goroutines, Restarted(G)
      PROVE  Stamped' = Stamped \ G
  BY <1>5 DEF Restarted, Stamped
<1>6. UNCHANGED wpc => UNCHANGED Stamped
  BY DEF Stamped
<1> QED
  BY <1>1, <1>2, <1>3, <1>4, <1>5, <1>6

-----------------------------------------------------------------------------
(* The inductive invariant. *)

\* Where LoopOnce is: what was stored when the cycle began and lies behind
\* has been sent; what lies ahead is in the chunk, or after it.
LoopOK ==
  /\ \A e \in Entities : start[e] <= ver[e]
  /\ lpc \in {"iterate", "scan"} => \A e \in Entities : start[e] > 0 /\ e <= from => e \in sent
  /\ lpc = "scan" =>
       /\ \A i \in 1..handled : chunk[i] \in sent
       /\ \A e \in Entities : start[e] > 0 =>
            e \in sent \/ e \in ToSet(chunk) \/ (chunk # <<>> /\ Last(chunk) < e)
  /\ lpc \in {"ended", "finishing", "finished"} /\ failures = 0 =>
       \A e \in Entities : start[e] > 0 => e \in sent

\* What the goroutines hold, and that those which have ended left nothing.
WorkOK ==
  /\ closed <=> lpc \in {"finishing", "finished"}
  /\ lpc = "finished" => \A w \in Workers : wpc[w] = "done"
  /\ \A w \in Goroutines :
       /\ wpc[w] = "done" => w \in Workers /\ closed /\ ch = <<>>
       /\ wpc[w] \in {"recv", "done"} => job[w] = NoJob
       /\ wpc[w] \in {"regenerate", "query", "update"} => job[w].e \in Registered

\* No NanoTs is before itself, and with one clock they are in one order.
OrderOK ==
  /\ \A w \in Stamped : <<w, w>> \notin older
  /\ ~SkewedClocks =>
       /\ \A v, w \in Stamped : v # w => <<v, w>> \in older \/ <<w, v>> \in older
       /\ \A u, v, w \in Stamped : <<u, v>> \in older /\ <<v, w>> \in older => <<u, w>> \in older

\* A document that shows its entity as it was when the cycle began, or will.
Shows(v) == wpc[v] = "update" => start[job[v].e] <= job[v].data

\* A worker of the server is to stamp the document of e ...
Taken(e) == \E w \in Workers : wpc[w] = "regenerate" /\ job[w].e = e

\* ... or w has it under way, it will be accepted, and only newer ones then ...
Sure(w, e) ==
  /\ w \in Workers \cap Stamped
  /\ w \notin outdated /\ job[w].e = e /\ Shows(w)
  /\ \A v \in Stamped : job[v].e = e /\ <<w, v>> \in older => Shows(v)

\* ... or it was accepted, and none that shows less can be any more.
Shown(e) ==
  /\ start[e] <= docs[e]
  /\ \A v \in Stamped \ outdated : job[v].e = e => Shows(v)

Covered(e) == e \in ToSet(ch) \/ Taken(e) \/ (\E w : Sure(w, e)) \/ Shown(e)

CoverOK == ~SkewedClocks /\ failures = 0 => \A e \in Registered \cap sent : Covered(e)

IInv == TypeOK /\ LoopOK /\ WorkOK /\ OrderOK /\ CoverOK

LEMMA InitIInv == Init => IInv
<1> SUFFICES ASSUME Init
             PROVE  IInv
  OBVIOUS
<1>1. TypeOK
  <2>1. wpc \in [Goroutines -> {"recv", "regenerate", "query", "update", "done"}]
    BY DEF Init
  <2>2. job \in [Goroutines -> [e: Entities \cup {0}, data: 0..MaxVersion]]
    BY NoJobIsOne DEF Init, Job
  <2>3. docs \in [Entities -> 0..MaxVersion] /\ ver \in [Entities -> 0..MaxVersion]
    BY ServerConstants DEF Init
  <2>4. chunk \in Seq(Entities) /\ IsInjective(chunk) /\ handled \in 0..Len(chunk)
    BY EmptySeq DEF Init, IsInjective
  <2>5. failures \in Nat /\ restarts \in Nat /\ failures + restarts <= MaxFaults
    BY ServerConstants DEF Init
  <2>6. ch \in Seq(Entities) /\ Len(ch) <= BufCap /\ notes \in Seq(Entities)
    BY ServerConstants, EmptySeq DEF Init
  <2> QED
    BY <2>1, <2>2, <2>3, <2>4, <2>5, <2>6 DEF Init, TypeOK
<1>2. LoopOK
  <2>1. \A e \in Entities : start[e] \in Nat /\ start[e] <= ver[e]
    BY ServerConstants DEF Init
  <2> QED
    BY <2>1 DEF Init, LoopOK
<1>3. WorkOK
  BY DEF Init, WorkOK
<1>4. OrderOK
  BY DEF Init, OrderOK, Stamped
<1>5. CoverOK
  BY DEF Init, CoverOK
<1> QED
  BY <1>1, <1>2, <1>3, <1>4, <1>5 DEF IInv

-----------------------------------------------------------------------------
(* Type correctness. *)

\* An entity received is in the worker's job, until it is handed over.
LEMMA ReceivedJob ==
  ASSUME job \in [Goroutines -> Job], NEW w \in Goroutines, NEW e \in Entities,
         job' = [job EXCEPT ![w] = [e |-> e, data |-> 0]]
  PROVE  job' \in [Goroutines -> Job]
<1>1. [e |-> e, data |-> 0] \in Job
  BY NewJob, ServerConstants
<1> QED
  BY <1>1

\* The orders and the refusals of Stamp are of goroutines with documents.
LEMMA StampTypes ==
  ASSUME older \subseteq Stamped \X Stamped, outdated \subseteq Stamped,
         NEW w \in Goroutines, Stamped' = Stamped \cup {w}, Stamp(w)
  PROVE  older' \subseteq Stamped' \X Stamped' /\ outdated' \subseteq Stamped'
<1>1. CASE SkewedClocks
  <2>1. PICK S \in SUBSET Stamped : older' = older \cup (S \X {w}) \cup ({w} \X (Stamped \ S))
    BY <1>1 DEF Stamp
  <2>2. outdated' \in {outdated, outdated \cup {w}}
    BY <1>1 DEF Stamp
  <2> QED
    BY <2>1, <2>2
<1>2. CASE ~SkewedClocks
  BY <1>2 DEF Stamp
<1> QED
  BY <1>1, <1>2

LEMMA OlderAreStamped ==
  ASSUME NEW w
  PROVE  Older(w) \subseteq Stamped
BY DEF Older

LEMMA LoopTypes ==
  ASSUME TypeOK, Loop
  PROVE  TypeOK'
<1> USE DEF TypeOK
<1>1. CASE LoopOnce
  BY <1>1, StampedAfter DEF LoopOnce, work
<1>2. CASE Iterate
  <2>1. Chunk \in Seq(Entities) /\ Ascending(Chunk)
    BY ChunkGives
  <2>2. IsInjective(chunk')
    <3> SUFFICES ASSUME NEW i \in DOMAIN Chunk, NEW j \in DOMAIN Chunk, Chunk[i] = Chunk[j]
                 PROVE  i = j
      BY <1>2 DEF Iterate, IsInjective
    <3>1. i \in 1..Len(Chunk) /\ j \in 1..Len(Chunk) /\ Len(Chunk) \in Nat
      BY <2>1, LenProperties
    <3>2. Chunk[i] \in Entities
      BY <2>1, <3>1, ElementOfSeq
    <3>3. Chunk[i] \in Nat
      BY <3>2, ServerConstants
    <3>4. ~(Chunk[i] < Chunk[j]) /\ ~(Chunk[j] < Chunk[i])
      BY <3>3
    <3>5. ~(i < j) /\ ~(j < i)
      BY <2>1, <3>4 DEF Ascending
    <3> QED
      BY <3>1, <3>5
  <2>3. chunk' \in Seq(Entities) /\ handled' \in 0..Len(chunk')
    <3>1. Len(Chunk) \in Nat
      BY <2>1, LenProperties
    <3> QED
      BY <1>2, <2>1, <3>1 DEF Iterate
  <2>4. UNCHANGED Stamped
    BY <1>2, StampedAfter DEF Iterate, work
  <2> QED
    BY <1>2, <2>2, <2>3, <2>4 DEF Iterate, work
<1>3. CASE Send
  <2>1. chunk[handled + 1] \in Entities /\ handled + 1 \in 0..Len(chunk)
    <3>1. Len(chunk) \in Nat
      BY LenProperties
    <3>2. handled + 1 \in 1..Len(chunk)
      BY <1>3, <3>1 DEF Send
    <3> QED
      BY <3>2, ElementOfSeq
  <2>2. ch' \in Seq(Entities) /\ Len(ch') = Len(ch) + 1
    BY <1>3, <2>1, Appended DEF Send
  <2>3. Len(ch) \in Nat /\ Len(ch) < BufCap
    BY <1>3, LenProperties DEF Send
  <2>4. UNCHANGED Stamped
    BY <1>3, StampedAfter DEF Send, work
  <2>5. Len(ch') <= BufCap
    BY <2>2, <2>3, ServerConstants
  <2> QED
    BY <1>3, <2>1, <2>2, <2>4, <2>5 DEF Send, work
<1>4. CASE ChunkDone
  <2>1. from' \in Entities \cup {0}
    <3>1. CASE chunk = <<>>
      BY <1>4, <3>1 DEF ChunkDone
    <3>2. CASE chunk # <<>>
      <4>1. Len(chunk) \in Nat \ {0}
        BY <3>2, EmptySeq
      <4>2. Len(chunk) \in 1..Len(chunk)
        BY <4>1
      <4>3. Last(chunk) \in Entities
        BY <4>2, ElementOfSeq DEF Last
      <4> QED
        BY <1>4, <3>2, <4>3 DEF ChunkDone, NextFrom
    <3> QED
      BY <3>1, <3>2
  <2>2. UNCHANGED Stamped
    BY <1>4, StampedAfter DEF ChunkDone, work
  <2> QED
    BY <1>4, <2>1, <2>2 DEF ChunkDone, work
<1>5. CASE IterateFails
  <2>1. UNCHANGED Stamped
    BY <1>5, StampedAfter DEF IterateFails, work
  <2>2. failures' \in Nat /\ restarts' \in Nat /\ failures' + restarts' <= MaxFaults
    BY <1>5, ServerConstants DEF IterateFails
  <2> QED
    BY <1>5, <2>1, <2>2 DEF IterateFails, work
<1>6. CASE Finish
  BY <1>6, StampedAfter DEF Finish, work
<1>7. CASE FinishReturns
  BY <1>7, StampedAfter DEF FinishReturns, work
<1> QED
  BY <1>1, <1>2, <1>3, <1>4, <1>5, <1>6, <1>7 DEF Loop

LEMMA HandleTypes ==
  ASSUME TypeOK, WorkOK, OrderOK, NEW w \in Goroutines, Handle(w)
  PROVE  TypeOK'
<1> USE DEF TypeOK
<1>1. CASE Regenerate(w)
  <2>1. w \notin Stamped /\ Stamped' = Stamped \cup {w}
    BY <1>1, StampedAfter
  <2>2. older' \subseteq Stamped' \X Stamped' /\ outdated' \subseteq Stamped'
    BY <1>1, <2>1, StampTypes DEF Regenerate
  <2>3. wpc' \in [Goroutines -> {"recv", "regenerate", "query", "update", "done"}]
    BY <1>1 DEF Regenerate
  <2> QED
    BY <1>1, <2>2, <2>3 DEF Regenerate, loop
<1>2. CASE Query(w)
  <2>1. w \in Stamped /\ Stamped' = Stamped
    BY <1>2, StampedAfter
  <2>2. wpc' \in [Goroutines -> {"recv", "regenerate", "query", "update", "done"}]
    BY <1>2 DEF Query
  <2>3. job[w].e \in Entities
    BY <2>1, ServerConstants DEF WorkOK, Stamped
  <2>4. [e |-> job[w].e, data |-> ver[job[w].e]] \in Job
    BY <2>3, NewJob
  <2>5. job' \in [Goroutines -> Job]
    BY <1>2, <2>4 DEF Query, Job
  <2> QED
    BY <1>2, <2>1, <2>2, <2>5 DEF Query, loop, Job
<1>3. ASSUME HandedOver(w)
      PROVE  /\ wpc' \in [Goroutines -> {"recv", "regenerate", "query", "update", "done"}]
             /\ job' \in [Goroutines -> [e: Entities \cup {0}, data: 0..MaxVersion]]
             /\ older' \subseteq Stamped' \X Stamped'
             /\ Stamped' = Stamped \ {w}
  <2>1. Stamped' = Stamped \ {w}
    BY <1>3, StampedAfter
  <2>2. wpc' \in [Goroutines -> {"recv", "regenerate", "query", "update", "done"}]
    BY <1>3 DEF HandedOver
  <2>3. job' \in [Goroutines -> [e: Entities \cup {0}, data: 0..MaxVersion]]
    BY <1>3, NoJobIsOne DEF HandedOver, Job
  <2>4. older' \subseteq Stamped' \X Stamped'
    BY <1>3, <2>1 DEF HandedOver, Without
  <2> QED
    BY <2>1, <2>2, <2>3, <2>4
<1>4. CASE Update(w)
  <2>1. HandedOver(w) /\ w \in Stamped
    BY <1>4, StampedAfter DEF Update
  <2>2. job[w].e \in Entities /\ job[w].data \in 0..MaxVersion
    BY <2>1, ServerConstants, JobHas DEF WorkOK, Stamped, Job
  <2>3. docs' \in [Entities -> 0..MaxVersion]
    BY <1>4, <2>2 DEF Update
  <2>4. outdated' \subseteq Stamped'
    <3>1. CASE w \in outdated
      BY <1>4, <3>1, <1>3, <2>1 DEF Update
    <3>2. CASE w \notin outdated
      <4>1. w \notin Older(w)
        BY <2>1 DEF Older, OrderOK
      <4>2. outdated' = outdated \cup Older(w)
        BY <1>4, <3>2 DEF Update
      <4> QED
        BY <1>3, <2>1, <3>2, <4>1, <4>2, OlderAreStamped
    <3> QED
      BY <3>1, <3>2
  <2> QED
    BY <1>3, <1>4, <2>1, <2>3, <2>4 DEF Update, loop
<1>5. CASE UpdateFails(w)
  <2>1. HandedOver(w)
    BY <1>5 DEF UpdateFails
  <2>2. failures' \in Nat /\ restarts' \in Nat /\ failures' + restarts' <= MaxFaults
    BY <1>5, ServerConstants DEF UpdateFails
  <2>3. outdated' \subseteq Stamped'
    BY <1>3, <1>5, <2>1 DEF UpdateFails
  <2> QED
    BY <1>3, <1>5, <2>1, <2>2, <2>3 DEF UpdateFails, loop
<1> QED
  BY <1>1, <1>2, <1>4, <1>5 DEF Handle

LEMMA TypeStep ==
  ASSUME IInv, [Next]_vars
  PROVE  TypeOK'
<1> USE DEF IInv
<1>1. CASE UNCHANGED vars
  BY <1>1, StampedAfter DEF TypeOK, vars, loop, work
<1>2. ASSUME NEW e \in Entities, Commit(e)
      PROVE  TypeOK'
  <2>1. UNCHANGED Stamped
    BY <1>2, StampedAfter DEF Commit, work, TypeOK
  <2>2. ver' \in [Entities -> 0..MaxVersion]
    BY SMTT(30), <1>2, ServerConstants DEF Commit, TypeOK
  <2>3. notes' \in Seq(Entities)
    BY <1>2, Appended DEF Commit, TypeOK
  <2> QED
    BY <1>2, <2>1, <2>2, <2>3 DEF Commit, work, loop, TypeOK
<1>3. CASE Loop
  BY <1>3, LoopTypes
<1>4. ASSUME NEW w \in Workers, Receive(w)
      PROVE  TypeOK'
  <2>1. UNCHANGED Stamped
    BY <1>4, StampedAfter DEF TypeOK, Goroutines
  <2>2. /\ Head(ch) \in Entities /\ ch' \in Seq(Entities)
        /\ Len(Tail(ch)) <= Len(ch) /\ ch' = Tail(ch)
    BY <1>4, HeadAndTail DEF Receive, TypeOK
  <2>3. wpc' \in [Goroutines -> {"recv", "regenerate", "query", "update", "done"}]
    BY <1>4 DEF Receive, TypeOK
  <2>4. job' \in [Goroutines -> [e: Entities \cup {0}, data: 0..MaxVersion]]
    BY <1>4, <2>2, ReceivedJob DEF Receive, TypeOK, Job, Goroutines
  <2>5. Len(ch') <= BufCap
    <3>1. Len(ch) \in Nat /\ Len(ch') \in Nat /\ Len(ch) <= BufCap
      BY <2>2, LenProperties DEF TypeOK
    <3> QED
      BY <2>2, <3>1, ServerConstants
  <2> QED
    BY <1>4, <2>1, <2>2, <2>3, <2>4, <2>5 DEF Receive, loop, TypeOK
<1>5. ASSUME NEW w \in Workers, WorkerExit(w)
      PROVE  TypeOK'
  <2>1. UNCHANGED Stamped
    BY <1>5, StampedAfter DEF TypeOK, Goroutines
  <2> QED
    BY <1>5, <2>1 DEF WorkerExit, loop, TypeOK
<1>6. ASSUME NEW a \in AppWorkers, AppReceive(a)
      PROVE  TypeOK'
  <2>1. UNCHANGED Stamped
    BY <1>6, StampedAfter DEF TypeOK, Goroutines
  <2>2. Head(notes) \in Entities /\ notes' \in Seq(Entities)
    BY <1>6, HeadAndTail DEF AppReceive, TypeOK
  <2>3. wpc' \in [Goroutines -> {"recv", "regenerate", "query", "update", "done"}]
    BY <1>6 DEF AppReceive, TypeOK
  <2>4. job' \in [Goroutines -> [e: Entities \cup {0}, data: 0..MaxVersion]]
    BY <1>6, <2>2, ReceivedJob DEF AppReceive, TypeOK, Job, Goroutines
  <2> QED
    BY <1>6, <2>1, <2>2, <2>3, <2>4 DEF AppReceive, loop, TypeOK
<1>7. ASSUME NEW w \in Goroutines, Handle(w)
      PROVE  TypeOK'
  BY <1>7, HandleTypes
<1>8. ASSUME NEW G \in SUBSET Goroutines, Restarted(G)
      PROVE  /\ Stamped' = Stamped \ G
             /\ ver' = ver /\ docs' = docs
             /\ wpc' \in [Goroutines -> {"recv", "regenerate", "query", "update", "done"}]
             /\ job' \in [Goroutines -> [e: Entities \cup {0}, data: 0..MaxVersion]]
             /\ older' \subseteq Stamped' \X Stamped' /\ outdated' \subseteq Stamped'
             /\ failures' \in Nat /\ restarts' \in Nat /\ failures' + restarts' <= MaxFaults
  <2>1. Stamped' = Stamped \ G
    BY <1>8, StampedAfter DEF TypeOK
  <2>2. wpc' \in [Goroutines -> {"recv", "regenerate", "query", "update", "done"}]
    BY <1>8 DEF Restarted, TypeOK
  <2>3. job' \in [Goroutines -> [e: Entities \cup {0}, data: 0..MaxVersion]]
    BY <1>8, NoJobIsOne DEF Restarted, TypeOK, Job
  <2>4. older' \subseteq Stamped' \X Stamped' /\ outdated' \subseteq Stamped'
    BY <1>8, <2>1 DEF Restarted, Without, TypeOK
  <2>5. failures' \in Nat /\ restarts' \in Nat /\ failures' + restarts' <= MaxFaults
    BY <1>8, ServerConstants DEF Restarted, TypeOK
  <2> QED
    BY <1>8, <2>1, <2>2, <2>3, <2>4, <2>5 DEF Restarted
<1>9. CASE AppRestart
  <2>1. AppWorkers \in SUBSET Goroutines /\ Restarted(AppWorkers)
    BY <1>9 DEF AppRestart, Goroutines
  <2> QED
    BY <1>8, <1>9, <2>1, EmptySeq DEF AppRestart, loop, TypeOK
<1>10. CASE Restart
  <2>1. Workers \in SUBSET Goroutines /\ Restarted(Workers)
    BY <1>10 DEF Restart, Goroutines
  <2>2. chunk' \in Seq(Entities) /\ IsInjective(chunk') /\ handled' \in 0..Len(chunk')
    BY <1>10, EmptySeq DEF Restart, IsInjective
  <2>3. ch' \in Seq(Entities) /\ Len(ch') <= BufCap
    BY <1>10, EmptySeq, ServerConstants DEF Restart
  <2> QED
    BY <1>8, <1>10, <2>1, <2>2, <2>3 DEF Restart, TypeOK
<1> QED
  BY <1>1, <1>2, <1>3, <1>4, <1>5, <1>6, <1>7, <1>9, <1>10
  DEF Next, Work, AppWork, Stopped, Goroutines

-----------------------------------------------------------------------------
(* LoopOnce. *)

\* What a chunk leaves behind has been sent, so that it may be gone on from.
LEMMA Passed ==
  ASSUME TypeOK, LoopOK, lpc = "scan", handled = Len(chunk), NEW e \in Entities, start[e] > 0
  PROVE  e \in sent \/ (chunk # <<>> /\ Last(chunk) < e)
<1>1. \A i \in 1..Len(chunk) : chunk[i] \in sent
  BY DEF LoopOK
<1>2. DOMAIN chunk = 1..Len(chunk)
  BY LenProperties DEF TypeOK
<1>3. e \in ToSet(chunk) => e \in sent
  BY <1>1, <1>2 DEF ToSet
<1>4. e \in sent \/ e \in ToSet(chunk) \/ (chunk # <<>> /\ Last(chunk) < e)
  BY DEF LoopOK
<1> QED
  BY <1>3, <1>4

LEMMA LoopGoesOn ==
  ASSUME TypeOK, LoopOK, Loop
  PROVE  LoopOK'
<1>1. CASE LoopOnce
  <2>1. \A e \in Entities : ver[e] <= ver[e] /\ ~(ver[e] > 0 /\ e <= 0)
    BY ServerConstants DEF TypeOK
  <2> QED
    BY <1>1, <2>1 DEF LoopOnce, LoopOK
<1>2. CASE Iterate
  <2>1. /\ lpc' = "scan" /\ handled' = 0 /\ chunk' = Chunk
        /\ UNCHANGED <<ver, from, sent, start, failures>> /\ lpc = "iterate"
    BY <1>2 DEF Iterate
  <2>2. \A e \in Entities : start[e] <= ver[e] /\ (start[e] > 0 /\ e <= from => e \in sent)
    BY <2>1 DEF LoopOK
  <2>3. ASSUME NEW e \in Entities, start[e] > 0, e \notin sent
        PROVE  e \in ToSet(Chunk) \/ (Chunk # <<>> /\ Last(Chunk) < e)
    <3>1. /\ e \in Nat /\ from \in Nat /\ ver[e] \in Nat /\ start[e] \in Nat
          /\ ver \in [Entities -> 0..MaxVersion] /\ from \in Entities \cup {0}
      BY ServerConstants DEF TypeOK
    <3>2. from < e /\ ver[e] > 0
      BY <2>2, <2>3, <3>1
    <3> QED
      BY <3>1, <3>2, ChunkGives
  <2> QED
    BY <2>1, <2>2, <2>3 DEF LoopOK
<1>3. CASE Send
  <2>1. /\ lpc' = "scan" /\ lpc = "scan" /\ handled' = handled + 1
        /\ sent' = sent \cup {chunk[handled + 1]}
        /\ UNCHANGED <<ver, from, chunk, start, failures>>
    BY <1>3 DEF Send
  <2>2. \A i \in 1..handled' : i \in 1..handled \/ i = handled + 1
    BY <2>1 DEF TypeOK
  <2>3. \A i \in 1..handled' : chunk[i] \in sent'
    BY <2>1, <2>2 DEF LoopOK
  <2> QED
    BY <2>1, <2>3 DEF LoopOK
<1>4. CASE ChunkDone
  <2>1. /\ lpc = "scan" /\ handled = Len(chunk)
        /\ UNCHANGED <<ver, chunk, sent, start, failures>>
    BY <1>4 DEF ChunkDone
  <2>2. CASE chunk = <<>>
    <3>1. lpc' = "ended"
      BY <1>4, <2>2 DEF ChunkDone
    <3>2. \A e \in Entities : start[e] > 0 => e \in sent
      BY <2>1, <2>2, Passed
    <3> QED
      BY <2>1, <3>1, <3>2 DEF LoopOK
  <2>3. CASE chunk # <<>>
    <3>1. lpc' = "iterate" /\ from' = Last(chunk)
      BY <1>4, <2>3 DEF ChunkDone, NextFrom
    <3>2. Last(chunk) \in Nat
      <4>1. Len(chunk) \in Nat \ {0}
        BY <2>3, EmptySeq DEF TypeOK
      <4>2. Len(chunk) \in 1..Len(chunk)
        BY <4>1
      <4>3. Last(chunk) \in Entities
        BY <4>2, ElementOfSeq DEF Last, TypeOK
      <4> QED
        BY <4>3, ServerConstants
    <3>3. \A e \in Entities : e \in Nat /\ (e <= Last(chunk) => ~(Last(chunk) < e))
      BY <3>2, ServerConstants
    <3>4. \A e \in Entities : start[e] > 0 /\ e <= from' => e \in sent
      BY <2>1, <3>1, <3>3, Passed
    <3> QED
      BY <2>1, <3>1, <3>4 DEF LoopOK
  <2> QED
    BY <2>2, <2>3
<1>5. CASE IterateFails
  <2>1. failures' # 0 /\ lpc' = "ended" /\ UNCHANGED <<ver, start>>
    BY <1>5 DEF IterateFails, TypeOK
  <2> QED
    BY <2>1 DEF LoopOK
<1>6. CASE Finish
  BY <1>6 DEF Finish, LoopOK
<1>7. CASE FinishReturns
  BY <1>7 DEF FinishReturns, LoopOK
<1> QED
  BY <1>1, <1>2, <1>3, <1>4, <1>5, <1>6, <1>7 DEF Loop

\* The other steps leave LoopOnce alone, but for a failure to end it by.
LEMMA LoopLeftAlone ==
  ASSUME TypeOK, LoopOK, UNCHANGED <<loop, ver>>, failures' \in {failures, failures + 1}
  PROVE  LoopOK'
<1>1. failures' = 0 => failures = 0
  BY DEF TypeOK
<1>2. UNCHANGED <<lpc, from, chunk, handled, sent, start, ver>>
  BY DEF loop
<1> QED
  BY <1>1, <1>2 DEF LoopOK

LEMMA LoopStep ==
  ASSUME IInv, [Next]_vars
  PROVE  LoopOK'
<1> USE DEF IInv
<1>1. CASE UNCHANGED vars
  BY <1>1, LoopLeftAlone DEF vars
<1>2. ASSUME NEW e \in Entities, Commit(e)
      PROVE  LoopOK'
  <2>1. UNCHANGED <<lpc, from, chunk, handled, sent, start, failures>>
    BY <1>2 DEF Commit, loop
  <2>2. \A f \in Entities : ver[f] \in Nat /\ start[f] \in Nat /\ ver'[f] \in Nat /\ ver[f] <= ver'[f]
    BY SMTT(30), <1>2 DEF Commit, TypeOK
  <2>3. \A f \in Entities : start[f] <= ver[f]
    BY DEF LoopOK
  <2>4. \A f \in Entities : start[f] <= ver'[f]
    BY <2>2, <2>3
  <2> QED
    BY <2>1, <2>4 DEF LoopOK
<1>3. CASE Loop
  BY <1>3, LoopGoesOn
<1>4. ASSUME NEW w \in Goroutines,
             Receive(w) \/ WorkerExit(w) \/ AppReceive(w) \/ Handle(w)
      PROVE  LoopOK'
  <2>1. UNCHANGED <<loop, ver>> /\ failures' \in {failures, failures + 1}
    BY <1>4 DEF Receive, WorkerExit, AppReceive, Handle, Regenerate, Query, Update, UpdateFails
  <2> QED
    BY <2>1, LoopLeftAlone
<1>5. CASE AppRestart
  BY <1>5, LoopLeftAlone DEF AppRestart, Restarted
<1>6. CASE Restart
  <2>1. \A e \in Entities : ver[e] <= ver[e]
    BY DEF TypeOK
  <2> QED
    BY <1>6, <2>1 DEF Restart, Restarted, LoopOK
<1> QED
  BY <1>1, <1>2, <1>3, <1>4, <1>5, <1>6 DEF Next, Work, AppWork, Stopped, Goroutines

-----------------------------------------------------------------------------
(* The goroutines. *)

LEMMA WorkStep ==
  ASSUME IInv, [Next]_vars
  PROVE  WorkOK'
<1> USE DEF IInv
<1>1. CASE UNCHANGED vars
  BY <1>1 DEF WorkOK, vars, loop, work
<1>2. ASSUME NEW e \in Entities, Commit(e)
      PROVE  WorkOK'
  BY <1>2 DEF Commit, WorkOK, loop, work
<1>3. CASE Loop
  <2>1. CASE LoopOnce
    BY <2>1 DEF LoopOnce, WorkOK, work
  <2>2. CASE Iterate
    BY <2>2 DEF Iterate, WorkOK, work
  <2>3. CASE Send
    <3>1. ~closed
      BY <2>3 DEF Send, WorkOK
    <3> QED
      BY <2>3, <3>1 DEF Send, WorkOK, work
  <2>4. CASE ChunkDone
    BY <2>4 DEF ChunkDone, WorkOK, work
  <2>5. CASE IterateFails
    BY <2>5 DEF IterateFails, WorkOK, work
  <2>6. CASE Finish
    BY <2>6 DEF Finish, WorkOK, work
  <2>7. CASE FinishReturns
    BY <2>7 DEF FinishReturns, WorkOK, work
  <2> QED
    BY <1>3, <2>1, <2>2, <2>3, <2>4, <2>5, <2>6, <2>7 DEF Loop
<1>4. ASSUME NEW w \in Workers, Receive(w)
      PROVE  WorkOK'
  <2>1. \A v \in Goroutines : wpc[v] # "done"
    BY <1>4 DEF Receive, WorkOK
  <2>2. wpc[w] = "recv" /\ w \in Goroutines
    BY <1>4 DEF Receive, Goroutines
  <2>3. lpc # "finished"
    BY <2>1, ServerConstants DEF WorkOK, Goroutines
  <2>4. CASE Head(ch) \in Registered
    <3>1. /\ wpc'[w] \in {"regenerate", "query", "update"} /\ job'[w].e \in Registered
          /\ \A v \in Goroutines : v # w => wpc'[v] = wpc[v] /\ job'[v] = job[v]
      BY <1>4, <2>2, <2>4 DEF Receive, TypeOK
    <3>2. UNCHANGED <<lpc, closed>>
      BY <1>4 DEF Receive, loop
    <3>3. \A v \in Goroutines : wpc'[v] # "done"
      BY <2>1, <3>1
    <3>4. \A v \in Goroutines :
             /\ wpc'[v] \in {"recv", "done"} => job'[v] = NoJob
             /\ wpc'[v] \in {"regenerate", "query", "update"} => job'[v].e \in Registered
      BY <3>1 DEF WorkOK
    <3> QED
      BY <2>3, <3>2, <3>3, <3>4 DEF WorkOK
  <2>5. CASE Head(ch) \notin Registered
    BY <1>4, <2>1, <2>3, <2>5 DEF Receive, WorkOK, loop
  <2> QED
    BY <2>4, <2>5
<1>5. ASSUME NEW w \in Workers, WorkerExit(w)
      PROVE  WorkOK'
  <2>1. w \in Goroutines
    BY DEF Goroutines
  <2> QED
    BY <1>5, <2>1 DEF WorkerExit, WorkOK, loop, TypeOK
<1>6. ASSUME NEW a \in AppWorkers, AppReceive(a)
      PROVE  WorkOK'
  <2>1. a \in Goroutines /\ a \notin Workers
    BY ServerConstants DEF Goroutines
  <2>2. CASE Head(notes) \in Registered
    <3>1. /\ wpc[a] = "recv" /\ wpc'[a] = "regenerate" /\ job'[a].e \in Registered
          /\ \A w \in Goroutines : w # a => wpc'[w] = wpc[w] /\ job'[w] = job[w]
      BY <1>6, <2>1, <2>2 DEF AppReceive, TypeOK
    <3>2. UNCHANGED <<lpc, closed, ch>>
      BY <1>6 DEF AppReceive, loop
    <3>3. \A w \in Workers : w # a /\ w \in Goroutines
      BY <2>1 DEF Goroutines
    <3>4. lpc' = "finished" => \A w \in Workers : wpc'[w] = "done"
      BY <3>1, <3>2, <3>3 DEF WorkOK
    <3> QED
      BY <3>1, <3>2, <3>4 DEF WorkOK
  <2>3. CASE Head(notes) \notin Registered
    BY <1>6, <2>3 DEF AppReceive, WorkOK, loop
  <2> QED
    BY <2>2, <2>3
<1>7. ASSUME NEW w \in Goroutines, Regenerate(w)
      PROVE  WorkOK'
  BY <1>7 DEF Regenerate, WorkOK, loop, TypeOK
<1>8. ASSUME NEW w \in Goroutines, Query(w)
      PROVE  WorkOK'
  <2>1. job'[w].e = job[w].e /\ \A v \in Goroutines : v # w => job'[v] = job[v]
    BY <1>8 DEF Query, TypeOK
  <2> QED
    BY SMTT(30), <1>8, <2>1 DEF Query, WorkOK, loop, TypeOK
<1>9. ASSUME NEW w \in Goroutines, HandedOver(w), UNCHANGED <<loop, ch, closed>>
      PROVE  WorkOK'
  BY <1>9 DEF HandedOver, WorkOK, loop, TypeOK
<1>10. CASE AppRestart
  <2>1. \A w \in Goroutines :
          IF w \in AppWorkers THEN wpc'[w] = "recv" /\ job'[w] = NoJob
                              ELSE wpc'[w] = wpc[w] /\ job'[w] = job[w]
    BY <1>10 DEF AppRestart, Restarted
  <2>2. UNCHANGED <<lpc, closed, ch>>
    BY <1>10 DEF AppRestart, loop
  <2>3. \A w \in Workers : w \notin AppWorkers /\ w \in Goroutines
    BY ServerConstants DEF Goroutines
  <2>4. lpc' = "finished" => \A w \in Workers : wpc'[w] = "done"
    BY <2>1, <2>2, <2>3 DEF WorkOK
  <2> QED
    BY <2>1, <2>2, <2>4 DEF WorkOK
<1>11. CASE Restart
  BY <1>11 DEF Restart, Restarted, WorkOK, TypeOK
<1> QED
  BY <1>1, <1>2, <1>3, <1>4, <1>5, <1>6, <1>7, <1>8, <1>9, <1>10, <1>11
  DEF Next, Work, AppWork, Handle, Update, UpdateFails, Stopped, Goroutines

-----------------------------------------------------------------------------
(* The order of the NanoTs. *)

\* Without those of G, what is left is in the same order.
LEMMA OrderWithout ==
  ASSUME OrderOK, NEW G, Stamped' = Stamped \ G, older' = Without(G)
  PROVE  OrderOK'
<1>1. \A v, w \in Stamped' : v \in Stamped /\ w \in Stamped /\ (<<v, w>> \in older' <=> <<v, w>> \in older)
  BY DEF Without
<1>2. \A w \in Stamped' : <<w, w>> \notin older'
  BY <1>1 DEF OrderOK
<1>3. ASSUME ~SkewedClocks, NEW v \in Stamped', NEW w \in Stamped', v # w
      PROVE  <<v, w>> \in older' \/ <<w, v>> \in older'
  BY <1>1, <1>3 DEF OrderOK
<1>4. ASSUME ~SkewedClocks, NEW u \in Stamped', NEW v \in Stamped', NEW w \in Stamped',
             <<u, v>> \in older', <<v, w>> \in older'
      PROVE  <<u, w>> \in older'
  <2>1. <<u, v>> \in older /\ <<v, w>> \in older
    BY <1>1, <1>4
  <2>2. <<u, w>> \in older
    BY <1>1, <1>4, <2>1 DEF OrderOK
  <2> QED
    BY <1>1, <2>2
<1> QED
  BY <1>2, <1>3, <1>4 DEF OrderOK

LEMMA OrderStep ==
  ASSUME IInv, [Next]_vars
  PROVE  OrderOK'
<1> USE DEF IInv
<1>1. ASSUME UNCHANGED <<Stamped, older>>
      PROVE  OrderOK'
  BY <1>1 DEF OrderOK
<1>2. CASE UNCHANGED wpc /\ UNCHANGED older
  BY <1>1, <1>2, StampedAfter DEF TypeOK
<1>3. ASSUME NEW w \in Goroutines, Receive(w) \/ WorkerExit(w) \/ AppReceive(w) \/ Query(w)
      PROVE  OrderOK'
  <2>1. UNCHANGED Stamped
    BY <1>3, StampedAfter DEF TypeOK
  <2> QED
    BY <1>1, <1>3, <2>1 DEF Receive, WorkerExit, AppReceive, Query
<1>4. ASSUME NEW w \in Goroutines, Regenerate(w)
      PROVE  OrderOK'
  <2>1. w \notin Stamped /\ Stamped' = Stamped \cup {w}
    BY <1>4, StampedAfter DEF TypeOK
  <2>2. older \subseteq Stamped \X Stamped /\ Stamp(w)
    BY <1>4 DEF Regenerate, TypeOK
  <2>3. CASE SkewedClocks
    <3>1. PICK S \in SUBSET Stamped : older' = older \cup (S \X {w}) \cup ({w} \X (Stamped \ S))
      BY <2>2, <2>3 DEF Stamp
    <3>2. ASSUME NEW v \in Stamped' PROVE <<v, v>> \notin older'
      <4>1. CASE v = w
        BY <2>1, <2>2, <3>1, <4>1
      <4>2. CASE v # w
        <5>1. <<v, v>> \notin older
          BY <2>1, <4>2 DEF OrderOK
        <5> QED
          BY <3>1, <4>2, <5>1
      <4> QED
        BY <4>1, <4>2
    <3> QED
      BY <2>3, <3>2 DEF OrderOK
  <2>4. CASE ~SkewedClocks
    <3>1. older' = older \cup (Stamped \X {w})
      BY <2>2, <2>4 DEF Stamp
    <3>2. \A u, v \in Stamped' :
            <<u, v>> \in older' <=> <<u, v>> \in older \/ (u \in Stamped /\ v = w)
      BY <3>1
    <3>3. \A u, v : <<u, v>> \in older => u \in Stamped /\ v \in Stamped
      BY <2>2
    <3>4. ASSUME NEW v \in Stamped' PROVE <<v, v>> \notin older'
      BY <2>1, <3>2, <3>3 DEF OrderOK
    <3>5. ASSUME NEW u \in Stamped', NEW v \in Stamped', u # v
          PROVE  <<u, v>> \in older' \/ <<v, u>> \in older'
      BY <2>1, <2>4, <3>2, <3>5 DEF OrderOK
    <3>6. ASSUME NEW t \in Stamped', NEW u \in Stamped', NEW v \in Stamped',
                 <<t, u>> \in older', <<u, v>> \in older'
          PROVE  <<t, v>> \in older'
      <4>1. CASE v = w
        BY <2>1, <3>2, <3>3, <3>6, <4>1
      <4>2. CASE v # w
        <5>1. <<u, v>> \in older
          BY <3>2, <3>6, <4>2
        <5>2. u \in Stamped /\ v \in Stamped /\ u # w
          BY <2>1, <3>3, <5>1
        <5>3. <<t, u>> \in older
          BY <3>2, <3>6, <5>2
        <5>4. <<t, v>> \in older
          BY <2>4, <3>3, <5>1, <5>2, <5>3 DEF OrderOK
        <5> QED
          BY <3>2, <5>4
      <4> QED
        BY <4>1, <4>2
    <3> QED
      BY <3>4, <3>5, <3>6 DEF OrderOK
  <2> QED
    BY <2>3, <2>4
<1>5. ASSUME NEW w \in Goroutines, HandedOver(w)
      PROVE  OrderOK'
  <2>1. Stamped' = Stamped \ {w} /\ older' = Without({w})
    BY <1>5, StampedAfter DEF TypeOK, HandedOver
  <2> QED
    BY <2>1, OrderWithout
<1>6. ASSUME NEW G \in SUBSET Goroutines, Restarted(G)
      PROVE  OrderOK'
  <2>1. Stamped' = Stamped \ G /\ older' = Without(G)
    BY <1>6, StampedAfter DEF TypeOK, Restarted
  <2> QED
    BY <2>1, OrderWithout
<1>7. CASE AppRestart \/ Restart
  BY <1>6, <1>7 DEF AppRestart, Restart, Goroutines
<1>8. CASE Loop \/ UNCHANGED vars \/ \E e \in Entities : Commit(e)
  BY <1>2, <1>8 DEF Loop, LoopOnce, Iterate, Send, ChunkDone, IterateFails, Finish,
     FinishReturns, Commit, vars, work
<1> QED
  BY <1>3, <1>4, <1>5, <1>7, <1>8
  DEF Next, Work, AppWork, Handle, Update, UpdateFails, Stopped, Goroutines

-----------------------------------------------------------------------------
(* What was sent is shown, or will be. *)

\* What a step that leaves the documents under way alone, but perhaps for
\* how far they are, does to what covers an entity.
LEMMA StampedKept ==
  ASSUME NEW e, NEW G,
         Stamped' = Stamped \ G, Workers \cap G = {},
         \A v \in Stamped' : job'[v].e = job[v].e /\ (Shows(v) => Shows(v)'),
         \A v, w \in Stamped' : <<v, w>> \in older' => <<v, w>> \in older,
         \A v \in Stamped' : v \in outdated' <=> v \in outdated,
         UNCHANGED start, docs'[e] = docs[e]
  PROVE  /\ \A w : Sure(w, e) => Sure(w, e)'
         /\ Shown(e) => Shown(e)'
<1>1. ASSUME NEW w, Sure(w, e)
      PROVE  Sure(w, e)'
  <2>1. w \in Workers \cap Stamped /\ w \in Stamped'
    BY <1>1 DEF Sure
  <2>2. w \notin outdated' /\ job'[w].e = e /\ Shows(w)'
    BY <1>1, <2>1 DEF Sure
  <2>3. \A v \in Stamped' : job'[v].e = e /\ <<w, v>> \in older' => Shows(v)'
    BY <1>1, <2>1 DEF Sure
  <2> QED
    BY <2>1, <2>2, <2>3 DEF Sure
<1>2. ASSUME Shown(e)
      PROVE  Shown(e)'
  BY <1>2 DEF Shown
<1> QED
  BY <1>1, <1>2

\* The server's worker that has an entity in its job keeps it.
LEMMA TakenKept ==
  ASSUME NEW e, Taken(e),
         \A w \in Workers : wpc[w] = "regenerate" => wpc'[w] = "regenerate" /\ job'[w] = job[w]
  PROVE  Taken(e)'
BY DEF Taken

LEMMA CoverAlone ==
  ASSUME NEW e, Covered(e), UNCHANGED <<wpc, job, older, outdated, start, docs>>,
         ToSet(ch) \subseteq ToSet(ch')
  PROVE  Covered(e)'
<1>1. UNCHANGED Stamped
  BY DEF Stamped
<1>2. \A w : UNCHANGED Shows(w)
  BY DEF Shows
<1>3. /\ \A w : Sure(w, e) => Sure(w, e)'
      /\ Shown(e) => Shown(e)'
  BY <1>1, <1>2 DEF Sure, Shown
<1>4. Taken(e) => Taken(e)'
  BY DEF Taken
<1> QED
  BY <1>3, <1>4 DEF Covered

LEMMA ReceiveCovers ==
  ASSUME TypeOK, NEW w \in Goroutines, Receive(w) \/ WorkerExit(w) \/ AppReceive(w),
         Receive(w) => w \in Workers,
         NEW e \in Registered, Covered(e)
  PROVE  Covered(e)'
<1>1. w \notin Stamped /\ Stamped' = Stamped
  BY StampedAfter DEF TypeOK
<1>2. /\ wpc[w] = "recv"
      /\ \A v \in Goroutines : v # w => wpc'[v] = wpc[v] /\ job'[v] = job[v]
      /\ UNCHANGED <<older, outdated, start, docs>>
  BY DEF Receive, WorkerExit, AppReceive, TypeOK, loop
<1>3. \A v \in Stamped' : wpc'[v] = wpc[v] /\ job'[v] = job[v]
  BY <1>1, <1>2 DEF Stamped
<1>4. /\ \A v : Sure(v, e) => Sure(v, e)'
      /\ Shown(e) => Shown(e)'
  <2>1. \A v \in Stamped' : job'[v].e = job[v].e /\ (Shows(v) => Shows(v)')
    BY <1>2, <1>3 DEF Shows
  <2>2. Stamped' = Stamped \ {} /\ Workers \cap {} = {}
    BY <1>1
  <2>3. UNCHANGED <<older, outdated, start>> /\ docs'[e] = docs[e]
    BY <1>2
  <2> QED
    BY <2>1, <2>2, <2>3, StampedKept
<1>5. Taken(e) => Taken(e)'
  <2>1. \A v \in Workers : wpc[v] = "regenerate" => wpc'[v] = "regenerate" /\ job'[v] = job[v]
    BY <1>2 DEF Goroutines
  <2> QED
    BY <2>1, TakenKept
<1>6. ASSUME e \in ToSet(ch)
      PROVE  e \in ToSet(ch') \/ Taken(e)'
  <2>1. CASE Receive(w)
    <3>1. ch # <<>> /\ ch' = Tail(ch) /\ ch \in Seq(Entities)
      BY <2>1 DEF Receive, TypeOK
    <3>2. e \in ToSet(ch') \/ Head(ch) = e
      BY <1>6, <3>1, HeadAndTail
    <3>3. CASE Head(ch) = e
      <4>1. wpc'[w] = "regenerate" /\ job'[w] = [e |-> e, data |-> 0]
        BY <2>1, <3>3 DEF Receive, TypeOK
      <4>2. job'[w].e = e
        BY <4>1
      <4> QED
        BY <2>1, <4>1, <4>2 DEF Taken
    <3> QED
      BY <3>2, <3>3
  <2>2. CASE WorkerExit(w) \/ AppReceive(w)
    BY <1>6, <2>2 DEF WorkerExit, AppReceive
  <2> QED
    BY <2>1, <2>2
<1> QED
  BY <1>4, <1>5, <1>6 DEF Covered

LEMMA RegenerateCovers ==
  ASSUME TypeOK, ~SkewedClocks, NEW w \in Goroutines, Regenerate(w), NEW e, Covered(e)
  PROVE  Covered(e)'
<1>1. w \notin Stamped /\ Stamped' = Stamped \cup {w}
  BY StampedAfter DEF TypeOK
<1>2. /\ older' = older \cup (Stamped \X {w})
      /\ UNCHANGED <<ch, docs, job, start, outdated>>
      /\ wpc'[w] = "query" /\ \A v \in Goroutines : v # w => wpc'[v] = wpc[v]
  BY DEF Regenerate, Stamp, TypeOK, loop
<1>3. older \subseteq Stamped \X Stamped /\ outdated \subseteq Stamped
  BY DEF TypeOK
<1>4. Shows(w)' /\ \A v \in Goroutines : v # w /\ Shows(v) => Shows(v)'
  BY <1>2 DEF Shows
<1>5. \A v : v \in Stamped' => v \in Goroutines
  BY DEF Stamped
<1>6. ASSUME NEW v, Sure(v, e)
      PROVE  Sure(v, e)'
  <2>1. v \in Workers \cap Stamped /\ v \in Stamped' /\ v # w
    BY <1>1, <1>6 DEF Sure
  <2>2. v \notin outdated' /\ job'[v].e = e /\ Shows(v)'
    BY <1>2, <1>4, <1>5, <1>6, <2>1 DEF Sure
  <2>3. ASSUME NEW u \in Stamped', job'[u].e = e, <<v, u>> \in older'
        PROVE  Shows(u)'
    <3>1. CASE u = w
      BY <1>4, <3>1
    <3>2. CASE u # w
      <4>1. <<v, u>> \in older /\ u \in Stamped
        BY <1>1, <1>2, <2>3, <3>2
      <4>2. Shows(u)
        BY <1>2, <1>6, <2>3, <4>1 DEF Sure
      <4> QED
        BY <1>4, <1>5, <3>2, <4>2
    <3> QED
      BY <3>1, <3>2
  <2> QED
    BY <2>1, <2>2, <2>3 DEF Sure
<1>7. ASSUME Shown(e)
      PROVE  Shown(e)'
  <2>1. \A v \in Stamped' \ outdated' : job'[v].e = e => Shows(v)'
    <3> SUFFICES ASSUME NEW v \in Stamped' \ outdated', job'[v].e = e
                 PROVE  Shows(v)'
      OBVIOUS
    <3>1. CASE v = w
      BY <1>4, <3>1
    <3>2. CASE v # w
      <4>1. v \in Stamped \ outdated /\ job[v].e = e
        BY <1>1, <1>2, <3>2
      <4> QED
        BY <1>4, <1>5, <1>7, <3>2, <4>1 DEF Shown
    <3> QED
      BY <3>1, <3>2
  <2> QED
    BY <1>2, <1>7, <2>1 DEF Shown
<1>8. ASSUME NEW v \in Workers, wpc[v] = "regenerate", job[v].e = e
      PROVE  Taken(e)' \/ Sure(v, e)'
  <2>1. CASE v = w
    <3>1. v \in Workers \cap Stamped' /\ v \notin outdated' /\ job'[v].e = e /\ Shows(v)'
      BY <1>1, <1>2, <1>3, <1>4, <1>8, <2>1
    <3>2. \A u : <<v, u>> \notin older'
      BY <1>1, <1>2, <1>3, <2>1
    <3> QED
      BY <3>1, <3>2 DEF Sure
  <2>2. CASE v # w
    <3>1. wpc'[v] = "regenerate" /\ job'[v] = job[v]
      BY <1>2, <1>8, <2>2 DEF Goroutines
    <3> QED
      BY <1>8, <3>1 DEF Taken
  <2> QED
    BY <2>1, <2>2
<1> QED
  BY <1>2, <1>6, <1>7, <1>8 DEF Covered, Taken

\* What Query reads is no older than the beginning of the cycle.
LEMMA QueryCovers ==
  ASSUME TypeOK, LoopOK, WorkOK, NEW w \in Goroutines, Query(w), NEW e, Covered(e)
  PROVE  Covered(e)'
<1>1. w \in Stamped /\ Stamped' = Stamped
  BY StampedAfter DEF TypeOK
<1>2. /\ UNCHANGED <<ch, docs, start, older, outdated>>
      /\ wpc[w] = "query" /\ \A v \in Goroutines : v # w => wpc'[v] = wpc[v] /\ job'[v] = job[v]
      /\ job'[w].e = job[w].e /\ job'[w].data = ver[job[w].e]
  BY DEF Query, TypeOK, loop
<1>3. job[w].e \in Entities
  BY <1>1, ServerConstants DEF WorkOK, Stamped
<1>4. Shows(w)'
  BY <1>2, <1>3 DEF Shows, LoopOK
<1>5. \A v \in Stamped' : job'[v].e = job[v].e /\ (Shows(v) => Shows(v)')
  BY <1>1, <1>2, <1>4 DEF Shows, Stamped
<1>6. Stamped' = Stamped \ {} /\ Workers \cap {} = {}
  BY <1>1
<1>7. /\ \A v : Sure(v, e) => Sure(v, e)'
      /\ Shown(e) => Shown(e)'
  <2>1. UNCHANGED <<older, outdated, start>> /\ docs'[e] = docs[e]
    BY <1>2
  <2> QED
    BY <1>5, <1>6, <2>1, StampedKept
<1>8. \A v \in Workers : wpc[v] = "regenerate" => wpc'[v] = "regenerate" /\ job'[v] = job[v]
  BY <1>2 DEF Goroutines
<1>9. Taken(e) => Taken(e)'
  BY <1>8, TakenKept
<1> QED
  BY <1>2, <1>7, <1>9 DEF Covered

\* Whether its document is accepted or refused, a goroutine that hands it over
\* leaves its entity shown, or to be.
LEMMA UpdateCovers ==
  ASSUME TypeOK, WorkOK, OrderOK, ~SkewedClocks, NEW w \in Goroutines, Update(w),
         NEW e \in Entities, Covered(e)
  PROVE  Covered(e)'
<1>1. w \in Stamped /\ Stamped' = Stamped \ {w}
  BY StampedAfter DEF TypeOK, Update
<1>2. /\ UNCHANGED <<ch, start>> /\ older' = Without({w})
      /\ wpc[w] = "update" /\ wpc'[w] = "recv"
      /\ \A v \in Goroutines : v # w => wpc'[v] = wpc[v] /\ job'[v] = job[v]
  BY DEF Update, HandedOver, TypeOK, loop
<1>3. \A v \in Stamped' : v \in Goroutines /\ v # w
  BY <1>1 DEF Stamped
<1>4. \A v \in Stamped' : job'[v].e = job[v].e /\ (Shows(v) => Shows(v)')
  BY <1>2, <1>3 DEF Shows
<1>5. \A u, v \in Stamped' : <<u, v>> \in older' <=> <<u, v>> \in older
  BY <1>1, <1>2 DEF Without
<1>6. Taken(e) => Taken(e)'
  <2>1. \A v \in Workers : wpc[v] = "regenerate" => wpc'[v] = "regenerate" /\ job'[v] = job[v]
    BY <1>2 DEF Goroutines
  <2> QED
    BY <2>1, TakenKept
<1>7. ASSUME NEW v, Sure(v, e), v # w, v \notin outdated'
      PROVE  Sure(v, e)'
  <2>1. v \in Workers \cap Stamped /\ v \in Stamped'
    BY <1>1, <1>7 DEF Sure
  <2>2. job'[v].e = e /\ Shows(v)'
    BY <1>4, <1>7, <2>1 DEF Sure
  <2>3. \A u \in Stamped' : job'[u].e = e /\ <<v, u>> \in older' => Shows(u)'
    BY <1>1, <1>4, <1>5, <1>7, <2>1 DEF Sure
  <2> QED
    BY <1>7, <2>1, <2>2, <2>3 DEF Sure
<1>8. CASE w \in outdated
  <2>1. outdated' = outdated \ {w} /\ docs' = docs
    BY <1>8 DEF Update
  <2>2. \A v : Sure(v, e) => v # w /\ v \notin outdated'
    BY <1>8, <2>1 DEF Sure
  <2>3. \A v \in Stamped' : v \in outdated' => v \in outdated
    BY <2>1
  <2>4. Shown(e) => Shown(e)'
    BY <1>1, <1>2, <1>3, <1>4, <2>1 DEF Shown
  <2> QED
    BY <1>2, <1>6, <1>7, <2>2, <2>4 DEF Covered
<1>9. CASE w \notin outdated
  <2>1. outdated' = outdated \cup Older(w) /\ docs' = [docs EXCEPT ![job[w].e] = job[w].data]
    BY <1>9 DEF Update
  <2>2. job[w].e \in Entities /\ docs \in [Entities -> 0..MaxVersion]
    BY <1>1, ServerConstants DEF WorkOK, Stamped, TypeOK
  <2>3. CASE job[w].e # e
    <3>1. \A v : job[v].e = e => v \notin Older(w) /\ v # w
      BY <2>3 DEF Older
    <3>2. docs'[e] = docs[e]
      BY <2>1, <2>2, <2>3
    <3>3. \A v : Sure(v, e) => v # w /\ v \notin outdated'
      BY <2>1, <3>1 DEF Sure
    <3>4. Shown(e) => Shown(e)'
      BY <1>1, <1>2, <1>3, <1>4, <2>1, <3>2 DEF Shown
    <3> QED
      BY <1>2, <1>6, <1>7, <3>3, <3>4 DEF Covered
  <2>4. CASE job[w].e = e
    <3>1. docs'[e] = job[w].data
      BY <2>1, <2>2, <2>4
    <3>2. ASSUME NEW u \in Stamped', u \notin outdated', job'[u].e = e
          PROVE  /\ u \in Stamped \ outdated /\ job[u].e = e /\ <<w, u>> \in older
                 /\ Shows(u) => Shows(u)'
      <4>1. u \in Stamped \ outdated /\ u # w /\ job[u].e = e
        BY <1>1, <1>4, <2>1, <3>2
      <4>2. <<u, w>> \notin older
        BY <2>1, <2>4, <3>2, <4>1 DEF Older
      <4>3. <<w, u>> \in older
        BY <1>1, <4>1, <4>2 DEF OrderOK
      <4> QED
        BY <1>4, <4>1, <4>3
    <3>3. ASSUME Shows(w), \A u \in Stamped \ outdated : job[u].e = e /\ <<w, u>> \in older => Shows(u)
          PROVE  Shown(e)'
      <4>1. start'[e] <= docs'[e]
        BY <1>2, <2>4, <3>1, <3>3 DEF Shows
      <4>2. \A u \in Stamped' \ outdated' : job'[u].e = e => Shows(u)'
        BY <3>2, <3>3
      <4> QED
        BY <4>1, <4>2 DEF Shown
    <3>4. ASSUME NEW v, Sure(v, e)
          PROVE  Sure(v, e)' \/ Shown(e)'
      <4>1. v \in Stamped /\ v \notin outdated /\ job[v].e = e /\ Shows(v)
        BY <3>4 DEF Sure
      <4>2. \A u \in Stamped : job[u].e = e /\ <<v, u>> \in older => Shows(u)
        BY <3>4 DEF Sure
      <4>3. CASE v = w
        BY <3>3, <4>1, <4>2, <4>3
      <4>4. CASE v # w /\ <<v, w>> \in older
        <5>1. Shows(w)
          BY <1>1, <2>4, <4>2, <4>4
        <5>2. \A u \in Stamped : <<w, u>> \in older => <<v, u>> \in older
          BY <1>1, <4>1, <4>4 DEF OrderOK
        <5> QED
          BY <3>3, <4>2, <5>1, <5>2
      <4>5. CASE v # w /\ <<v, w>> \notin older
        <5>1. v \notin outdated'
          BY <2>1, <4>1, <4>5 DEF Older
        <5> QED
          BY <1>7, <3>4, <4>5, <5>1
      <4> QED
        BY <4>3, <4>4, <4>5
    <3>5. Shown(e) => Shown(e)'
      <4>1. ASSUME Shown(e)
            PROVE  Shows(w) /\ \A u \in Stamped \ outdated : job[u].e = e => Shows(u)
        BY <1>1, <1>9, <2>4, <4>1 DEF Shown
      <4> QED
        BY <3>3, <4>1
    <3> QED
      BY <1>2, <1>6, <3>4, <3>5 DEF Covered
  <2> QED
    BY <2>3, <2>4
<1> QED
  BY <1>8, <1>9

\* An application that is killed takes no entity with it that the server has
\* in hand, or that the index shows.
LEMMA AppRestartCovers ==
  ASSUME TypeOK, AppRestart, NEW e, Covered(e)
  PROVE  Covered(e)'
<1>1. Restarted(AppWorkers) /\ UNCHANGED <<ch, start, docs>>
  BY DEF AppRestart, Restarted, loop
<1>2. Stamped' = Stamped \ AppWorkers /\ Workers \cap AppWorkers = {}
  BY <1>1, StampedAfter, ServerConstants DEF TypeOK, Goroutines
<1>3. \A v \in Goroutines \ AppWorkers : wpc'[v] = wpc[v] /\ job'[v] = job[v]
  BY <1>1 DEF Restarted
<1>4. \A v \in Stamped' : v \in Goroutines \ AppWorkers
  BY <1>2 DEF Stamped
<1>5. \A v \in Stamped' : job'[v].e = job[v].e /\ (Shows(v) => Shows(v)')
  BY <1>1, <1>3, <1>4 DEF Shows
<1>6. older' = Without(AppWorkers) /\ outdated' = outdated \ AppWorkers
  BY <1>1 DEF Restarted
<1>7. \A u, v \in Stamped' : <<u, v>> \in older' => <<u, v>> \in older
  BY <1>6 DEF Without
<1>8. \A v \in Stamped' : v \in outdated' <=> v \in outdated
  BY <1>4, <1>6
<1>9. /\ \A v : Sure(v, e) => Sure(v, e)'
      /\ Shown(e) => Shown(e)'
  BY <1>1, <1>2, <1>5, <1>7, <1>8, StampedKept
<1>10. \A v \in Workers : wpc'[v] = wpc[v] /\ job'[v] = job[v]
  BY <1>2, <1>3 DEF Goroutines
<1>11. Taken(e) => Taken(e)'
  BY <1>10, TakenKept
<1> QED
  BY <1>1, <1>9, <1>11 DEF Covered

LEMMA CoverStep ==
  ASSUME IInv, [Next]_vars
  PROVE  CoverOK'
<1> USE DEF IInv
<1> SUFFICES ASSUME ~SkewedClocks, failures' = 0, NEW e \in Registered \cap sent'
             PROVE  Covered(e)'
  BY DEF CoverOK
<1>1. failures = 0
  BY DEF Next, Loop, LoopOnce, Iterate, Send, ChunkDone, IterateFails, Finish, FinishReturns,
     Work, AppWork, Handle, Receive, WorkerExit, AppReceive, Regenerate, Query, Update,
     UpdateFails, AppRestart, Restart, Restarted, Commit, Stopped, vars, TypeOK
<1>2. e \in Entities /\ (e \in sent => Covered(e))
  BY <1>1, ServerConstants DEF CoverOK
<1>3. CASE UNCHANGED <<wpc, job, older, outdated, start, docs, ch, sent>>
  BY <1>2, <1>3, CoverAlone
<1>4. CASE Loop
  <2>1. CASE Send
    <3>1. ToSet(ch') = ToSet(ch) \cup {chunk[handled + 1]}
      <4>1. handled + 1 \in 1..Len(chunk)
        <5>1. Len(chunk) \in Nat /\ handled \in Nat /\ handled < Len(chunk)
          BY <2>1, LenProperties DEF Send, TypeOK
        <5> QED
          BY <5>1
      <4>2. chunk[handled + 1] \in Entities /\ ch \in Seq(Entities)
        BY <4>1, ElementOfSeq DEF TypeOK
      <4> QED
        BY <2>1, <4>2, Appended DEF Send
    <3>2. e \in sent \/ e = chunk[handled + 1]
      BY <2>1 DEF Send
    <3>3. CASE e \in sent
      BY <1>2, <2>1, <3>1, <3>3, CoverAlone DEF Send, work
    <3>4. CASE e = chunk[handled + 1]
      BY <3>1, <3>4 DEF Covered
    <3> QED
      BY <3>2, <3>3, <3>4
  <2>2. CASE LoopOnce
    BY <2>2 DEF LoopOnce
  <2>3. CASE IterateFails
    BY <1>1, <2>3 DEF IterateFails
  <2>4. CASE Iterate \/ ChunkDone \/ Finish \/ FinishReturns
    BY <1>3, <2>4 DEF Iterate, ChunkDone, Finish, FinishReturns, work
  <2> QED
    BY <1>4, <2>1, <2>2, <2>3, <2>4 DEF Loop
<1>5. ASSUME NEW w \in Goroutines, Receive(w) \/ WorkerExit(w) \/ AppReceive(w),
             Receive(w) => w \in Workers
      PROVE  Covered(e)'
  <2>1. sent' = sent
    BY <1>5 DEF Receive, WorkerExit, AppReceive, loop
  <2> QED
    BY <1>2, <1>5, <2>1, ReceiveCovers
<1>6. ASSUME NEW w \in Goroutines, Handle(w)
      PROVE  Covered(e)'
  <2>1. sent' = sent /\ ~UpdateFails(w)
    BY <1>1, <1>6 DEF Handle, Regenerate, Query, Update, UpdateFails, loop
  <2> QED
    BY <1>2, <1>6, <2>1, RegenerateCovers, QueryCovers, UpdateCovers DEF Handle
<1>7. CASE AppRestart
  BY <1>2, <1>7, AppRestartCovers DEF AppRestart, loop
<1>8. CASE Restart
  BY <1>8 DEF Restart
<1>9. CASE UNCHANGED vars \/ \E f \in Entities : Commit(f)
  BY <1>3, <1>9 DEF vars, Commit, loop, work
<1>10. ASSUME NEW w \in Workers, Work(w)
       PROVE  Covered(e)'
  BY <1>5, <1>6, <1>10 DEF Work, Goroutines
<1>11. ASSUME NEW a \in AppWorkers, AppWork(a)
       PROVE  Covered(e)'
  <2>1. CASE Handle(a)
    BY <1>6, <2>1 DEF Goroutines
  <2>2. CASE AppReceive(a)
    <3>1. CASE Receive(a)
      <4>1. ch' = ch /\ ch' = Tail(ch) /\ ch # <<>> /\ ch \in Seq(Entities)
        BY <2>2, <3>1 DEF AppReceive, Receive, TypeOK
      <4>2. Len(Tail(ch)) = Len(ch) - 1 /\ Len(ch) \in Nat
        BY <4>1, HeadTailProperties, LenProperties
      <4> QED
        BY <4>1, <4>2
    <3>2. CASE ~Receive(a)
      BY <1>5, <2>2, <3>2 DEF Goroutines
    <3> QED
      BY <3>1, <3>2
  <2> QED
    BY <1>11, <2>1, <2>2 DEF AppWork
<1> QED
  BY <1>4, <1>7, <1>8, <1>9, <1>10, <1>11 DEF Next, Stopped

-----------------------------------------------------------------------------
(* The theorems. *)

LEMMA IInvInductive == Spec => []IInv
<1>1. IInv /\ [Next]_vars => IInv'
  BY TypeStep, LoopStep, WorkStep, OrderStep, CoverStep DEF IInv
<1> QED
  BY InitIInv, <1>1, PTL DEF Spec

\* Every variable of the server, of the applications and of the engine keeps
\* its type: no more is on the channel than it holds, no chunk has an entity
\* twice, and only documents under way are ordered or refused.
THEOREM TypeCorrect == Spec => []TypeOK
BY IInvInductive, PTL DEF IInv

\* LoopOnce skips no entity that was stored when it began, at a seam of two
\* chunks or at the end, for each chunk size and both ways of reading a chunk.
THEOREM SkipsNothing == Spec => []NothingSkipped
<1>1. ASSUME IInv
      PROVE  NothingSkipped
  <2> USE <1>1 DEF IInv
  <2>1. \A e \in Entities : start[e] > 0 /\ lpc = "iterate" /\ e <= from => e \in sent
    BY DEF LoopOK
  <2>2. \A e \in Entities :
          start[e] > 0 /\ lpc = "scan" /\ handled = Len(chunk) /\ chunk = <<>> => e \in sent
    BY Passed
  <2> QED
    BY <2>1, <2>2 DEF NothingSkipped
<1> QED
  BY IInvInductive, <1>1, PTL

\* After LoopOnce and Finish without a failure the index shows every entity as
\* it was when the loop began, or newer, whatever the applications committed,
\* indexed and lost meanwhile: for goroutines whose clocks agree.
THEOREM FreshWhenFinished ==
  ASSUME ~SkewedClocks
  PROVE  Spec => []FreshAfterFinish
<1>1. ASSUME IInv
      PROVE  FreshAfterFinish
  <2> USE <1>1 DEF IInv
  <2> SUFFICES ASSUME lpc = "finished", failures = 0, NEW e \in Registered
               PROVE  docs[e] >= start[e]
    BY DEF FreshAfterFinish
  <2>1. \A w \in Workers : wpc[w] = "done" /\ w \in Goroutines
    BY DEF WorkOK, Goroutines
  <2>2. ch = <<>>
    BY <2>1, ServerConstants DEF WorkOK
  <2>3. ToSet(ch) = {}
    BY <2>2 DEF ToSet
  <2>4. start[e] \in Nat /\ docs[e] \in Nat /\ e \in Entities
    BY ServerConstants DEF TypeOK
  <2>5. CASE start[e] = 0
    BY <2>4, <2>5
  <2>6. CASE start[e] # 0
    <3>1. start[e] > 0
      BY <2>4, <2>6
    <3>2. e \in sent
      BY <2>4, <3>1 DEF LoopOK
    <3>3. Covered(e)
      BY <3>2 DEF CoverOK
    <3>4. Shown(e)
      BY <2>1, <2>3, <3>3 DEF Covered, Taken, Sure, Stamped
    <3> QED
      BY <2>4, <3>4 DEF Shown
  <2> QED
    BY <2>5, <2>6
<1> QED
  BY IInvInductive, <1>1, PTL


-----------------------------------------------------------------------------
(* The refinement.  The history variables only watch. *)

\* Every step is one of IndexServer.
LEMMA WatchedStep == [HNext]_hvars => [Next]_vars
BY DEF HNext, hvars, Begin, Show, Lose, StartOver, Elsewhere, AppRestart, Next, Work, AppWork,
   Handle, Goroutines

\* So what was proved of IndexServer holds here.
LEMMA WatchedSpec == HSpec => []IInv
<1>1. HInit => Init
  BY DEF HInit
<1>2. HSpec => Spec
  BY <1>1, WatchedStep, PTL DEF HSpec, Spec
<1> QED
  BY <1>2, IInvInductive, PTL

-----------------------------------------------------------------------------
(* The inductive invariant of the step simulation. *)

\* A document shows no more than the store has, and what was promised of it;
Written(e) == floor[e] <= docs[e] /\ docs[e] <= ver[e]

\* one under way shows what was there when it was begun, or newer;
ReadSince(w) ==
  w \in Stamped =>
    /\ began[w] <= ver[job[w].e]
    /\ wpc[w] = "update" => began[w] <= job[w].data /\ job[w].data <= ver[job[w].e]

\* one that will be accepted was begun after the floor was laid;
AboveFloor(w) == w \in Stamped \ outdated => floor[job[w].e] <= began[w]

\* and of two documents of an entity the one stamped later was begun later.
BegunInOrder(v, w) ==
  v \in Stamped /\ w \in Stamped /\ <<v, w>> \in older /\ job[v].e = job[w].e =>
    began[v] <= began[w]

HistoryInv ==
  /\ began \in [Goroutines -> Nat] /\ floor \in [Entities -> Nat]
  /\ \A e \in Entities : Written(e)
  /\ \A w \in Goroutines : ReadSince(w) /\ AboveFloor(w)
  /\ \A v, w \in Goroutines : BegunInOrder(v, w)

\* At first nothing is begun, shown or promised.
LEMMA HistoryInit == HInit => HistoryInv
<1> SUFFICES ASSUME HInit
             PROVE  HistoryInv
  OBVIOUS
<1>1. began \in [Goroutines -> Nat] /\ floor \in [Entities -> Nat]
  BY DEF HInit
<1>2. Stamped = {}
  BY DEF HInit, Init, Stamped
<1>3. \A e \in Entities : Written(e)
  <2>1. ASSUME NEW e \in Entities PROVE Written(e)
    <3>1. floor[e] = 0 /\ docs[e] = 0 /\ ver[e] \in 0..MaxVersion
      BY ServerConstants DEF HInit, Init
    <3> QED
      BY <3>1, ServerConstants DEF Written
  <2> QED
    BY <2>1
<1> QED
  BY <1>1, <1>2, <1>3 DEF HistoryInv, ReadSince, AboveFloor, BegunInOrder

\* A document under way is of an entity, that of a Go routine's job.
LEMMA StampedJob ==
  ASSUME TypeOK, WorkOK, NEW w \in Stamped
  PROVE  w \in Goroutines /\ job[w].e \in Registered /\ job[w].e \in Entities
BY ServerConstants DEF WorkOK, Stamped

\* A step in which no document is begun or read, and none indexed.
LEMMA QuietStep ==
  ASSUME HistoryInv, UNCHANGED <<ver, docs, floor>>,
         began' \in [Goroutines -> Nat], Stamped' \subseteq Stamped,
         \A v \in Stamped' : wpc'[v] = wpc[v] /\ job'[v] = job[v] /\ began'[v] = began[v],
         \A v, w \in Stamped' : <<v, w>> \in older' => <<v, w>> \in older,
         \A v \in Stamped' : v \in outdated => v \in outdated'
  PROVE  HistoryInv'
<1>1. \A e \in Entities : Written(e)'
  BY DEF HistoryInv, Written
<1>2. \A w \in Goroutines : ReadSince(w)' /\ AboveFloor(w)'
  BY DEF HistoryInv, ReadSince, AboveFloor
<1>3. \A v, w \in Goroutines : BegunInOrder(v, w)'
  BY DEF HistoryInv, BegunInOrder
<1> QED
  BY <1>1, <1>2, <1>3 DEF HistoryInv

\* A goroutine stamps a document: after every other one.
LEMMA BeginStep ==
  ASSUME IInv, HistoryInv, ~SkewedClocks, NEW w \in Goroutines, Begin(w)
  PROVE  HistoryInv'
<1> USE DEF IInv
<1>1. Regenerate(w)
  BY DEF Begin
<1>2. w \notin Stamped /\ Stamped' = Stamped \cup {w}
  BY <1>1, StampedAfter DEF TypeOK
<1>3. /\ UNCHANGED <<ver, docs, floor, job, outdated>>
      /\ older' = older \cup (Stamped \X {w}) /\ older \subseteq Stamped \X Stamped
      /\ wpc[w] = "regenerate" /\ wpc'[w] = "query"
      /\ \A v \in Goroutines : v # w => wpc'[v] = wpc[v]
  BY <1>1 DEF Begin, Regenerate, Stamp, TypeOK
<1>4. job[w].e \in Entities
  BY <1>3, ServerConstants DEF WorkOK
<1>5. ver[job[w].e] \in Nat /\ docs[job[w].e] \in Nat /\ floor[job[w].e] \in Nat
  BY <1>4 DEF TypeOK, HistoryInv
<1>6. /\ began' \in [Goroutines -> Nat] /\ began'[w] = ver[job[w].e]
      /\ \A v \in Goroutines : v # w => began'[v] = began[v]
  BY <1>5 DEF Begin, HistoryInv
<1>7. \A e \in Entities : Written(e)'
  BY <1>3 DEF HistoryInv, Written
<1>8. ReadSince(w)' /\ AboveFloor(w)'
  <2>1. floor[job[w].e] <= docs[job[w].e] /\ docs[job[w].e] <= ver[job[w].e]
    BY <1>4 DEF HistoryInv, Written
  <2>2. floor[job[w].e] <= ver[job[w].e]
    BY <1>5, <2>1
  <2> QED
    BY <1>3, <1>5, <1>6, <2>2 DEF ReadSince, AboveFloor
<1>9. ASSUME NEW v \in Goroutines, v # w
      PROVE  ReadSince(v)' /\ AboveFloor(v)'
  BY <1>2, <1>3, <1>6, <1>9 DEF HistoryInv, ReadSince, AboveFloor
<1>10. ASSUME NEW u \in Goroutines, NEW v \in Goroutines
       PROVE  BegunInOrder(u, v)'
  <2> SUFFICES ASSUME u \in Stamped', v \in Stamped', <<u, v>> \in older', job'[u].e = job'[v].e
               PROVE  began'[u] <= began'[v]
    BY DEF BegunInOrder
  <2>1. u \in Stamped /\ u # w /\ (v = w \/ (v \in Stamped /\ v # w /\ <<u, v>> \in older))
    BY <1>2, <1>3
  <2>2. CASE v = w
    BY <1>3, <1>6, <2>1, <2>2 DEF HistoryInv, ReadSince
  <2>3. CASE v # w
    BY <1>3, <1>6, <2>1, <2>3 DEF HistoryInv, BegunInOrder
  <2> QED
    BY <2>2, <2>3
<1>11. floor' \in [Entities -> Nat]
  BY <1>3 DEF HistoryInv
<1> QED
  BY <1>6, <1>7, <1>8, <1>9, <1>10, <1>11 DEF HistoryInv

\* What a goroutine that hands over its document knows of it.
LEMMA Accepted ==
  ASSUME IInv, HistoryInv, NEW w \in Goroutines, Show(w), w \notin outdated
  PROVE  \E e \in Entities :
           /\ e = job[w].e /\ w \in Stamped
           /\ docs' = [docs EXCEPT ![e] = job[w].data]
           /\ floor' = [floor EXCEPT ![e] = began[w]]
           /\ outdated' = outdated \cup Older(w) /\ UNCHANGED ver
           /\ floor[e] <= began[w] /\ began[w] <= job[w].data /\ job[w].data <= ver[e]
           /\ docs \in [Entities -> 0..MaxVersion] /\ floor \in [Entities -> Nat]
<1> USE DEF IInv
<1>1. HandedOver(w) /\ wpc[w] = "update"
  BY DEF Show, Update, HandedOver
<1>2. w \in Stamped
  BY <1>1, StampedAfter DEF TypeOK
<1>3. job[w].e \in Entities
  BY <1>2, StampedJob
<1>4. /\ docs' = [docs EXCEPT ![job[w].e] = job[w].data]
      /\ floor' = [floor EXCEPT ![job[w].e] = began[w]]
      /\ outdated' = outdated \cup Older(w) /\ UNCHANGED ver
  BY DEF Show, Update
<1>5. floor[job[w].e] <= began[w] /\ began[w] <= job[w].data /\ job[w].data <= ver[job[w].e]
  BY <1>1, <1>2 DEF HistoryInv, AboveFloor, ReadSince
<1>6. docs \in [Entities -> 0..MaxVersion] /\ floor \in [Entities -> Nat]
  BY DEF TypeOK, HistoryInv
<1> QED
  BY <1>2, <1>3, <1>4, <1>5, <1>6

\* A document is accepted or refused; its goroutine has none any more.
LEMMA ShowStep ==
  ASSUME IInv, HistoryInv, ~SkewedClocks, NEW w \in Goroutines, Show(w)
  PROVE  HistoryInv'
<1> USE DEF IInv
<1>1. HandedOver(w) /\ Update(w)
  BY DEF Show, Update
<1>2. w \in Stamped /\ Stamped' = Stamped \ {w}
  BY <1>1, StampedAfter DEF TypeOK
<1>3. \A v \in Stamped' : v \in Goroutines /\ v # w /\ v \in Stamped
  BY <1>2 DEF Stamped
<1>4. began' \in [Goroutines -> Nat]
  BY DEF Show, HistoryInv
<1>5. \A v \in Stamped' : wpc'[v] = wpc[v] /\ job'[v] = job[v] /\ began'[v] = began[v]
  BY <1>1, <1>3 DEF Show, HandedOver, TypeOK, HistoryInv
<1>6. \A u, v \in Stamped' : <<u, v>> \in older' => <<u, v>> \in older
  BY <1>1 DEF HandedOver, Without
<1>7. CASE w \in outdated
  <2>1. UNCHANGED <<ver, docs, floor>> /\ outdated' = outdated \ {w}
    BY <1>1, <1>7 DEF Show, Update
  <2>2. \A v \in Stamped' : v \in outdated => v \in outdated'
    BY <1>3, <2>1
  <2> QED
    BY <1>2, <1>4, <1>5, <1>6, <2>1, <2>2, QuietStep
<1>8. CASE w \notin outdated
  <2>1. PICK e \in Entities :
           /\ e = job[w].e /\ w \in Stamped
           /\ docs' = [docs EXCEPT ![e] = job[w].data]
           /\ floor' = [floor EXCEPT ![e] = began[w]]
           /\ outdated' = outdated \cup Older(w) /\ UNCHANGED ver
           /\ floor[e] <= began[w] /\ began[w] <= job[w].data /\ job[w].data <= ver[e]
           /\ docs \in [Entities -> 0..MaxVersion] /\ floor \in [Entities -> Nat]
    BY <1>8, Accepted
  <2>2. floor' \in [Entities -> Nat]
    BY <2>1 DEF HistoryInv
  <2>3. floor'[e] = began[w] /\ docs'[e] = job[w].data
    BY <2>1
  <2>4. \A d \in Entities : d # e => floor'[d] = floor[d] /\ docs'[d] = docs[d]
    BY <2>1
  <2>5. ASSUME NEW d \in Entities PROVE Written(d)'
    <3>1. CASE d = e
      BY <2>1, <2>3, <3>1 DEF Written
    <3>2. CASE d # e
      BY <2>1, <2>4, <3>2 DEF HistoryInv, Written
    <3> QED
      BY <3>1, <3>2
  <2>6. ASSUME NEW v \in Goroutines PROVE ReadSince(v)'
    BY <1>3, <1>5, <2>1 DEF HistoryInv, ReadSince
  <2>7. ASSUME NEW v \in Goroutines PROVE AboveFloor(v)'
    <3> SUFFICES ASSUME v \in Stamped', v \notin outdated'
                 PROVE  floor'[job[v].e] <= began[v]
      BY <1>5 DEF AboveFloor
    <3>1. v \in Stamped /\ v # w /\ v \notin outdated /\ v \notin Older(w)
      BY <1>3, <2>1
    <3>2. CASE job[v].e = e
      <4>1. <<v, w>> \notin older
        BY <2>1, <3>1, <3>2 DEF Older
      <4>2. <<w, v>> \in older
        BY <1>2, <3>1, <4>1 DEF OrderOK
      <4>3. began[w] <= began[v]
        BY <1>2, <2>1, <3>1, <3>2, <4>2 DEF HistoryInv, BegunInOrder
      <4> QED
        BY <2>3, <3>2, <4>3
    <3>3. CASE job[v].e # e
      <4>1. job[v].e \in Entities
        BY <3>1, StampedJob
      <4>2. floor[job[v].e] <= began[v]
        BY <3>1 DEF HistoryInv, AboveFloor
      <4> QED
        BY <2>4, <3>3, <4>1, <4>2
    <3> QED
      BY <3>2, <3>3
  <2>8. ASSUME NEW u \in Goroutines, NEW v \in Goroutines PROVE BegunInOrder(u, v)'
    BY <1>3, <1>5, <1>6 DEF HistoryInv, BegunInOrder
  <2> QED
    BY <1>4, <2>2, <2>5, <2>6, <2>7, <2>8 DEF HistoryInv
<1> QED
  BY <1>7, <1>8

\* What is read is at least what was there when the document was begun.
LEMMA QueryStep ==
  ASSUME IInv, HistoryInv, NEW w \in Goroutines, Query(w), UNCHANGED <<began, floor>>
  PROVE  HistoryInv'
<1> USE DEF IInv
<1>1. w \in Stamped /\ Stamped' = Stamped
  BY StampedAfter DEF TypeOK
<1>2. /\ UNCHANGED <<ver, docs, older, outdated>>
      /\ \A v \in Goroutines : v # w => wpc'[v] = wpc[v] /\ job'[v] = job[v]
      /\ job'[w].e = job[w].e /\ job'[w].data = ver[job[w].e]
  BY DEF Query, TypeOK
<1>3. ver[job[w].e] \in Nat
  BY <1>1, StampedJob DEF TypeOK
<1>4. \A e \in Entities : Written(e)'
  BY <1>2 DEF HistoryInv, Written
<1>5. ReadSince(w)'
  <2>1. began[w] <= ver[job[w].e] /\ ver[job[w].e] <= ver[job[w].e]
    BY <1>1, <1>3 DEF HistoryInv, ReadSince
  <2> QED
    BY <1>2, <2>1 DEF ReadSince
<1>6. \A v \in Goroutines : v # w => ReadSince(v)'
  BY <1>1, <1>2 DEF HistoryInv, ReadSince
<1>7. \A v \in Goroutines : job'[v].e = job[v].e
  BY <1>2
<1>8. \A v \in Goroutines : AboveFloor(v)'
  BY <1>1, <1>2, <1>7 DEF HistoryInv, AboveFloor
<1>9. \A u, v \in Goroutines : BegunInOrder(u, v)'
  BY <1>1, <1>2, <1>7 DEF HistoryInv, BegunInOrder
<1>10. began' \in [Goroutines -> Nat] /\ floor' \in [Entities -> Nat]
  BY DEF HistoryInv
<1> QED
  BY <1>4, <1>5, <1>6, <1>8, <1>9, <1>10 DEF HistoryInv

\* A commit raises a version, and nothing else the invariant speaks of.
LEMMA CommitStep ==
  ASSUME IInv, HistoryInv, NEW e \in Entities, Commit(e), UNCHANGED <<began, floor>>
  PROVE  HistoryInv'
<1> USE DEF IInv
<1>1. UNCHANGED <<wpc, job, docs, older, outdated>>
  BY DEF Commit, work
<1>2. Stamped' = Stamped
  BY <1>1, StampedAfter DEF TypeOK
<1>3. \A d \in Entities : ver[d] \in Nat /\ ver'[d] \in Nat /\ ver[d] <= ver'[d]
  BY SMTT(30) DEF Commit, TypeOK
<1>4. \A d \in Entities : docs[d] \in Nat
  BY DEF TypeOK
<1>5. \A d \in Entities : Written(d)'
  BY <1>1, <1>3, <1>4 DEF HistoryInv, Written
<1>6. ASSUME NEW w \in Goroutines PROVE ReadSince(w)'
  <2> SUFFICES ASSUME w \in Stamped
               PROVE  /\ began[w] <= ver'[job[w].e]
                      /\ wpc[w] = "update" =>
                           began[w] <= job[w].data /\ job[w].data <= ver'[job[w].e]
    BY <1>1, <1>2 DEF ReadSince
  <2>1. job[w].e \in Entities
    BY StampedJob
  <2>2. began[w] \in Nat /\ job[w].data \in Nat
    BY JobHas DEF HistoryInv, TypeOK, Job
  <2>3. /\ began[w] <= ver[job[w].e]
        /\ wpc[w] = "update" => began[w] <= job[w].data /\ job[w].data <= ver[job[w].e]
    BY DEF HistoryInv, ReadSince
  <2> QED
    BY <1>3, <2>1, <2>2, <2>3
<1>7. \A v \in Goroutines : AboveFloor(v)'
  BY <1>1, <1>2 DEF HistoryInv, AboveFloor
<1>8. \A u, v \in Goroutines : BegunInOrder(u, v)'
  BY <1>1, <1>2 DEF HistoryInv, BegunInOrder
<1>9. began' \in [Goroutines -> Nat] /\ floor' \in [Entities -> Nat]
  BY DEF HistoryInv
<1> QED
  BY <1>5, <1>6, <1>7, <1>8, <1>9 DEF HistoryInv

\* Every step preserves the invariant.
LEMMA HistoryStep ==
  ASSUME ~SkewedClocks, IInv, HistoryInv, [HNext]_hvars
  PROVE  HistoryInv'
<1> USE DEF IInv
<1>1. ASSUME NEW w \in Goroutines, Begin(w) \/ Show(w) PROVE HistoryInv'
  BY <1>1, BeginStep, ShowStep
<1>2. ASSUME NEW w \in Goroutines, Lose(w) PROVE HistoryInv'
  <2>1. HandedOver(w) /\ outdated' = outdated \ {w} /\ UNCHANGED <<ver, docs, floor>>
    BY <1>2 DEF Lose, UpdateFails
  <2>2. Stamped' = Stamped \ {w}
    BY <2>1, StampedAfter DEF TypeOK
  <2>3. \A v \in Stamped' : v \in Goroutines /\ v # w
    BY <2>2 DEF Stamped
  <2>4. \A v \in Stamped' : wpc'[v] = wpc[v] /\ job'[v] = job[v] /\ began'[v] = began[v]
    BY <1>2, <2>1, <2>3 DEF Lose, HandedOver, TypeOK, HistoryInv
  <2>5. \A u, v \in Stamped' : <<u, v>> \in older' => <<u, v>> \in older
    BY <2>1 DEF HandedOver, Without
  <2>6. \A v \in Stamped' : v \in outdated => v \in outdated'
    BY <2>1, <2>3
  <2>7. began' \in [Goroutines -> Nat]
    BY <1>2 DEF Lose, HistoryInv
  <2> QED
    BY <2>1, <2>2, <2>4, <2>5, <2>6, <2>7, QuietStep
<1>3. CASE StartOver
  <2>1. PICK G \in SUBSET Goroutines : Restarted(G)
    BY <1>3 DEF StartOver, Restart, AppRestart, Goroutines
  <2>2. Stamped' = Stamped \ G
    BY <2>1, StampedAfter DEF TypeOK
  <2>3. \A v \in Stamped' : v \in Goroutines /\ v \notin G /\ v \in Stamped
    BY <2>2 DEF Stamped
  <2>4. \A v \in Stamped' : wpc'[v] = wpc[v] /\ job'[v] = job[v]
    BY <2>1, <2>3 DEF Restarted
  <2>5. \A v \in Stamped' : job'[v] # NoJob
    <3> SUFFICES ASSUME NEW v \in Stamped', job[v] = NoJob
                 PROVE  FALSE
      BY <2>4
    <3>1. job[v].e = 0
      BY DEF NoJob
    <3>2. job[v].e \in Entities
      BY <2>3, StampedJob
    <3> QED
      BY <3>1, <3>2, ServerConstants
  <2>6. began' = [w \in Goroutines |-> IF job'[w] = NoJob THEN 0 ELSE began[w]]
    BY <1>3 DEF StartOver
  <2>7. \A v \in Stamped' : began'[v] = began[v]
    BY <2>3, <2>5, <2>6
  <2>8. began' \in [Goroutines -> Nat]
    BY <2>6 DEF HistoryInv
  <2>9. UNCHANGED <<ver, docs, floor>> /\ older' = Without(G) /\ outdated' = outdated \ G
    BY <1>3, <2>1 DEF StartOver, Restarted
  <2>10. \A u, v \in Stamped' : <<u, v>> \in older' => <<u, v>> \in older
    BY <2>9 DEF Without
  <2>11. \A v \in Stamped' : v \in outdated => v \in outdated'
    BY <2>3, <2>9
  <2> QED
    BY <2>2, <2>4, <2>7, <2>8, <2>9, <2>10, <2>11, QuietStep
<1>4. ASSUME UNCHANGED <<ver, docs, wpc, job, older, outdated, began, floor>>
      PROVE  HistoryInv'
  <2>1. Stamped' = Stamped
    BY <1>4, StampedAfter DEF TypeOK
  <2>2. began' \in [Goroutines -> Nat]
    BY <1>4 DEF HistoryInv
  <2> QED
    BY <1>4, <2>1, <2>2, QuietStep
<1>5. CASE Elsewhere
  <2>1. UNCHANGED <<began, floor>> /\ began' \in [Goroutines -> Nat]
    BY <1>5 DEF Elsewhere, HistoryInv
  <2>2. ASSUME NEW e \in Entities, Commit(e) PROVE HistoryInv'
    BY <2>1, <2>2, CommitStep
  <2>3. ASSUME NEW w \in Goroutines, Query(w) PROVE HistoryInv'
    BY <2>1, <2>3, QueryStep
  <2>4. ASSUME NEW w \in Goroutines, Receive(w) \/ WorkerExit(w) \/ AppReceive(w)
        PROVE  HistoryInv'
    <3>1. w \notin Stamped /\ Stamped' = Stamped
      BY <2>4, StampedAfter DEF TypeOK
    <3>2. /\ UNCHANGED <<ver, docs, older, outdated>>
          /\ \A v \in Goroutines : v # w => wpc'[v] = wpc[v] /\ job'[v] = job[v]
      BY <2>4 DEF Receive, WorkerExit, AppReceive, TypeOK
    <3>3. \A v \in Stamped' : wpc'[v] = wpc[v] /\ job'[v] = job[v] /\ began'[v] = began[v]
      BY <2>1, <3>1, <3>2 DEF Stamped
    <3> QED
      BY <2>1, <3>1, <3>2, <3>3, QuietStep
  <2>5. CASE Loop \/ Stopped
    BY <1>4, <2>1, <2>5 DEF Loop, LoopOnce, Iterate, Send, ChunkDone, IterateFails, Finish,
       FinishReturns, Stopped, vars, work
  <2> QED
    BY <1>5, <2>2, <2>3, <2>4, <2>5 DEF Elsewhere, Goroutines
<1>6. CASE UNCHANGED hvars
  BY <1>4, <1>6 DEF hvars, vars, work
<1> QED
  BY <1>1, <1>2, <1>3, <1>5, <1>6 DEF HNext

-----------------------------------------------------------------------------
(* The step simulation. *)

LEMMA SimulatesInit == HInit => Index!Init
<1> SUFFICES ASSUME HInit
             PROVE  Index!Init
  OBVIOUS
<1>1. ver \in [Entities -> Nat]
  BY ServerConstants DEF HInit, Init
<1>2. \A e \in Entities : docs[e] = 0 /\ floor[e] = 0
  BY DEF HInit, Init
<1>3. \A e \in Entities : Only(e, 0) = Index!Nothing
  BY DEF Only, Index!Nothing
<1> QED
  BY <1>1, <1>2, <1>3 DEF Index!Init

\* A step that changes neither store nor documents is a stutter.
LEMMA SimulatesQuiet ==
  ASSUME UNCHANGED <<ver, docs, floor>>
  PROVE  UNCHANGED Index!vars
BY DEF Index!vars

\* A commit is a commit of one entity.
LEMMA SimulatesCommit ==
  ASSUME TypeOK, NEW e \in Entities, Commit(e), UNCHANGED floor
  PROVE  Index!Next
<1>1. ver' = [d \in Entities |-> IF d \in {e} THEN ver[d] + 1 ELSE ver[d]]
  BY DEF Commit, TypeOK
<1>2. UNCHANGED docs
  BY DEF Commit
<1>3. Index!Commit({e})
  BY <1>1, <1>2 DEF Index!Commit
<1> QED
  BY <1>3 DEF Index!Next

\* A document that the engine accepts is a Refresh.
LEMMA SimulatesShow ==
  ASSUME IInv, HistoryInv, NEW w \in Goroutines, Show(w)
  PROVE  Index!Next \/ UNCHANGED Index!vars
<1>1. CASE w \in outdated
  BY <1>1, SimulatesQuiet DEF Show, Update
<1>2. CASE w \notin outdated
  <2>1. PICK e \in Entities :
           /\ e = job[w].e /\ w \in Stamped
           /\ docs' = [docs EXCEPT ![e] = job[w].data]
           /\ floor' = [floor EXCEPT ![e] = began[w]]
           /\ outdated' = outdated \cup Older(w) /\ UNCHANGED ver
           /\ floor[e] <= began[w] /\ began[w] <= job[w].data /\ job[w].data <= ver[e]
           /\ docs \in [Entities -> 0..MaxVersion] /\ floor \in [Entities -> Nat]
    BY <1>2, Accepted
  <2>2. floor'[e] = began[w] /\ docs'[e] = job[w].data
    BY <2>1
  <2>3. \A d \in Entities : d # e => floor'[d] = floor[d] /\ docs'[d] = docs[d]
    BY <2>1
  <2>4. \A v : Only(e, v)[e] = v
    BY DEF Only
  <2>5. Index!Between(e)
    <3>1. floor[e] <= floor'[e] /\ floor'[e] <= docs'[e] /\ docs'[e] <= ver[e]
      BY <2>1, <2>2
    <3> QED
      BY <2>4, <3>1 DEF Index!Between, Only
  <2>6. [x \in Entities |-> Only(x, docs'[x])] =
          [[x \in Entities |-> Only(x, docs[x])] EXCEPT ![e] =
              [x \in Entities |-> Only(x, docs'[x])][e]]
    BY <2>3
  <2>7. [x \in Entities |-> Only(x, floor'[x])] =
          [[x \in Entities |-> Only(x, floor[x])] EXCEPT ![e] =
              [x \in Entities |-> Only(x, floor'[x])][e]]
    BY <2>3
  <2>8. Index!Refresh(e)
    BY <2>1, <2>5, <2>6, <2>7 DEF Index!Refresh, Only
  <2> QED
    BY <2>8 DEF Index!Next
<1> QED
  BY <1>1, <1>2

\* Every step of server and applications is one of RegularIndex, or a stutter.
LEMMA SimulatesStep ==
  ASSUME IInv, HistoryInv, [HNext]_hvars
  PROVE  [Index!Next]_(Index!vars)
<1>1. ASSUME NEW w \in Goroutines, Show(w) PROVE Index!Next \/ UNCHANGED Index!vars
  BY <1>1, SimulatesShow
<1>2. ASSUME NEW w \in Goroutines, Begin(w) \/ Lose(w) PROVE UNCHANGED Index!vars
  BY <1>2, SimulatesQuiet DEF Begin, Regenerate, Lose, UpdateFails
<1>3. CASE StartOver
  BY <1>3, SimulatesQuiet DEF StartOver, Restart, AppRestart, Restarted
<1>4. CASE Elsewhere
  <2>1. UNCHANGED floor
    BY <1>4 DEF Elsewhere
  <2>2. ASSUME NEW e \in Entities, Commit(e) PROVE Index!Next
    BY <2>1, <2>2, SimulatesCommit DEF IInv
  <2>3. ASSUME NEW w \in Goroutines, Query(w) \/ Receive(w) \/ WorkerExit(w) \/ AppReceive(w)
        PROVE  UNCHANGED Index!vars
    BY <2>1, <2>3, SimulatesQuiet DEF Query, Receive, WorkerExit, AppReceive
  <2>4. CASE Loop \/ Stopped
    BY <2>1, <2>4, SimulatesQuiet DEF Loop, LoopOnce, Iterate, Send, ChunkDone, IterateFails,
       Finish, FinishReturns, Stopped, vars
  <2> QED
    BY <1>4, <2>2, <2>3, <2>4 DEF Elsewhere, Goroutines
<1>5. CASE UNCHANGED hvars
  BY <1>5, SimulatesQuiet DEF hvars, vars
<1> QED
  BY <1>1, <1>2, <1>3, <1>4, <1>5 DEF HNext

-----------------------------------------------------------------------------
\* What the documents under way have read, in the server and in the
\* applications, and what the index has promised, fit together.
THEOREM HistoryHolds ==
  ASSUME ~SkewedClocks
  PROVE  HSpec => []HistoryInv
<1>1. IInv /\ HistoryInv /\ [HNext]_hvars => HistoryInv'
  BY HistoryStep
<1> QED
  BY <1>1, WatchedSpec, HistoryInit, PTL DEF HSpec

\* The server and the applications' indexers together implement the abstract
\* index, as "using both the methods" in indexer/doc.go expects: whoever is
\* late or killed, no document goes back to less than the store had when an
\* accepted document was begun, or shows more than the store has.
THEOREM ServerImplementsRegularIndex ==
  ASSUME ~SkewedClocks
  PROVE  HSpec => IndexImplemented
<1>1. IInv /\ HistoryInv /\ [HNext]_hvars => [Index!Next]_(Index!vars)
  BY SimulatesStep
<1> QED
  BY <1>1, WatchedSpec, HistoryHolds, SimulatesInit, PTL DEF HSpec, IndexImplemented, Index!Spec
==============================================================================
