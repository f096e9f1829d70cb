---------------------------- MODULE ColumnsProofs ----------------------------
(* What is proved of Columns, for every set of clients and properties, any   *)
(* number of executions and any length of time.                              *)
EXTENDS Columns, FiniteSetTheorems, WellFoundedInduction, TLAPS

-----------------------------------------------------------------------------
(* The inductive invariant. *)

\* Rows to be inserted, and those with the rows that are there.
Pending == UNION {todo[c] : c \in Clients}
Written == rows \cup Pending

Update == [ts: Nat, edges: SUBSET Preds, since: SUBSET Execs]

\* What TypeOK leaves out: stamps have been read from the clock.
StampsOK ==
  /\ upd \in [Clients -> Update]
  /\ \A c \in Clients : upd[c].ts <= clock /\ (upd[c].edges # {} => upd[c].ts > 0)
  /\ IsFiniteSet(rows)
  /\ \A r \in Written : r.ts \in 1..clock

\* An execution is one client's, and has nothing to insert once acknowledged.
ExecsOK ==
  /\ \A r \in Written : r.by <= started
  /\ \A x \in acked : x <= started
  /\ \A c \in Clients : \A r \in todo[c] :
       /\ r.by \notin acked
       /\ \A d \in Clients : \A q \in todo[d] : q.by = r.by <=> c = d

\* Under a strict clock, what had been acknowledged when an Update was stamped
\* is older than the Update.
SinceOK ==
  /\ \A x \in Execs : since[x] \subseteq acked
  /\ \A c \in Clients : upd[c].since \subseteq acked
  /\ StrictClock =>
       /\ \A c \in Clients : \A q \in rows : q.by \in upd[c].since => q.ts < upd[c].ts
       /\ \A r \in Written, q \in rows : q.by \in since[r.by] => q.ts < r.ts

\* Versions in the order of time.
Ordered(s) == \A i, j \in DOMAIN s : i < j => s[i].ts <= s[j].ts

\* A column shown has its property's rows, among them all those of executions
\* that had been acknowledged, in the order of time.
ColumnsOK ==
  \A p \in DOMAIN result :
    /\ ToSet(result[p]) \subseteq Of(p)
    /\ \A q \in Of(p) : q.by \in known => q \in ToSet(result[p])
    /\ Ordered(result[p])

IsFunction(f) == f = [x \in DOMAIN f |-> f[x]]

ResultOK == IsFunction(result) /\ ColumnsOK

IInv == TypeOK /\ StampsOK /\ ExecsOK /\ SinceOK /\ ResultOK

-----------------------------------------------------------------------------
(* Numbers. *)

\* A set of numbers that is not empty has a smallest one ...
LEMMA Smallest ==
  ASSUME NEW T \in SUBSET Nat, T # {}
  PROVE  /\ Min(T) \in T
         /\ \A y \in T : Min(T) <= y
<1> DEFINE R == OpToRel(<, Nat)
<1>1. IsWellFoundedOn(R, Nat)
  BY NatLessThanWellFounded
<1> HIDE DEF R
<1>2. PICK x \in T : \A y \in T : ~ (<<y, x>> \in R)
  BY <1>1, WFMin
<1>3. \A y \in T : <<y, x>> \in R <=> y < x
  BY DEF R, OpToRel
<1>4. \A y \in T : x <= y
  <2>1. x \in Nat /\ \A y \in T : y \in Nat
    OBVIOUS
  <2>2. \A y \in T : ~(y < x)
    BY <1>2, <1>3
  <2> QED
    BY <2>1, <2>2
<1> QED
  BY <1>4 DEF Min

\* ... and a largest one, if there is a bound.
LEMMA Largest ==
  ASSUME NEW k \in Nat, NEW T \in SUBSET (0..k), T # {}
  PROVE  /\ Max(T) \in T
         /\ \A y \in T : y <= Max(T)
<1> DEFINE U == {k - y : y \in T}
<1>1. \A y \in T : y \in 0..k /\ k - y \in Nat
  OBVIOUS
<1>2. U \in SUBSET Nat /\ U # {}
  BY <1>1
<1> HIDE DEF U
<1>3. Min(U) \in U /\ \A u \in U : Min(U) <= u
  BY <1>2, Smallest
<1>4. PICK x \in T : Min(U) = k - x
  BY <1>3 DEF U
<1>5. \A y \in T : k - y \in U
  BY DEF U
<1>6. \A y \in T : x >= y
  BY <1>1, <1>3, <1>4, <1>5
<1>7. Max(T) \in T /\ \A y \in T : Max(T) >= y
  BY <1>6 DEF Max
<1> QED
  BY <1>1, <1>7

-----------------------------------------------------------------------------
(* Columns. *)

\* Sorting gives a sequence in the order of time.
LEMMA SortedType ==
  ASSUME NEW R \in SUBSET Row, IsFiniteSet(R), NEW s \in Sorted(R)
  PROVE  s \in Seq(Row) /\ Ordered(s)
<1>1. Cardinality(R) \in Nat
  BY FS_CardinalityType
<1>2. /\ s \in [1..Cardinality(R) -> R] /\ DOMAIN s = 1..Cardinality(R)
      /\ \A i, j \in DOMAIN s : i < j => ~Less(s[j], s[i])
  BY DEF Sorted
<1>3. \A i \in DOMAIN s : s[i] \in Row /\ s[i].ts \in Nat
  BY <1>2 DEF Row
<1>4. \A i, j \in DOMAIN s : i < j => s[i].ts <= s[j].ts
  BY <1>2, <1>3 DEF Less
<1>5. s \in Seq(Row)
  BY <1>1, <1>2, <1>3
<1> QED
  BY <1>4, <1>5 DEF Ordered

\* The ends of a column are the ends of its times.
LEMMA Ends ==
  ASSUME NEW s \in Seq(Row), s # <<>>, Ordered(s)
  PROVE  /\ Latest(s) \in ToSet(s) /\ Oldest(s) \in ToSet(s)
         /\ \A r \in ToSet(s) : Oldest(s).ts <= r.ts /\ r.ts <= Latest(s).ts
<1>1. Len(s) \in Nat /\ Len(s) > 0 /\ DOMAIN s = 1..Len(s)
  OBVIOUS
<1>2. Latest(s) = s[Len(s)] /\ Oldest(s) = s[1]
  BY <1>1 DEF Latest, Oldest, Last
<1>3. \A i \in 1..Len(s) : s[i].ts \in Nat
  <2>1. \A i \in 1..Len(s) : s[i] \in Row
    OBVIOUS
  <2> QED
    BY <2>1 DEF Row
<1>4. \A i \in 1..Len(s) : s[1].ts <= s[i].ts /\ s[i].ts <= s[Len(s)].ts
  <2> SUFFICES ASSUME NEW i \in 1..Len(s)
               PROVE  s[1].ts <= s[i].ts /\ s[i].ts <= s[Len(s)].ts
    OBVIOUS
  <2>1. s[1].ts \in Nat /\ s[i].ts \in Nat /\ s[Len(s)].ts \in Nat
    BY <1>1, <1>3
  <2>2. 1 < i => s[1].ts <= s[i].ts
    BY <1>1 DEF Ordered
  <2>3. i < Len(s) => s[i].ts <= s[Len(s)].ts
    BY <1>1 DEF Ordered
  <2>4. 1 < i \/ 1 = i
    BY <1>1
  <2>5. i < Len(s) \/ i = Len(s)
    <3>1. \A k \in Nat : \A j \in 1..k : j < k \/ j = k
      OBVIOUS
    <3> QED
      BY <1>1, <3>1
  <2> QED
    BY <2>1, <2>2, <2>3, <2>4, <2>5
<1> QED
  BY <1>1, <1>2, <1>4 DEF ToSet

\* What a query gives: the rows of each property that has any, in order; the
\* check in Versions.add does not fail.
LEMMA RunGives ==
  ASSUME TypeOK, StampsOK, Run
  PROVE  /\ DOMAIN result' = {r.p : r \in rows}
         /\ \A p \in DOMAIN result' :
              /\ result'[p] \in Seq(Row) /\ result'[p] # <<>>
              /\ ToSet(result'[p]) = Of(p) /\ Ordered(result'[p])
         /\ ~fatal'
<1>1. PICK cols \in [Preds -> UNION {Sorted(Of(p)) : p \in Preds}] :
        /\ \A p \in Preds : ToSet(cols[p]) = Of(p)
        /\ result' = [p \in {r.p : r \in rows} |-> cols[p]]
        /\ fatal' = ~ \A p \in Preds : Ascending(cols[p])
  BY DEF Run
<1>2. \A p \in Preds : Of(p) \in SUBSET Row /\ IsFiniteSet(Of(p))
  BY FS_Subset DEF Of, TypeOK, StampsOK
<1>3. ASSUME NEW p \in Preds PROVE cols[p] \in Seq(Row) /\ Ordered(cols[p])
  <2>1. PICK d \in Preds : cols[p] \in Sorted(Of(d))
    BY <1>1
  <2> QED
    BY <1>2, <2>1, SortedType
<1>4. \A p \in Preds : Ascending(cols[p])
  <2> SUFFICES ASSUME NEW p \in Preds, NEW i \in 1..(Len(cols[p]) - 1)
               PROVE  cols[p][i].ts <= cols[p][i + 1].ts
    BY DEF Ascending
  <2>1. cols[p] \in Seq(Row) /\ Ordered(cols[p])
    BY <1>3
  <2>2. Len(cols[p]) \in Nat /\ DOMAIN cols[p] = 1..Len(cols[p])
    BY <2>1
  <2>3. i \in DOMAIN cols[p] /\ i + 1 \in DOMAIN cols[p] /\ i < i + 1
    BY <2>2
  <2> QED
    BY <2>1, <2>3 DEF Ordered
<1>5. \A r \in rows : r.p \in Preds /\ r \in Of(r.p)
  BY DEF TypeOK, Row, Of
<1>6. \A p \in {r.p : r \in rows} : p \in Preds /\ cols[p] # <<>>
  BY <1>1, <1>5 DEF ToSet
<1> QED
  BY <1>1, <1>3, <1>4, <1>6
-----------------------------------------------------------------------------
(* The invariant holds. *)

\* Nobody has a row with the number of the execution about to start.
LEMMA ExecuteRows ==
  ASSUME IInv, NEW c \in Clients, Execute(c)
  PROVE  /\ started + 1 \in Execs /\ started \in Nat
         /\ todo' = [todo EXCEPT ![c] = Instructions(c)]
         /\ todo[c] = {} /\ upd[c].ts > 0 /\ upd[c].ts <= clock /\ upd[c].ts \in Nat
         /\ Instructions(c) \subseteq Row
         /\ \A r \in Instructions(c) : r.by = started + 1 /\ r.ts = upd[c].ts
<1>1. started \in Nat /\ started + 1 \in Execs
  BY ColumnsConstants DEF Execute, InUserCode, IInv, TypeOK, Execs
<1>2. upd[c].ts > 0 /\ upd[c].ts <= clock /\ upd[c].ts \in Nat /\ upd[c].edges \subseteq Preds
  BY DEF Execute, IInv, TypeOK, StampsOK
<1>3. \A p \in upd[c].edges :
        [p |-> p, src |-> c, ts |-> upd[c].ts, by |-> started + 1] \in Row
  BY <1>1, <1>2 DEF Row
<1> QED
  BY <1>1, <1>2, <1>3 DEF Instructions, Execute, InUserCode

\* An execution's rows come from what it has to insert, into the store.
InsertedBy(c) ==
  /\ UNCHANGED <<clock, upd, started, result, fatal, since, known>>
  /\ rows \subseteq rows'
  /\ \E r \in todo[c] : rows' \subseteq rows \cup {r}
  /\ \E T \in SUBSET todo[c] :
       /\ todo' = [todo EXCEPT ![c] = T]
       /\ \/ acked' = acked
          \/ T = {} /\ \E r \in todo[c] : acked' = acked \cup {r.by}

LEMMA InsertSteps ==
  ASSUME TypeOK, NEW c \in Clients, Insert(c) \/ InsertFails(c)
  PROVE  InsertedBy(c)
<1>1. CASE Insert(c)
  <2>1. PICK r \in todo[c] :
          /\ rows' = rows \cup {r}
          /\ todo' = [todo EXCEPT ![c] = @ \ {r}]
          /\ acked' = IF todo'[c] = {} THEN acked \cup {r.by} ELSE acked
    BY <1>1 DEF Insert, Stored
  <2>2. todo'[c] = todo[c] \ {r}
    BY <2>1 DEF TypeOK
  <2>3. todo[c] \ {r} \in SUBSET todo[c]
    OBVIOUS
  <2> QED
    BY <1>1, <2>1, <2>2, <2>3 DEF Insert, InsertedBy
<1>2. CASE InsertFails(c)
  <2>1. PICK r \in todo[c] : rows' \in {rows, rows \cup {r}}
    BY <1>2 DEF InsertFails, Stored
  <2>2. {} \in SUBSET todo[c]
    OBVIOUS
  <2> QED
    BY <1>2, <2>1, <2>2 DEF InsertFails, InsertedBy
<1> QED
  BY <1>1, <1>2

\* What NewUpdate makes.
Stamped(t) == [ts |-> t, edges |-> {}, since |-> acked]

LEMMA NewUpdateStamps ==
  ASSUME TypeOK, NEW c \in Clients, NewUpdate(c)
  PROVE  /\ clock' \in Nat /\ clock <= clock' /\ clock' > 0
         /\ StrictClock => clock < clock'
         /\ upd' = [upd EXCEPT ![c] = Stamped(clock')]
         /\ UNCHANGED <<todo, started, since, rows, result, fatal, acked, known>>
<1> DEFINE ticks == IF StrictClock \/ clock = 0 THEN {clock + 1} ELSE {clock, clock + 1}
<1>1. PICK t \in ticks :
        /\ clock' = t
        /\ upd' = [upd EXCEPT ![c] = Stamped(t)]
  BY DEF NewUpdate, Stamped
<1>2. clock \in Nat
  BY DEF TypeOK
<1>3. /\ t \in Nat /\ clock <= t /\ t > 0
      /\ StrictClock => clock < t
  <2>1. \/ t = clock + 1
        \/ t = clock /\ ~StrictClock /\ clock # 0
    BY <1>1, Zenon
  <2> QED
    BY <1>2, <2>1
<1> QED
  BY <1>1, <1>3 DEF NewUpdate, InUserCode

\* Every step has its type.
LEMMA TypeStep ==
  ASSUME IInv, [Next]_vars
  PROVE  TypeOK'
<1>1. TypeOK
  BY DEF IInv
<1>2. ASSUME NEW c \in Clients, NewUpdate(c) PROVE TypeOK'
  <2>1. /\ clock' \in Nat /\ upd' = [upd EXCEPT ![c] = Stamped(clock')]
        /\ UNCHANGED <<todo, started, since, rows, result, fatal, acked, known>>
    BY <1>1, <1>2, NewUpdateStamps
  <2>2. \A d \in Clients : upd'[d] = upd[d] \/ upd'[d] = Stamped(clock')
    BY <2>1 DEF IInv, StampsOK
  <2>3. \A d \in Clients : /\ upd'[d].ts \in Nat
                            /\ upd'[d].edges \subseteq Preds
                            /\ upd'[d].since \subseteq Execs
    BY <1>1, <2>1, <2>2 DEF TypeOK, Stamped
  <2> QED
    BY <1>1, <2>1, <2>3 DEF TypeOK
<1>3. ASSUME NEW c \in Clients, NEW p \in Preds, Set(c, p) PROVE TypeOK'
  <2>1. \A d \in Clients : /\ upd'[d].ts = upd[d].ts /\ upd'[d].since = upd[d].since
                            /\ upd'[d].edges \subseteq upd[d].edges \cup {p}
    BY <1>3 DEF Set, IInv, StampsOK
  <2>2. \A d \in Clients : /\ upd'[d].ts \in Nat
                            /\ upd'[d].edges \subseteq Preds
                            /\ upd'[d].since \subseteq Execs
    BY <1>1, <2>1 DEF TypeOK
  <2> QED
    BY <1>1, <1>3, <2>2 DEF Set, InUserCode, TypeOK
<1>4. ASSUME NEW c \in Clients, Execute(c) PROVE TypeOK'
  <2>1. /\ started + 1 \in Execs /\ todo' = [todo EXCEPT ![c] = Instructions(c)]
        /\ Instructions(c) \subseteq Row
    BY <1>4, ExecuteRows
  <2>2. /\ started' = started + 1 /\ since' = [since EXCEPT ![started + 1] = upd[c].since]
        /\ UNCHANGED <<clock, upd, rows, result, fatal, acked, known>>
    BY <1>4 DEF Execute, InUserCode
  <2>3. started' \in 0..MaxExecs
    BY <2>1, <2>2, ColumnsConstants DEF Execs
  <2>4. todo' \in [Clients -> SUBSET Row] /\ since' \in [Execs -> SUBSET Execs]
    BY <1>1, <2>1, <2>2 DEF TypeOK
  <2> QED
    BY <1>1, <2>2, <2>3, <2>4 DEF TypeOK
<1>5. ASSUME NEW c \in Clients, Insert(c) \/ InsertFails(c) PROVE TypeOK'
  <2>1. InsertedBy(c)
    BY <1>1, <1>5, InsertSteps
  <2>2. todo[c] \subseteq Row
    BY <1>1 DEF TypeOK
  <2>3. rows' \subseteq Row
    BY <1>1, <2>1, <2>2 DEF InsertedBy, TypeOK
  <2>4. acked' \subseteq Execs /\ acked \subseteq acked'
    BY <1>1, <2>1, <2>2 DEF InsertedBy, TypeOK, Row
  <2>5. todo' \in [Clients -> SUBSET Row]
    BY <1>1, <2>1, <2>2 DEF InsertedBy, TypeOK
  <2> QED
    BY <1>1, <2>1, <2>3, <2>4, <2>5 DEF InsertedBy, TypeOK
<1>6. CASE Run
  <2>1. /\ DOMAIN result' = {r.p : r \in rows}
        /\ \A p \in DOMAIN result' : result'[p] \in Seq(Row) /\ result'[p] # <<>>
        /\ ~fatal'
    BY <1>6, <1>1, RunGives DEF IInv
  <2>2. DOMAIN result' \subseteq Preds
    BY <1>1, <2>1 DEF TypeOK, Row
  <2>3. known' = acked /\ UNCHANGED <<clock, upd, todo, started, rows, acked, since>>
    BY <1>6 DEF Run
  <2> QED
    BY <1>1, <2>1, <2>2, <2>3 DEF TypeOK
<1>7. ASSUME NEW p \in Preds, Drop(p) PROVE TypeOK'
  <2>1. /\ DOMAIN result' = DOMAIN result \ {p}
        /\ \A q \in DOMAIN result' : result'[q] = result[q]
        /\ UNCHANGED <<clock, upd, todo, started, rows, fatal, acked, since, known>>
    BY <1>7 DEF Drop
  <2> QED
    BY <1>1, <2>1 DEF TypeOK
<1>8. CASE UNCHANGED vars
  BY <1>1, <1>8 DEF TypeOK, vars
<1> QED
  BY <1>2, <1>3, <1>4, <1>5, <1>6, <1>7, <1>8 DEF Next, Write

\* A step either leaves every row as it was and what is to be inserted too, or
\* starts an execution, or inserts rows of one.
Widened(u, p) == [ts |-> u.ts, edges |-> u.edges \cup {p}, since |-> u.since]

LEMMA SetWidens ==
  ASSUME NEW u \in Update, NEW p \in Preds
  PROVE  /\ [u EXCEPT !.edges = @ \cup {p}] = Widened(u, p)
         /\ Widened(u, p) \in Update
  BY DEF Widened, Update

Restamps(c) ==
  /\ upd' = [upd EXCEPT ![c] = Stamped(clock')]
  /\ clock' > 0
  /\ StrictClock => clock < clock'

Grows(c, p) ==
  /\ upd[c].ts > 0
  /\ upd' = [upd EXCEPT ![c] = Widened(@, p)]

Leaves ==
  /\ UNCHANGED <<rows, todo, started, since, acked>>
  /\ clock' \in Nat /\ clock <= clock'
  /\ \/ upd' = upd
     \/ \E c \in Clients : Restamps(c)
     \/ \E c \in Clients, p \in Preds : Grows(c, p)

LEMMA StepKinds ==
  ASSUME TypeOK, StampsOK, [Next]_vars
  PROVE  Leaves \/ \E c \in Clients : Execute(c) \/ Insert(c) \/ InsertFails(c)
<1>1. clock \in Nat
  BY DEF TypeOK
<1>2. ASSUME NEW c \in Clients, NewUpdate(c) PROVE Leaves
  BY <1>2, NewUpdateStamps DEF Leaves, Restamps
<1>3. ASSUME NEW c \in Clients, NEW p \in Preds, Set(c, p) PROVE Leaves
  <2>1. /\ UNCHANGED <<rows, todo, started, since, acked, clock>>
        /\ upd[c].ts > 0 /\ upd' = [upd EXCEPT ![c] = [upd[c] EXCEPT !.edges = @ \cup {p}]]
    BY <1>3 DEF Set, InUserCode
  <2>2. clock <= clock
    BY <1>1
  <2>3. [upd[c] EXCEPT !.edges = @ \cup {p}] = Widened(upd[c], p)
    BY SetWidens DEF StampsOK
  <2> QED
    BY <1>1, <2>1, <2>2, <2>3 DEF Leaves, Grows
<1>4. ASSUME Run \/ (\E p \in Preds : Drop(p)) \/ UNCHANGED vars PROVE Leaves
  <2>1. UNCHANGED <<rows, todo, started, since, acked, clock, upd>>
    BY <1>4 DEF Run, Drop, vars
  <2>2. clock <= clock
    BY <1>1
  <2> QED
    BY <1>1, <2>1, <2>2 DEF Leaves
<1> QED
  BY <1>2, <1>3, <1>4 DEF Next, Write

\* Rows come from what was to be inserted, unless an execution starts.
LEMMA InsertedWritten ==
  ASSUME TypeOK, NEW c \in Clients, InsertedBy(c)
  PROVE  /\ Written' \subseteq Written /\ rows \subseteq rows'
         /\ \A d \in Clients : todo'[d] \subseteq todo[d]
<1>1. \A d \in Clients : todo'[d] \subseteq todo[d]
  BY DEF InsertedBy, TypeOK
<1>2. \A r \in todo[c] : r \in Pending
  BY DEF Pending
<1> QED
  BY <1>1, <1>2 DEF Written, Pending, InsertedBy

LEMMA ExecuteWritten ==
  ASSUME IInv, NEW c \in Clients, Execute(c)
  PROVE  /\ Written' \subseteq Written \cup Instructions(c) /\ rows' = rows
         /\ \A d \in Clients : todo'[d] = IF d = c THEN Instructions(c) ELSE todo[d]
<1>1. todo' = [todo EXCEPT ![c] = Instructions(c)] /\ todo \in [Clients -> SUBSET Row]
  BY ExecuteRows DEF IInv, TypeOK
<1>2. \A d \in Clients : todo'[d] = IF d = c THEN Instructions(c) ELSE todo[d]
  BY <1>1
<1>3. rows' = rows
  BY DEF Execute, InUserCode
<1> QED
  BY <1>2, <1>3 DEF Written, Pending

LEMMA StampsStep ==
  ASSUME IInv, [Next]_vars
  PROVE  StampsOK'
<1>1. TypeOK /\ StampsOK /\ clock \in Nat
  BY DEF IInv, TypeOK
<1>2. ASSUME Leaves PROVE StampsOK'
  <2>1. clock' \in Nat /\ clock <= clock' /\ rows' = rows /\ Written' = Written
    BY <1>2 DEF Leaves, Written, Pending
  <2>2. ASSUME NEW d \in Clients
        PROVE  /\ upd'[d] \in Update
               /\ upd'[d].ts <= clock' /\ (upd'[d].edges # {} => upd'[d].ts > 0)
    <3>1. upd \in [Clients -> Update]
      BY <1>1 DEF StampsOK
    <3>2. upd[d].ts \in Nat /\ upd[d].ts <= clock /\ (upd[d].edges # {} => upd[d].ts > 0)
      BY <1>1, <3>1 DEF StampsOK, Update
    <3>3. CASE upd'[d] = upd[d]
      BY <2>1, <3>1, <3>2, <3>3, <1>1
    <3>4. CASE upd'[d] = Stamped(clock')
      BY <2>1, <3>4, <1>1 DEF Stamped, TypeOK, Update
    <3>5. ASSUME NEW p \in Preds, upd[d].ts > 0, upd'[d] = Widened(upd[d], p)
          PROVE  /\ upd'[d] \in Update
                 /\ upd'[d].ts = upd[d].ts
      BY <3>1, <3>5, SetWidens DEF Widened, Update
    <3>6. \/ upd'[d] = upd[d]
          \/ upd'[d] = Stamped(clock')
          \/ \E p \in Preds : upd[d].ts > 0 /\ upd'[d] = Widened(upd[d], p)
      BY <1>2, <3>1 DEF Leaves, Restamps, Grows
    <3> QED
      BY <2>1, <3>2, <3>3, <3>4, <3>5, <3>6, <1>1
  <2>3. upd' \in [Clients -> Update]
    <3>1. upd' = [d \in Clients |-> upd'[d]]
      BY <1>1, <1>2 DEF Leaves, Restamps, Grows, StampsOK
    <3> QED
      BY <2>2, <3>1
  <2>4. \A r \in Written' : r.ts \in 1..clock'
    BY <1>1, <2>1 DEF StampsOK
  <2> QED
    BY <1>1, <2>1, <2>2, <2>3, <2>4 DEF StampsOK
<1>3. ASSUME NEW c \in Clients, Execute(c) PROVE StampsOK'
  <2>1. /\ Written' \subseteq Written \cup Instructions(c)
        /\ \A r \in Instructions(c) : r.ts = upd[c].ts
        /\ upd[c].ts > 0 /\ upd[c].ts <= clock /\ upd[c].ts \in Nat
    BY <1>3, ExecuteRows, ExecuteWritten
  <2>2. UNCHANGED <<clock, upd, rows>>
    BY <1>3 DEF Execute, InUserCode
  <2>3. \A r \in Written' : r.ts \in 1..clock
    BY <1>1, <2>1 DEF StampsOK
  <2> QED
    BY <1>1, <2>2, <2>3 DEF StampsOK
<1>4. ASSUME NEW c \in Clients, Insert(c) \/ InsertFails(c) PROVE StampsOK'
  <2>1. InsertedBy(c)
    BY <1>1, <1>4, InsertSteps
  <2>2. Written' \subseteq Written
    BY <1>1, <2>1, InsertedWritten
  <2>3. PICK r \in todo[c] : rows' \subseteq rows \cup {r}
    BY <2>1 DEF InsertedBy
  <2>4. IsFiniteSet(rows')
    <3>1. IsFiniteSet(rows \cup {r})
      BY <1>1, FS_AddElement DEF StampsOK
    <3> QED
      BY <2>3, <3>1, FS_Subset
  <2>5. UNCHANGED <<clock, upd>>
    BY <2>1 DEF InsertedBy
  <2> QED
    BY <1>1, <2>2, <2>4, <2>5 DEF StampsOK
<1> QED
  BY <1>1, <1>2, <1>3, <1>4, StepKinds

LEMMA ExecsStep ==
  ASSUME IInv, [Next]_vars
  PROVE  ExecsOK'
<1>1. TypeOK /\ StampsOK /\ ExecsOK
  BY DEF IInv
<1>2. ASSUME Leaves PROVE ExecsOK'
  BY <1>1, <1>2 DEF Leaves, Written, Pending, ExecsOK
<1>3. ASSUME NEW c \in Clients, Execute(c) PROVE ExecsOK'
  <2>1. /\ Written' \subseteq Written \cup Instructions(c)
        /\ \A r \in Instructions(c) : r.by = started + 1
        /\ started \in Nat /\ started' = started + 1 /\ acked' = acked
        /\ \A d \in Clients : todo'[d] = IF d = c THEN Instructions(c) ELSE todo[d]
    BY <1>3, ExecuteRows, ExecuteWritten DEF Execute, InUserCode
  <2>2. acked \subseteq Nat
    BY <1>1 DEF TypeOK, Execs
  <2>3. \A r \in Written : r.by \in Nat /\ r.by <= started
    <3>1. Written \subseteq Row
      BY <1>1 DEF Written, Pending, TypeOK
    <3> QED
      BY <1>1, <3>1 DEF ExecsOK, Row, Execs
  <2>4. \A r \in Written' : r.by <= started'
    BY <2>1, <2>3
  <2>5. \A x \in acked' : x <= started'
    <3>1. \A x \in acked : x \in Nat /\ x <= started
      BY <1>1, <2>2 DEF ExecsOK
    <3> QED
      BY <2>1, <3>1
  <2>6. \A d \in Clients : d # c => \A r \in todo'[d] : r.by <= started /\ r.by # started + 1
    BY <2>1, <2>3 DEF Written, Pending
  <2>7. started + 1 \notin acked
    BY <1>1, <2>1, <2>2 DEF ExecsOK
  <2>8. ASSUME NEW d \in Clients, NEW r \in todo'[d]
        PROVE  /\ r.by \notin acked'
               /\ \A e \in Clients : \A q \in todo'[e] : q.by = r.by <=> d = e
    <3>1. CASE d = c
      BY <2>1, <2>6, <2>7, <3>1
    <3>2. CASE d # c
      BY <1>1, <2>1, <2>6, <3>2 DEF ExecsOK
    <3> QED
      BY <3>1, <3>2
  <2> QED
    BY <2>4, <2>5, <2>8 DEF ExecsOK
<1>4. ASSUME NEW c \in Clients, Insert(c) \/ InsertFails(c) PROVE ExecsOK'
  <2>1. InsertedBy(c)
    BY <1>1, <1>4, InsertSteps
  <2>2. /\ Written' \subseteq Written /\ \A d \in Clients : todo'[d] \subseteq todo[d]
    BY <1>1, <2>1, InsertedWritten
  <2>3. started' = started
    BY <2>1 DEF InsertedBy
  <2>4. \/ acked' = acked
        \/ todo'[c] = {} /\ \E r \in todo[c] : acked' = acked \cup {r.by}
    BY <1>1, <2>1 DEF InsertedBy, TypeOK
  <2>5. \A r \in todo[c] : r.by <= started
    BY <1>1 DEF ExecsOK, Written, Pending
  <2>6. \A x \in acked' : x <= started'
    BY <1>1, <2>3, <2>4, <2>5 DEF ExecsOK
  <2>7. ASSUME NEW d \in Clients, NEW r \in todo'[d] PROVE r.by \notin acked'
    BY <1>1, <2>2, <2>4 DEF ExecsOK
  <2> QED
    BY <1>1, <2>2, <2>3, <2>6, <2>7 DEF ExecsOK
<1> QED
  BY <1>1, <1>2, <1>3, <1>4, StepKinds

LEMMA SinceStep ==
  ASSUME IInv, [Next]_vars
  PROVE  SinceOK'
<1>1. TypeOK /\ StampsOK /\ ExecsOK /\ SinceOK
  BY DEF IInv
<1>2. /\ rows \subseteq Written /\ Written \subseteq Row
      /\ \A r \in Written : r.ts \in Nat /\ r.ts <= clock /\ r.by \in Execs
  <2>1. rows \subseteq Written /\ Written \subseteq Row
    BY <1>1 DEF Written, Pending, TypeOK
  <2> QED
    BY <1>1, <2>1 DEF StampsOK, Row
<1>3. ASSUME Leaves PROVE SinceOK'
  <2>1. UNCHANGED <<rows, since, acked>> /\ clock' \in Nat /\ Written' = Written
    BY <1>3 DEF Leaves, Written, Pending
  <2>2. ASSUME NEW d \in Clients
        PROVE  /\ upd'[d].since \subseteq acked
               /\ StrictClock => \A q \in rows : q.by \in upd'[d].since => q.ts < upd'[d].ts
    <3>1. upd \in [Clients -> Update] /\ clock \in Nat
      BY <1>1 DEF StampsOK, TypeOK
    <3>2. \/ upd'[d].ts = upd[d].ts /\ upd'[d].since = upd[d].since
          \/ /\ upd'[d].ts = clock' /\ upd'[d].since = acked
             /\ StrictClock => clock < clock'
      BY <1>3, <3>1 DEF Leaves, Restamps, Grows, Stamped, Widened
    <3> QED
      BY <1>1, <1>2, <2>1, <3>1, <3>2 DEF SinceOK
  <2> QED
    BY <1>1, <2>1, <2>2 DEF SinceOK
<1>4. ASSUME NEW c \in Clients, Execute(c) PROVE SinceOK'
  <2>1. /\ Written' \subseteq Written \cup Instructions(c) /\ rows' = rows
        /\ started + 1 \in Execs /\ started \in Nat
        /\ \A r \in Instructions(c) : r.by = started + 1 /\ r.ts = upd[c].ts
    BY <1>4, ExecuteRows, ExecuteWritten
  <2>2. since' = [since EXCEPT ![started + 1] = upd[c].since] /\ UNCHANGED <<upd, acked>>
    BY <1>4 DEF Execute, InUserCode
  <2>3. since'[started + 1] = upd[c].since /\ \A x \in Execs : x # started + 1 => since'[x] = since[x]
    BY <1>1, <2>1, <2>2 DEF TypeOK
  <2>4. \A x \in Execs : since'[x] \subseteq acked'
    BY <1>1, <2>2, <2>3 DEF SinceOK
  <2>5. ASSUME StrictClock, NEW r \in Written', NEW q \in rows', q.by \in since'[r.by]
        PROVE  q.ts < r.ts
    <3>1. CASE r \in Written
      <4>1. r.by # started + 1 /\ r.by \in Execs
        BY <1>1, <1>2, <2>1, <3>1 DEF ExecsOK, Execs
      <4> QED
        BY <1>1, <2>1, <2>3, <2>5, <3>1, <4>1 DEF SinceOK
    <3>2. CASE r \in Instructions(c)
      BY <1>1, <2>1, <2>3, <2>5, <3>2 DEF SinceOK
    <3> QED
      BY <2>1, <3>1, <3>2
  <2> QED
    BY <1>1, <2>1, <2>2, <2>4, <2>5 DEF SinceOK
<1>5. ASSUME NEW c \in Clients, Insert(c) \/ InsertFails(c) PROVE SinceOK'
  <2>1. InsertedBy(c)
    BY <1>1, <1>5, InsertSteps
  <2>2. Written' \subseteq Written
    BY <1>1, <2>1, InsertedWritten
  <2>3. UNCHANGED <<upd, since>> /\ acked \subseteq acked'
    BY <2>1 DEF InsertedBy
  <2>4. PICK r0 \in todo[c] : rows' \subseteq rows \cup {r0}
    BY <2>1 DEF InsertedBy
  <2>5. \A q \in rows' : q.by \in acked => q \in rows
    BY <1>1, <2>4 DEF ExecsOK
  <2>6. \A r \in Written' : since[r.by] \subseteq acked
    BY <1>1, <1>2, <2>2 DEF SinceOK
  <2> QED
    BY <1>1, <2>2, <2>3, <2>5, <2>6 DEF SinceOK
<1> QED
  BY <1>1, <1>3, <1>4, <1>5, StepKinds

LEMMA ResultStep ==
  ASSUME IInv, [Next]_vars
  PROVE  ResultOK'
<1>1. TypeOK /\ StampsOK /\ ExecsOK /\ ResultOK
  BY DEF IInv
<1>2. ASSUME UNCHANGED <<rows, result, known>> PROVE ResultOK'
  BY <1>1, <1>2 DEF ResultOK, ColumnsOK, Of
<1>3. ASSUME NEW c \in Clients, Insert(c) \/ InsertFails(c) PROVE ResultOK'
  <2>1. InsertedBy(c)
    BY <1>1, <1>3, InsertSteps
  <2>2. UNCHANGED <<result, known>> /\ rows \subseteq rows'
    BY <2>1 DEF InsertedBy
  <2>3. PICK r0 \in todo[c] : rows' \subseteq rows \cup {r0}
    BY <2>1 DEF InsertedBy
  <2>4. \A q \in rows' : q.by \in known => q \in rows
    BY <1>1, <2>3 DEF ExecsOK, TypeOK
  <2> QED
    BY <1>1, <2>2, <2>4 DEF ResultOK, ColumnsOK, Of
<1>4. CASE Run
  <2>1. rows' = rows
    BY <1>4 DEF Run
  <2>2. \A p \in DOMAIN result' : ToSet(result'[p]) = Of(p) /\ Ordered(result'[p])
    BY <1>1, <1>4, RunGives
  <2>3. IsFunction(result')
    BY <1>4 DEF Run, IsFunction
  <2> QED
    BY <2>1, <2>2, <2>3 DEF ResultOK, ColumnsOK, Of
<1>5. ASSUME NEW p \in Preds, Drop(p) PROVE ResultOK'
  <2>1. /\ DOMAIN result' \subseteq DOMAIN result
        /\ \A q \in DOMAIN result' : result'[q] = result[q]
        /\ UNCHANGED <<rows, known>>
        /\ IsFunction(result')
    BY <1>5 DEF Drop, IsFunction
  <2> QED
    BY <1>1, <2>1 DEF ResultOK, ColumnsOK, Of
<1> QED
  BY <1>2, <1>3, <1>4, <1>5
     DEF Next, Write, NewUpdate, Set, Execute, InUserCode, vars

LEMMA IInvInductive == Spec => []IInv
<1>1. Init => IInv
  <2> SUFFICES ASSUME Init PROVE IInv
    OBVIOUS
  <2>1. TypeOK
    BY ColumnsConstants DEF Init, TypeOK, NoUpdate
  <2>2. Written = {}
    BY DEF Init, Written, Pending
  <2>3. StampsOK
    BY <2>2, FS_EmptySet DEF Init, StampsOK, NoUpdate, Update
  <2>4. ExecsOK /\ SinceOK /\ ColumnsOK
    BY <2>2 DEF Init, ExecsOK, SinceOK, ColumnsOK, NoUpdate
  <2>5. IsFunction(result)
    BY DEF Init, IsFunction
  <2> QED
    BY <2>1, <2>3, <2>4, <2>5 DEF IInv, ResultOK
<1>2. IInv /\ [Next]_vars => IInv'
  BY TypeStep, StampsStep, ExecsStep, SinceStep, ResultStep DEF IInv
<1> QED
  BY <1>1, <1>2, PTL DEF Spec

\* Every variable has its type, for any number of clients, properties and
\* executions; the check in Versions.add never ends the process.
THEOREM TypeCorrect == Spec => []TypeOK
<1>1. IInv => TypeOK
  BY DEF IInv
<1> QED
  BY <1>1, IInvInductive, PTL

-----------------------------------------------------------------------------
(* What a result shows. *)

\* A row of an acknowledged execution is in its column, and its time is
\* between those of the column's ends.
LEMMA ShownBetween ==
  ASSUME IInv, NEW p \in DOMAIN result
  PROVE  /\ Latest(result[p]) \in rows /\ Latest(result[p]).p = p
         /\ Oldest(result[p]) \in rows /\ Oldest(result[p]).p = p
         /\ Oldest(result[p]).ts <= Latest(result[p]).ts
         /\ \A q \in rows : q.p = p /\ q.by \in known =>
              Oldest(result[p]).ts <= q.ts /\ q.ts <= Latest(result[p]).ts
<1>1. result[p] \in Seq(Row) /\ result[p] # <<>> /\ Ordered(result[p])
  BY DEF IInv, TypeOK, ResultOK, ColumnsOK
<1>2. /\ Latest(result[p]) \in ToSet(result[p]) /\ Oldest(result[p]) \in ToSet(result[p])
      /\ \A r \in ToSet(result[p]) :
            Oldest(result[p]).ts <= r.ts /\ r.ts <= Latest(result[p]).ts
  BY <1>1, Ends
<1>3. /\ ToSet(result[p]) \subseteq Of(p)
      /\ \A q \in Of(p) : q.by \in known => q \in ToSet(result[p])
  BY DEF IInv, ResultOK, ColumnsOK
<1> QED
  BY <1>2, <1>3 DEF Of

\* Under a strict clock the value shown is not one that was superseded: no
\* update of the property was begun after the one shown had been acknowledged,
\* and acknowledged itself before the query.
THEOREM ShowsLastSet ==
  ASSUME StrictClock
  PROVE  Spec => []LastSetWins
<1>1. ASSUME IInv PROVE LastSetWins
  <2> SUFFICES ASSUME NEW p \in DOMAIN result, NEW q \in rows, q.p = p, q.by \in known,
                      Latest(result[p]).by \in since[q.by]
               PROVE  FALSE
    BY DEF LastSetWins
  <2>1. Latest(result[p]) \in rows /\ q.ts <= Latest(result[p]).ts
    BY <1>1, ShownBetween
  <2>2. Latest(result[p]).ts < q.ts
    BY <1>1, <2>1 DEF IInv, SinceOK, Written
  <2>3. Latest(result[p]).ts \in Nat /\ q.ts \in Nat
    BY <1>1, <2>1 DEF IInv, TypeOK, Row
  <2> QED
    BY <2>1, <2>2, <2>3
<1> QED
  BY <1>1, IInvInductive, PTL

\* A column once shown is shown by every later query with all its versions,
\* and its latest version does not become an older one; this rests on no
\* property of the clock.
THEOREM RetainsVersions == Spec => Retained
<1> DEFINE Keeps(p) == IF p \in DOMAIN result'
                       THEN /\ ToSet(result[p]) \subseteq ToSet(result'[p])
                            /\ Latest(result[p]).ts <= Latest(result'[p]).ts
                       ELSE Drop(p)
<1>1. ASSUME IInv, Next, NEW p \in DOMAIN result PROVE Keeps(p)
  <2>0. p \in Preds /\ Latest(result[p]).ts \in Nat
    BY <1>1, ShownBetween DEF IInv, TypeOK, Row
  <2>1. ASSUME result' = result PROVE Keeps(p)
    BY <2>0, <2>1
  <2>2. CASE Run
    <3>1. /\ DOMAIN result' = {r.p : r \in rows}
          /\ \A d \in DOMAIN result' :
               /\ result'[d] \in Seq(Row) /\ result'[d] # <<>>
               /\ ToSet(result'[d]) = Of(d) /\ Ordered(result'[d])
      BY <1>1, <2>2, RunGives DEF IInv
    <3>2. Latest(result[p]) \in Of(p) /\ p \in DOMAIN result'
      BY <1>1, <3>1, ShownBetween DEF Of
    <3>3. ToSet(result[p]) \subseteq ToSet(result'[p])
      BY <1>1, <3>1, <3>2 DEF IInv, ResultOK, ColumnsOK
    <3>4. \A r \in Of(p) : r.ts <= Latest(result'[p]).ts
      BY <3>1, <3>2, Ends
    <3> QED
      BY <3>2, <3>3, <3>4
  <2>3. ASSUME NEW d \in Preds, Drop(d) PROVE Keeps(p)
    <3>1. result' = [q \in DOMAIN result \ {d} |-> result[q]]
      BY <2>3 DEF Drop
    <3>2. CASE p = d
      BY <2>3, <3>1, <3>2
    <3>3. CASE p # d
      <4>1. p \in DOMAIN result' /\ result'[p] = result[p]
        BY <3>1, <3>3
      <4> QED
        BY <2>0, <4>1
    <3> QED
      BY <3>2, <3>3
  <2> HIDE DEF Keeps
  <2> QED
    BY <1>1, <2>1, <2>2, <2>3 DEF Next, Write, NewUpdate, Set, Execute, InUserCode, Insert, InsertFails
<1>2. IInv /\ [Next]_vars => [\A p \in DOMAIN result : Keeps(p)]_vars
  BY <1>1
<1> QED
  BY <1>2, IInvInductive, PTL DEF Spec, Retained

\* The modifiers of a result are latest versions, none newer; the creators are
\* oldest versions, none older; None is neither.
LEMMA CreditsGiven ==
  ASSUME IInv, result # <<>>
  PROVE  /\ \A m \in Modifiers(result) :
              /\ \E p \in DOMAIN result : m = Latest(result[p])
              /\ \A p \in DOMAIN result : Latest(result[p]).ts <= m.ts
         /\ \A o \in Creators(result, clock + 1) :
              /\ \E p \in DOMAIN result : o = Oldest(result[p])
              /\ \A p \in DOMAIN result : o.ts <= Oldest(result[p]).ts
<1> DEFINE L == LatestTs(result)
           O == OldestTs(result, clock + 1)
<1>0. clock \in Nat
  BY DEF IInv, TypeOK
<1>1. \A p \in DOMAIN result :
        Latest(result[p]).ts \in 1..clock /\ Oldest(result[p]).ts \in 1..clock
  <2> SUFFICES ASSUME NEW p \in DOMAIN result
               PROVE  Latest(result[p]).ts \in 1..clock /\ Oldest(result[p]).ts \in 1..clock
    OBVIOUS
  <2>1. Latest(result[p]) \in Written /\ Oldest(result[p]) \in Written
    BY ShownBetween DEF Written
  <2> QED
    BY <2>1 DEF IInv, StampsOK
<1>2. L \in SUBSET (0..clock) /\ 0 \in L /\ O \in SUBSET Nat /\ clock + 1 \in O
  BY <1>0, <1>1 DEF LatestTs, OldestTs
<1>3. /\ \A p \in DOMAIN result : Latest(result[p]).ts \in L /\ Oldest(result[p]).ts \in O
  BY DEF LatestTs, OldestTs
<1> HIDE DEF L, O
<1>4. Max(L) \in L /\ \A y \in L : y <= Max(L)
  BY <1>0, <1>2, Largest
<1>5. Min(O) \in O /\ \A y \in O : Min(O) <= y
  BY <1>2, Smallest
<1>6. PICK p0 : p0 \in DOMAIN result
  <2>1. result = [p \in DOMAIN result |-> result[p]]
    BY DEF IInv, ResultOK, IsFunction
  <2>2. ASSUME DOMAIN result = {} PROVE result = <<>>
    BY <2>1, <2>2
  <2> QED
    BY <2>2
<1>7. Max(L) # 0
  BY <1>0, <1>1, <1>3, <1>4, <1>6
<1>8. Min(O) # clock + 1
  BY <1>0, <1>1, <1>3, <1>5, <1>6
<1>9. \A m \in Modifiers(result) :
        m.ts = Max(L) /\ \E p \in DOMAIN result : m = Latest(result[p])
  BY <1>7 DEF Modifiers, L
<1>10. \A o \in Creators(result, clock + 1) :
        o.ts = Min(O) /\ \E p \in DOMAIN result : o = Oldest(result[p])
  BY <1>8 DEF Creators, O
<1> QED
  BY <1>3, <1>4, <1>5, <1>9, <1>10

\* Under a strict clock the modifier of the map is not the author of an update
\* that was acknowledged before another one began that the result shows, nor
\* the creator that of an update begun after another had been acknowledged;
\* nobody is missing, and an entity is not modified before it is created.
THEOREM CreditsCorrect ==
  ASSUME StrictClock
  PROVE  Spec => []CreditsRight
<1>1. ASSUME IInv, result # <<>>,
             NEW q \in rows, q.by \in known, q.p \in DOMAIN result
      PROVE  /\ \A m \in Modifiers(result) : m.by \notin since[q.by]
             /\ \A o \in Creators(result, clock + 1) : q.by \notin since[o.by]
  <2>1. \A r \in rows : r \in Written /\ r.ts \in Nat
    BY <1>1 DEF IInv, TypeOK, Row, Written
  <2>2. \A r, t \in rows : t.by \in since[r.by] => t.ts < r.ts
    BY <1>1, <2>1 DEF IInv, SinceOK
  <2>3. Oldest(result[q.p]).ts <= q.ts /\ q.ts <= Latest(result[q.p]).ts
    BY <1>1, ShownBetween
  <2>4. \A p \in DOMAIN result : Latest(result[p]) \in rows /\ Oldest(result[p]) \in rows
    BY <1>1, ShownBetween
  <2>5. ASSUME NEW m \in Modifiers(result) PROVE m.by \notin since[q.by]
    <3>1. m \in rows /\ Latest(result[q.p]).ts <= m.ts
      BY <1>1, <2>4, CreditsGiven
    <3>2. m.ts \in Nat /\ q.ts \in Nat /\ Latest(result[q.p]).ts \in Nat
      BY <1>1, <2>1, <2>4, <3>1
    <3>3. ~(m.ts < q.ts)
      BY <2>3, <3>1, <3>2
    <3> QED
      BY <1>1, <2>2, <3>1, <3>3
  <2>6. ASSUME NEW o \in Creators(result, clock + 1) PROVE q.by \notin since[o.by]
    <3>1. o \in rows /\ o.ts <= Oldest(result[q.p]).ts
      BY <1>1, <2>4, CreditsGiven
    <3>2. o.ts \in Nat /\ q.ts \in Nat /\ Oldest(result[q.p]).ts \in Nat
      BY <1>1, <2>1, <2>4, <3>1
    <3>3. ~(q.ts < o.ts)
      BY <2>3, <3>1, <3>2
    <3> QED
      BY <1>1, <2>2, <3>1, <3>3
  <2> QED
    BY <2>5, <2>6
<1>2. ASSUME IInv, result # <<>>,
             NEW m \in Modifiers(result), NEW o \in Creators(result, clock + 1)
      PROVE  o.ts <= m.ts
  <2>1. PICK p \in DOMAIN result : m = Latest(result[p])
    BY <1>2, CreditsGiven
  <2>2. o.ts <= Oldest(result[p]).ts /\ \E d \in DOMAIN result : o = Oldest(result[d])
    BY <1>2, CreditsGiven
  <2>3. Oldest(result[p]).ts <= Latest(result[p]).ts
    BY <1>2, ShownBetween
  <2>4. o.ts \in Nat /\ m.ts \in Nat /\ Oldest(result[p]).ts \in Nat
    BY <1>2, <2>1, <2>2, ShownBetween DEF IInv, TypeOK, Row
  <2> QED
    BY <2>1, <2>2, <2>3, <2>4
<1>3. ASSUME IInv, result # <<>>
      PROVE  None \notin Modifiers(result) \cup Creators(result, clock + 1)
  <2>1. \A p \in DOMAIN result : Latest(result[p]) \in Row /\ Oldest(result[p]) \in Row
    BY <1>3, ShownBetween DEF IInv, TypeOK
  <2> QED
    BY <1>3, <2>1, CreditsGiven, ColumnsConstants
<1>4. IInv => CreditsRight
  BY <1>1, <1>2, <1>3 DEF CreditsRight
<1> QED
  BY <1>4, IInvInductive, PTL
=============================================================================
