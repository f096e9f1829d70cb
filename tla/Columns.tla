------------------------------- MODULE Columns -------------------------------
(***************************************************************************)
(* The versions of an entity's properties, from Set to ToMap: clients take  *)
(* an Update of one entity, which is stamped then, set properties and       *)
(* execute it, perhaps much later or more than once; a reader queries the   *)
(* entity, whose rows are sorted by time into columns of versions, and      *)
(* turns the result into a map.                                             *)
(*                                                                         *)
(* A row's value is the execution that wrote it.  Every client is the       *)
(* source of its own updates.                                               *)
(***************************************************************************)
EXTENDS Naturals, Sequences, FiniteSets, SequencesExt

CONSTANTS
  Clients,
  Preds,        \* properties
  StrictClock,  \* whether two readings of time.Now() always differ
  None,         \* no creator, no modifier
  MaxClock,     \* bound: time, so the NewUpdates
  MaxExecs      \* bound: executions, of all clients together

VARIABLES
  clock,    \* time
  upd,      \* client -> its Update; ts = 0 before NewUpdate
  todo,     \* client -> instructions its Execute has still to insert
  started,  \* executions so far
  rows,     \* the store
  result,   \* the columns of the reader's last result
  fatal,    \* log.Fatal ended the reader's process
  acked,    \* history: executions that returned nil
  since,    \* history: execution -> those acked when it was stamped
  known     \* history: executions acked when the reader queried

vars == <<clock, upd, todo, started, rows, result, fatal, acked, since, known>>

Execs == 1..MaxExecs
Row == [p: Preds, src: Clients, ts: Nat, by: Execs]

ASSUME ColumnsConstants ==
  /\ StrictClock \in BOOLEAN
  /\ None \notin Row
  /\ MaxClock \in Nat /\ MaxExecs \in Nat

NoUpdate == [ts |-> 0, edges |-> {}, since |-> {}]

Init ==
  /\ clock = 0
  /\ upd = [c \in Clients |-> NoUpdate]
  /\ todo = [c \in Clients |-> {}]
  /\ started = 0
  /\ rows = {}
  /\ result = <<>>
  /\ fatal = FALSE
  /\ acked = {}
  /\ since = [x \in Execs |-> {}]
  /\ known = {}

----------------------------------------------------------------------------
(* Writing. *)

InUserCode(c) ==
  /\ todo[c] = {}
  /\ started < MaxExecs
  /\ UNCHANGED <<rows, result, fatal, acked, known>>

\* NewUpdate reads the clock.
NewUpdate(c) ==
  /\ InUserCode(c)
  /\ \E t \in IF StrictClock \/ clock = 0 THEN {clock + 1} ELSE {clock, clock + 1} :
       /\ t <= MaxClock
       /\ clock' = t
       /\ upd' = [upd EXCEPT ![c] = [ts |-> t, edges |-> {}, since |-> acked]]
  /\ UNCHANGED <<todo, started, since>>

Set(c, p) ==
  /\ InUserCode(c)
  /\ upd[c].ts > 0
  /\ upd' = [upd EXCEPT ![c].edges = @ \cup {p}]
  /\ UNCHANGED <<clock, todo, started, since>>

\* Execute gives one instruction per property, all with the Update's time.
\* The Update may be used again, and keeps that time.
Instructions(c) ==
  {[p |-> p, src |-> c, ts |-> upd[c].ts, by |-> started + 1] : p \in upd[c].edges}

Execute(c) ==
  /\ InUserCode(c)
  /\ upd[c].edges # {}
  /\ todo' = [todo EXCEPT ![c] = Instructions(c)]
  /\ started' = started + 1
  /\ since' = [since EXCEPT ![started + 1] = upd[c].since]
  /\ UNCHANGED <<clock, upd>>

\* The driver adds a row, in the random order of the property map.
StoredReplacing(r) == {q \in rows : q.p # r.p} \cup {r}
Stored(r) == rows \cup {r}

Insert(c) ==
  /\ \E r \in todo[c] :
       /\ rows' = Stored(r)
       /\ todo' = [todo EXCEPT ![c] = @ \ {r}]
       /\ acked' = IF todo'[c] = {} THEN acked \cup {r.by} ELSE acked
  /\ UNCHANGED <<clock, upd, started, result, fatal, since, known>>

\* It fails after some rows, and the last of them may be there or not.
InsertFails(c) ==
  /\ \E r \in todo[c] : rows' \in {rows, Stored(r)}
  /\ todo' = [todo EXCEPT ![c] = {}]
  /\ UNCHANGED <<clock, upd, started, result, fatal, acked, since, known>>

----------------------------------------------------------------------------
(* Reading. *)

\* sort.Sort(x.Its(its)), which is not stable.
Less(q, r) == q.ts < r.ts
SortedNotAtAll(R) == SetToSeqs(R)
Sorted(R) ==
  {s \in [1..Cardinality(R) -> R] :
     \A i, j \in DOMAIN s : i < j => s[i] # s[j] /\ ~Less(s[j], s[i])}

\* Versions.add ends the process on a version older than the last one.
Ascending(s) == \A i \in 1..(Len(s) - 1) : s[i].ts <= s[i + 1].ts

LatestFirst(versions) == Head(versions)
Latest(versions) == Last(versions)
Oldest(versions) == Head(versions)

\* The entity's rows, gone through in order and added to their columns.  How
\* rows of different properties fall among each other does not matter.
Of(p) == {r \in rows : r.p = p}

Run ==
  /\ ~fatal
  /\ \E cols \in [Preds -> UNION {Sorted(Of(p)) : p \in Preds}] :
       /\ \A p \in Preds : ToSet(cols[p]) = Of(p)
       /\ result' = [p \in {r.p : r \in rows} |-> cols[p]]
       /\ fatal' = ~ \A p \in Preds : Ascending(cols[p])
  /\ known' = acked
  /\ UNCHANGED <<clock, upd, todo, started, rows, acked, since>>

\* The reader takes a property out of its result.
Drop(p) ==
  /\ ~fatal
  /\ p \in DOMAIN result
  /\ result' = [q \in DOMAIN result \ {p} |-> result[q]]
  /\ UNCHANGED <<clock, upd, todo, started, rows, fatal, acked, since, known>>

\* ToMap goes through the columns in random order, looking for the largest
\* NanoTs of a latest version, from 0, and for the smallest of an oldest one,
\* down from the time it is called at; it names the authors of both.
LatestTs(cols) == {0} \cup {Latest(cols[p]).ts : p \in DOMAIN cols}
OldestTs(cols, now) == {now} \cup {Oldest(cols[p]).ts : p \in DOMAIN cols}

Modifiers(cols) ==
  LET ts == Max(LatestTs(cols))
      newest == {Latest(cols[p]) : p \in DOMAIN cols}
  IN IF ts = 0 THEN {None} ELSE {r \in newest : r.ts = ts}
CreatorsByLatest(cols, now) ==
  LET ts == Min({now} \cup {Latest(cols[p]).ts : p \in DOMAIN cols})
      latest == {Latest(cols[p]) : p \in DOMAIN cols}
  IN IF ts = now THEN {None} ELSE {r \in latest : r.ts = ts}
Creators(cols, now) ==
  LET ts == Min(OldestTs(cols, now))
      oldest == {Oldest(cols[p]) : p \in DOMAIN cols}
  IN IF ts = now THEN {None} ELSE {r \in oldest : r.ts = ts}

----------------------------------------------------------------------------
Write(c) ==
  \/ NewUpdate(c) \/ Execute(c) \/ Insert(c) \/ InsertFails(c)
  \/ \E p \in Preds : Set(c, p)

Next ==
  \/ \E c \in Clients : Write(c)
  \/ Run
  \/ \E p \in Preds : Drop(p)

Spec == Init /\ [][Next]_vars

----------------------------------------------------------------------------
(* Properties. *)

\* The type of every variable.  The check in Versions.add never fails:
\* "unsorted list. Gocrud code is doing something wrong."
TypeOK ==
  /\ clock \in Nat
  /\ \A c \in Clients : /\ upd[c].ts \in Nat
                        /\ upd[c].edges \subseteq Preds
                        /\ upd[c].since \subseteq Execs
  /\ todo \in [Clients -> SUBSET Row]
  /\ started \in 0..MaxExecs
  /\ rows \subseteq Row
  /\ DOMAIN result \subseteq Preds
  /\ \A p \in DOMAIN result : result[p] \in Seq(Row) /\ result[p] # <<>>
  /\ acked \subseteq Execs /\ known \subseteq acked
  /\ since \in [Execs -> SUBSET Execs]
  /\ ~fatal

\* The value shown is not one that was superseded: no update of the property
\* was begun after the one shown had been acknowledged, and acknowledged
\* itself before the query.  This holds however long an Update is kept before
\* it is executed, and after a commit that failed half-way.
LastSetWins ==
  \A p \in DOMAIN result : \A q \in rows :
    q.p = p /\ q.by \in known => Latest(result[p]).by \notin since[q.by]

\* Who made an entity and who changed it last: the modifier of the map is not
\* the author of an update that was acknowledged before another one began
\* that the result shows, nor the creator that of an update begun after
\* another had been acknowledged; nobody is missing, and an entity is not
\* modified before it is created.
CreditsRight ==
  result # <<>> =>
    LET shown == {q \in rows : q.by \in known /\ q.p \in DOMAIN result}
    IN /\ \A m \in Modifiers(result) : m # None /\ \A q \in shown : m.by \notin since[q.by]
       /\ \A o \in Creators(result, clock + 1) :
            o # None /\ \A q \in shown : q.by \notin since[o.by]
       /\ \A m \in Modifiers(result), o \in Creators(result, clock + 1) : o.ts <= m.ts

\* "No actual data would be overwritten, as per the retention principle": a
\* column once shown is shown by every later query, with all its versions,
\* and its latest version does not become an older one.
Retained ==
  [][\A p \in DOMAIN result :
       IF p \in DOMAIN result'
       THEN /\ ToSet(result[p]) \subseteq ToSet(result'[p])
            /\ Latest(result[p]).ts <= Latest(result'[p]).ts
       ELSE Drop(p)]_vars

\* Set "would effectively replace any other value this property had": the
\* value of the Execute that returned last is shown.
SetReplaces ==
  \A p \in DOMAIN result : \A q \in rows :
    q.p = p /\ q.by \in known => Latest(result[p]).by >= q.by
=============================================================================
