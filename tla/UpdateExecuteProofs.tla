------------------------- MODULE UpdateExecuteProofs -------------------------
(* What is proved of UpdateExecute, for every set of clients, ids and         *)
(* properties, trees of any size and any number of retries and executions.    *)
EXTENDS UpdateExecute, SequenceTheorems, FiniteSetTheorems, TLAPS

-----------------------------------------------------------------------------
(* The shape of trees and calls, which the types rest on. *)

\* A tree while it is built or walked: parents come first, all nodes carry
\* the root's timestamp, and the root has an id.
TreeOK(t) ==
  /\ \A k \in DOMAIN t : /\ t[k].parent < k
                         /\ k > 1 => t[k].parent > 0
                         /\ t[k].ts = t[1].ts
                         /\ IsFiniteSet(t[k].edges)
  /\ t # <<>> => t[1].id # None

\* A node the walk has behind it: it has an id, and an author if it is linked.
Visited(t, k) ==
  /\ t[k].id # None
  /\ HasChildren(t, k) => t[k].source # None

\* Where the calls under way are in their trees and instructions.
CallOK ==
  \A c \in Clients :
    /\ TreeOK(upd[c])
    /\ pc[c] # "idle" => n[c] > 0
    /\ pc[c] = "visit" =>
         /\ pos[c] \in DOMAIN upd[c]
         /\ idx[c] > 0 => pos[c] > 1
         /\ at[c] = 0
         /\ \A k \in 1..(pos[c] - 1) : Visited(upd[c], k)
    /\ pc[c] \in {"commit", "notify"} => at[c] < Len(its[c])

-----------------------------------------------------------------------------
(* What the steps of a client come down to. *)

Build(c) ==
  /\ pc[c] = "idle" /\ ~exited
  /\ \E t \in Seq(Node) :
       /\ Len(t) <= MaxNodes /\ TreeOK(t)
       /\ upd' = [upd EXCEPT ![c] = t]
  /\ UNCHANGED <<client, started, reply, rows, exited, before>>

\* t is tree u but for the id that its node k has drawn.
Renames(t, u, k) ==
  /\ t \in Seq(Node) /\ Len(t) = Len(u)
  /\ \A j \in DOMAIN u :
       /\ t[j].parent = u[j].parent /\ t[j].source = u[j].source
       /\ t[j].edges = u[j].edges /\ t[j].ts = u[j].ts
       /\ j # k \/ k = 1 => t[j].id = u[j].id

\* The instructions of node k of tree t: its link, unless it is the root, and
\* its own properties.
NodeRows(t, k, x, new) ==
  /\ new \in Seq(Row)
  /\ \A i \in DOMAIN new : new[i].by = x /\ new[i].ts = t[1].ts /\ new[i].src # None
  /\ k = 1 => \A i \in DOMAIN new : new[i].p \in Preds /\ new[i].s = t[k].id
  /\ k > 1 =>
       /\ Len(new) > 1
       /\ new[1].s = t[t[k].parent].id /\ new[1].p = "_child_" /\ new[1].o = t[k].id
       /\ new[2].s = t[k].id /\ new[2].p = "_parent_" /\ new[2].o = t[t[k].parent].id
       /\ new[2].src = new[1].src
       /\ \A i \in DOMAIN new : i > 2 => new[i].p \in Preds /\ new[i].s = t[k].id

GivesUp(c) ==
  /\ pc' = [pc EXCEPT ![c] = "idle"]
  /\ reply' = [reply EXCEPT ![n[c]] = "error"]

Walk(c) ==
  /\ pc[c] = "visit" /\ ~exited
  /\ idx' = [idx EXCEPT ![c] = 0]
  /\ UNCHANGED <<rows, at, sent, n, started, before, exited>>
  /\ \E t \in Seq(Node) :
       /\ Renames(t, upd[c], pos[c])
       /\ upd' = [upd EXCEPT ![c] = t]
       /\ \/ GivesUp(c) /\ UNCHANGED <<pos, its>>
          \/ /\ \E new \in Seq(Row) :
                  /\ NodeRows(t, pos[c], n[c], new)
                  /\ its' = [its EXCEPT ![c] = @ \o new]
             /\ Visited(t, pos[c])
             /\ pos[c] > 1 => IsNew(t[pos[c]].id)
             /\ pos' = [pos EXCEPT ![c] = @ + 1]
             /\ \/ pos[c] < Len(t) /\ UNCHANGED <<pc, reply>>
                \/ /\ its'[c] # <<>>
                   /\ pc' = [pc EXCEPT ![c] = "commit"]
                   /\ UNCHANGED reply
                \/ GivesUp(c)

\* A rejected draw.
Redraw(c) ==
  /\ pc[c] = "visit" /\ ~exited
  /\ pos[c] > 1
  /\ \E t \in Seq(Node) :
       /\ Renames(t, upd[c], pos[c])
       /\ upd' = [upd EXCEPT ![c] = t]
  /\ \E i \in 0..MaxRetry : idx' = [idx EXCEPT ![c] = i]
  /\ UNCHANGED <<rows, pos, its, at, sent, n, started, before, exited>>
  /\ UNCHANGED <<pc, reply>> \/ GivesUp(c)

Write(c) ==
  /\ pc[c] = "commit" /\ ~exited
  /\ \E R \in SUBSET ToSet(its[c]) : rows' = rows \cup R
  /\ \/ /\ at[c] + 1 < Len(its[c])
        /\ at' = [at EXCEPT ![c] = @ + 1]
        /\ UNCHANGED <<pc, reply>>
     \/ /\ HasIndexer
        /\ at' = [at EXCEPT ![c] = 0]
        /\ pc' = [pc EXCEPT ![c] = "notify"]
        /\ UNCHANGED reply
     \/ /\ \E i \in {0, at[c]} : at' = [at EXCEPT ![c] = i]
        /\ pc' = [pc EXCEPT ![c] = "idle"]
        /\ \/ reply' = [reply EXCEPT ![n[c]] = "error"]
           \/ reply' = [reply EXCEPT ![n[c]] = "ok"] /\ ~HasIndexer
  /\ UNCHANGED <<upd, pos, idx, its, sent, n, started, before, exited>>

\* Changing a node other than in id, parent and time leaves a tree.
LEMMA NodeChanged ==
  ASSUME NEW u \in Seq(Node), TreeOK(u), Len(u) <= MaxNodes, NEW k \in DOMAIN u, NEW v \in Node,
         v.id = u[k].id, v.parent = u[k].parent, v.ts = u[k].ts, IsFiniteSet(v.edges)
  PROVE  LET t == [u EXCEPT ![k] = v]
         IN t \in Seq(Node) /\ Len(t) <= MaxNodes /\ TreeOK(t)
<1> DEFINE t == [u EXCEPT ![k] = v]
<1>1. DOMAIN u = 1..Len(u) /\ Len(u) \in Nat
  OBVIOUS
<1>2. /\ t \in Seq(Node) /\ Len(t) = Len(u) /\ DOMAIN t = DOMAIN u
      /\ \A j \in DOMAIN u : t[j] = IF j = k THEN v ELSE u[j]
  BY <1>1, ExceptSeq
<1>3. t # <<>> /\ u # <<>> /\ 1 \in DOMAIN u
  BY <1>1, <1>2
<1> HIDE DEF t
<1>4. TreeOK(t)
  <2>1. t[1].id = u[1].id /\ t[1].ts = u[1].ts
    BY <1>2, <1>3
  <2>2. \A j \in DOMAIN t : /\ t[j].parent = u[j].parent /\ t[j].ts = u[j].ts
                            /\ IsFiniteSet(t[j].edges)
    BY <1>2 DEF TreeOK
  <2> QED
    BY <2>1, <2>2, <1>2, <1>3 DEF TreeOK
<1> QED
  BY <1>2, <1>4 DEF t

\* The application changes its own tree, and it stays one.
LEMMA BuildSteps ==
  ASSUME TypeOK, CallOK, NEW c \in Clients,
         NewUpdate(c) \/ SetSource(c) \/ AddChild(c) \/ Set(c) \/ SetCommitTs(c)
  PROVE  Build(c)
<1> DEFINE u == upd[c]
<1>1. /\ u \in Seq(Node) /\ Len(u) \in Nat /\ DOMAIN u = 1..Len(u)
      /\ Len(u) <= MaxNodes /\ TreeOK(u) /\ \A k \in DOMAIN u : u[k] \in Node
  BY DEF TypeOK, CallOK
<1> SUFFICES \E t \in Seq(Node) :
               Len(t) <= MaxNodes /\ TreeOK(t) /\ upd' = [upd EXCEPT ![c] = t]
  BY DEF Build, NewUpdate, SetSource, AddChild, Set, SetCommitTs, Building, InUserCode
<1>2. CASE NewUpdate(c)
  <2>1. PICK id \in RootIds \cup {r.s : r \in rows}, ts \in Times :
          upd' = [upd EXCEPT ![c] =
            << [id |-> id, source |-> None, parent |-> 0, edges |-> {}, ts |-> ts] >>]
    BY <1>2 DEF NewUpdate
  <2> DEFINE v == [id |-> id, source |-> None, parent |-> 0, edges |-> {}, ts |-> ts]
  <2>2. id \in Subjects
    BY DEF TypeOK, Row, Subjects
  <2>3. v \in Node
    BY <2>2, Constants DEF Node
  <2>4. <<v>> \in Seq(Node) /\ Len(<<v>>) = 1 /\ <<v>>[1] = v /\ DOMAIN <<v>> = {1}
    BY <2>3
  <2>5. v.id # None /\ v.parent = 0 /\ IsFiniteSet(v.edges)
    BY <2>2, Constants, FS_EmptySet DEF Subjects
  <2>6. 1 <= MaxNodes
    BY Constants
  <2> HIDE DEF v
  <2>7. TreeOK(<<v>>)
    BY <2>4, <2>5 DEF TreeOK
  <2> QED
    BY <2>1, <2>4, <2>6, <2>7 DEF v
<1>3. CASE SetSource(c)
  <2>1. PICK k \in DOMAIN u, src \in Sources \cup {None} :
          upd' = [upd EXCEPT ![c] = [u EXCEPT ![k] = [u[k] EXCEPT !.source = src]]]
    BY <1>3 DEF SetSource
  <2> DEFINE v == [u[k] EXCEPT !.source = src]
  <2>2. /\ v \in Node /\ v.id = u[k].id /\ v.parent = u[k].parent /\ v.ts = u[k].ts
        /\ v.edges = u[k].edges
    BY <1>1 DEF Node
  <2>3. IsFiniteSet(v.edges)
    BY <2>2, <1>1 DEF TreeOK
  <2> HIDE DEF v, u
  <2> QED
    BY <2>1, <2>2, <2>3, <1>1, NodeChanged DEF v
<1>4. CASE AddChild(c)
  <2>1. PICK k \in DOMAIN u :
          upd' = [upd EXCEPT ![c] = Append(u,
            [id |-> None, source |-> u[k].source, parent |-> k, edges |-> {}, ts |-> u[k].ts])]
    BY <1>4 DEF AddChild
  <2>2. Len(u) < MaxNodes
    BY <1>4 DEF AddChild
  <2> DEFINE v == [id |-> None, source |-> u[k].source, parent |-> k, edges |-> {}, ts |-> u[k].ts]
             t == Append(u, v)
  <2>3. k \in 0..MaxNodes /\ k > 0 /\ k <= Len(u) /\ u[k] \in Node
    BY <1>1, Constants
  <2>4. v \in Node /\ v.parent = k /\ v.ts = u[1].ts /\ v.edges = {}
    BY <1>1, <2>3 DEF Node, TreeOK
  <2>0. IsFiniteSet(v.edges)
    BY <2>4, FS_EmptySet, Zenon
  <2> HIDE DEF v
  <2>5. t \in Seq(Node) /\ Len(t) = Len(u) + 1 /\ t[Len(u) + 1] = v
        /\ \A j \in DOMAIN u : t[j] = u[j]
    BY <1>1, <2>4, AppendProperties
  <2> HIDE DEF t, u
  <2>6. DOMAIN t = DOMAIN u \cup {Len(u) + 1} /\ u # <<>> /\ 1 \in DOMAIN u
    BY <1>1, <2>3, <2>5
  <2>7. Len(t) <= MaxNodes
    BY <2>2, <2>5, <1>1, Constants
  <2>8. \A j \in DOMAIN t : /\ t[j].parent < j
                            /\ j > 1 => t[j].parent > 0
                            /\ t[j].ts = t[1].ts
                            /\ IsFiniteSet(t[j].edges)
    <3> TAKE j \in DOMAIN t
    <3>1. CASE j \in DOMAIN u
      BY <3>1, <1>1, <2>5, <2>6 DEF TreeOK
    <3>2. CASE j = Len(u) + 1
      <4>1. t[j] = v /\ t[1] = u[1]
        BY <3>2, <2>5, <2>6
      <4>2. k < j
        BY <3>2, <1>1, <2>3
      <4> QED
        BY <4>1, <4>2, <2>0, <2>3, <2>4
    <3> QED
      BY <3>1, <3>2, <2>6
  <2>9. TreeOK(t)
    BY <2>8, <2>5, <2>6, <1>1 DEF TreeOK
  <2> QED
    BY <2>1, <2>5, <2>7, <2>9 DEF t, v
<1>5. CASE Set(c)
  <2>1. PICK k \in DOMAIN u, p \in Preds :
          upd' = [upd EXCEPT ![c] = [u EXCEPT ![k] = [u[k] EXCEPT !.edges = u[k].edges \cup {p}]]]
    BY <1>5 DEF Set
  <2> DEFINE v == [u[k] EXCEPT !.edges = u[k].edges \cup {p}]
  <2>2. /\ v \in Node /\ v.id = u[k].id /\ v.parent = u[k].parent /\ v.ts = u[k].ts
        /\ v.edges = u[k].edges \cup {p}
    BY <1>1 DEF Node
  <2>3. IsFiniteSet(v.edges)
    <3>1. IsFiniteSet(u[k].edges)
      BY <1>1 DEF TreeOK
    <3> HIDE DEF v, u
    <3> QED
      BY <2>2, <3>1, FS_AddElement
  <2> HIDE DEF v, u
  <2> QED
    BY <2>1, <2>2, <2>3, <1>1, NodeChanged DEF v
<1>6. CASE SetCommitTs(c)
  <2>1. PICK ts \in Times : upd' = [upd EXCEPT ![c] = setCommitTs(u, ts)]
    BY <1>6 DEF SetCommitTs
  <2> DEFINE t == setCommitTs(u, ts)
  <2>2. /\ t = [k \in 1..Len(u) |-> [u[k] EXCEPT !.ts = ts]]
        /\ \A k \in DOMAIN u : /\ [u[k] EXCEPT !.ts = ts] \in Node
                               /\ [u[k] EXCEPT !.ts = ts].ts = ts
                               /\ [u[k] EXCEPT !.ts = ts].id = u[k].id
                               /\ [u[k] EXCEPT !.ts = ts].parent = u[k].parent
                               /\ [u[k] EXCEPT !.ts = ts].edges = u[k].edges
    BY <1>1 DEF setCommitTs, Node
  <2>3. /\ t \in Seq(Node) /\ Len(t) = Len(u) /\ DOMAIN t = DOMAIN u
        /\ \A k \in DOMAIN u : t[k] = [u[k] EXCEPT !.ts = ts]
    BY <1>1, <2>2
  <2> HIDE DEF t
  <2>4. \A k \in DOMAIN u : t[k].ts = ts /\ t[k].id = u[k].id
                            /\ t[k].parent = u[k].parent /\ t[k].edges = u[k].edges
    BY <2>2, <2>3
  <2> HIDE DEF u
  <2>5. u # <<>> /\ 1 \in DOMAIN u
    BY <1>1, <1>6 DEF SetCommitTs, u
  <2>6. TreeOK(t)
    BY <2>3, <2>4, <2>5, <1>1 DEF TreeOK
  <2> QED
    BY <2>1, <2>3, <2>6, <1>1 DEF t
<1> QED
  BY <1>2, <1>3, <1>4, <1>5, <1>6

\* A client that has called Execute has a number for that call.
LEMMA CallIsExec ==
  ASSUME TypeOK, NEW c \in Clients, n[c] > 0
  PROVE  n[c] \in Execs
<1>1. n[c] \in 0..MaxExecs /\ MaxExecs \in Nat
  BY Constants DEF TypeOK
<1> QED
  BY <1>1 DEF Execs

\* A node's own rows: one for each of its properties.
LEMMA EdgeRowsType ==
  ASSUME TypeOK, NEW c \in Clients, n[c] > 0, NEW t \in Seq(Node), NEW k \in DOMAIN t,
         t[k].id # None, IsFiniteSet(t[k].edges), NEW es \in EdgeRows(c, t, k)
  PROVE  /\ es \in Seq(Row)
         /\ \A i \in DOMAIN es :
              /\ es[i].s = t[k].id /\ es[i].p \in t[k].edges /\ es[i].p \in Preds
              /\ es[i].src = t[k].source /\ es[i].ts = t[k].ts /\ es[i].by = n[c]
<1> DEFINE m == Cardinality(t[k].edges)
           RowOf(p) == [s |-> t[k].id, p |-> p, o |-> None, src |-> t[k].source,
                        ts |-> t[k].ts, by |-> n[c]]
<1>1. t[k] \in Node
  OBVIOUS
<1>2. m \in Nat
  BY FS_CardinalityType
<1>3. PICK ps \in SetToSeqs(t[k].edges) : es = [i \in DOMAIN ps |-> RowOf(ps[i])]
  BY DEF EdgeRows
<1>4. ps \in [1..m -> t[k].edges]
  BY <1>3 DEF SetToSeqs
<1>5. n[c] \in Execs
  BY CallIsExec
<1>6. \A p \in t[k].edges : p \in Preds /\ RowOf(p) \in Row
  BY <1>1, <1>5 DEF Node, Row
<1>7. \A p : /\ RowOf(p).s = t[k].id /\ RowOf(p).p = p /\ RowOf(p).src = t[k].source
             /\ RowOf(p).ts = t[k].ts /\ RowOf(p).by = n[c]
  OBVIOUS
<1> HIDE DEF RowOf, m
<1>8. es \in [1..m -> Row] /\ DOMAIN es = 1..m
  BY <1>3, <1>4, <1>6
<1>9. es \in Seq(Row)
  BY <1>2, <1>8
<1>10. \A i \in DOMAIN es : ps[i] \in t[k].edges /\ es[i] = RowOf(ps[i])
  BY <1>3, <1>4, <1>8
<1> QED
  BY <1>6, <1>7, <1>9, <1>10

\* The two rows that link a child.
LEMMA LinkRowsType ==
  ASSUME TypeOK, NEW c \in Clients, n[c] > 0, NEW t \in Seq(Node), NEW k \in DOMAIN t,
         t[k].id # None, t[k].parent \in DOMAIN t, t[t[k].parent].id # None
  PROVE  LET l == LinkRows(c, t, k)
             p == t[t[k].parent]
         IN /\ l \in Seq(Row) /\ Len(l) = 2
            /\ l[1].s = p.id /\ l[1].p = "_child_" /\ l[1].o = t[k].id
            /\ l[2].s = t[k].id /\ l[2].p = "_parent_" /\ l[2].o = p.id
            /\ \A i \in {1, 2} : l[i].src = p.source /\ l[i].ts = p.ts /\ l[i].by = n[c]
<1> DEFINE l == LinkRows(c, t, k)
           p == t[t[k].parent]
           l1 == [s |-> p.id, p |-> "_child_", o |-> t[k].id,
                  src |-> p.source, ts |-> p.ts, by |-> n[c]]
           l2 == [s |-> t[k].id, p |-> "_parent_", o |-> p.id,
                  src |-> p.source, ts |-> p.ts, by |-> n[c]]
<1>1. t[k] \in Node /\ p \in Node
  OBVIOUS
<1>2. n[c] \in Execs
  BY CallIsExec
<1>3. l1 \in Row /\ l2 \in Row
  BY <1>1, <1>2 DEF Node, Row
<1>4. l = <<l1, l2>>
  BY DEF LinkRows
<1> QED
  BY <1>3, <1>4

\* A link and a node's own rows go behind the instructions in one piece.
LEMMA RowsAppended ==
  ASSUME NEW q \in Seq(Row), NEW r \in Seq(Row), NEW s \in Seq(Row)
  PROVE  q \o r \o s = q \o (r \o s)
BY ConcatAssociative

\* Generate, for the node that the walk is at.
LEMMA GenerateWalks ==
  ASSUME TypeOK, CallOK, NEW c \in Clients, pc[c] = "visit", ~exited,
         NEW t \in Seq(Node), Renames(t, upd[c], pos[c]), t[pos[c]].id # None,
         pos[c] > 1 => IsNew(t[pos[c]].id), NEW links,
         links = IF pos[c] = 1 THEN <<>> ELSE LinkRows(c, t, pos[c]),
         Generate(c, t, pos[c], links)
  PROVE  Walk(c)
<1> DEFINE k == pos[c]
           u == upd[c]
<1>1. /\ u \in Seq(Node) /\ DOMAIN u = 1..Len(u) /\ Len(u) \in Nat
      /\ DOMAIN t = 1..Len(t) /\ Len(t) = Len(u)
      /\ k \in DOMAIN u /\ k \in DOMAIN t /\ k \in Nat /\ TreeOK(u) /\ n[c] > 0
      /\ \A j \in 1..(k - 1) : Visited(u, j)
  BY DEF TypeOK, CallOK, Renames
<1>2. IsFiniteSet(t[k].edges) /\ t[k].ts = t[1].ts
  BY <1>1 DEF TreeOK, Renames
<1>3. /\ upd' = [upd EXCEPT ![c] = t] /\ idx' = [idx EXCEPT ![c] = 0]
      /\ UNCHANGED <<rows, at, sent, n, started, before, exited>>
  BY DEF Generate, Return, outcome
<1>4. CASE Refuses(t, k)
  BY <1>3, <1>4 DEF Generate, Return, Walk, GivesUp
<1>5. CASE ~Refuses(t, k)
  <2>1. PICK es \in EdgeRows(c, t, k) : its' = [its EXCEPT ![c] = @ \o links \o es]
    BY <1>5 DEF Generate
  <2>2. /\ es \in Seq(Row)
        /\ \A i \in DOMAIN es :
             /\ es[i].s = t[k].id /\ es[i].p \in t[k].edges /\ es[i].p \in Preds
             /\ es[i].src = t[k].source /\ es[i].ts = t[k].ts /\ es[i].by = n[c]
    BY <1>1, <1>2, EdgeRowsType
  <2>3. Visited(t, k)
    BY <1>5 DEF Refuses, Visited
  <2>4. \A i \in DOMAIN es : es[i].src # None
    BY <2>2, <1>5 DEF Refuses
  <2> DEFINE new == links \o es
  <2>0. new = links \o es /\ its[c] \in Seq(Row) /\ (k = 1 \/ k > 1)
    BY <1>1 DEF TypeOK
  <2> HIDE DEF new
  <2>5. links \in Seq(Row) /\ new \in Seq(Row)
        /\ its[c] \o links \o es = its[c] \o new /\ NodeRows(t, k, n[c], new)
    <3>1. CASE k = 1
      <4>1. links = <<>>
        BY <3>1
      <4>2. new = es /\ links \in Seq(Row)
        BY <4>1, <2>0, <2>2, ConcatEmptySeq, EmptySeq
      <4>3. its[c] \o links \o es = its[c] \o es
        BY <4>1, <2>0, <2>2, ConcatEmptySeq
      <4>4. NodeRows(t, k, n[c], es)
        BY <3>1, <2>2, <2>4, <1>2 DEF NodeRows
      <4> QED
        BY <4>2, <4>3, <4>4, <2>2
    <3>2. CASE k > 1
      <4> DEFINE a == t[k].parent
                 p == t[a]
      <4>1. a \in 1..(k - 1) /\ a = u[k].parent
        <5>1. u[k] \in Node /\ u[k].parent < k /\ u[k].parent > 0
          BY <1>1, <3>2 DEF TreeOK
        <5> QED
          BY SMTT(30), <5>1, <1>1, Constants DEF Renames, Node
      <4>2. a \in DOMAIN t /\ a \in DOMAIN u /\ a # k
        BY <4>1, <1>1
      <4>3. HasChildren(u, a) /\ Visited(u, a)
        BY <4>1, <1>1 DEF HasChildren
      <4>4. p.id # None /\ p.source # None /\ p.ts = t[1].ts
        <5>1. p.id = u[a].id /\ p.source = u[a].source /\ p.ts = u[a].ts
          BY <4>2 DEF Renames
        <5>2. t[1].ts = u[1].ts /\ u[a].ts = u[1].ts
          BY <1>1, <4>2 DEF TreeOK, Renames
        <5> QED
          BY <5>1, <5>2, <4>3 DEF Visited
      <4>5. /\ links \in Seq(Row) /\ Len(links) = 2
            /\ links[1].s = p.id /\ links[1].p = "_child_" /\ links[1].o = t[k].id
            /\ links[2].s = t[k].id /\ links[2].p = "_parent_" /\ links[2].o = p.id
            /\ \A i \in {1, 2} : links[i].src = p.source /\ links[i].ts = p.ts /\ links[i].by = n[c]
        BY SMTT(30), <3>2, <4>2, <4>4, <1>1, LinkRowsType
      <4>6. /\ new \in Seq(Row) /\ Len(new) = 2 + Len(es) /\ Len(es) \in Nat /\ DOMAIN es = 1..Len(es)
            /\ \A i \in 1..(2 + Len(es)) : new[i] = IF i <= 2 THEN links[i] ELSE es[i - 2]
        <5>1. Len(es) \in Nat /\ DOMAIN es = 1..Len(es)
          BY <2>2
        <5>2. links \in Seq(Row) /\ es \in Seq(Row) /\ Len(links) = 2
          BY <4>5, <2>2
        <5>3. /\ new \in Seq(Row) /\ Len(new) = Len(links) + Len(es)
              /\ \A i \in 1..(Len(links) + Len(es)) :
                   new[i] = IF i <= Len(links) THEN links[i] ELSE es[i - Len(links)]
          BY <5>2, <2>0, ConcatProperties
        <5> QED
          BY <5>1, <5>2, <5>3
      <4>7. its[c] \o links \o es = its[c] \o new
        BY <4>5, <2>2, <2>0, RowsAppended
      <4> HIDE DEF k
      <4>8. DOMAIN new = 1..(2 + Len(es)) /\ new[1] = links[1] /\ new[2] = links[2]
        BY <4>6
      <4>9. ASSUME NEW i \in DOMAIN new, i > 2
            PROVE  i - 2 \in DOMAIN es /\ new[i] = es[i - 2]
        BY <4>6, <4>8, <4>9
      <4>10. \A i \in DOMAIN new : new[i].by = n[c] /\ new[i].ts = t[1].ts /\ new[i].src # None
        <5> TAKE i \in DOMAIN new
        <5>1. CASE i > 2
          BY <5>1, <4>9, <2>2, <2>4, <1>2
        <5>2. CASE i \in {1, 2}
          BY <5>2, <4>8, <4>5, <4>4
        <5> QED
          BY <5>1, <5>2, <4>8
      <4>11. \A i \in DOMAIN new : i > 2 => new[i].p \in Preds /\ new[i].s = t[k].id
        BY <4>9, <2>2
      <4>12. NodeRows(t, k, n[c], new)
        BY <4>5, <4>6, <4>8, <4>10, <4>11, <3>2 DEF NodeRows
      <4> QED
        BY <4>5, <4>6, <4>7, <4>12
    <3> QED
      BY <3>1, <3>2, <2>0
  <2>6. its' = [its EXCEPT ![c] = @ \o new]
    BY <2>1, <2>5
  <2>7. pos' = [pos EXCEPT ![c] = @ + 1]
    BY <1>5 DEF Generate
  <2>8. \/ k < Len(t) /\ UNCHANGED <<pc, reply>>
        \/ /\ its'[c] # <<>>
           /\ pc' = [pc EXCEPT ![c] = "commit"]
           /\ UNCHANGED reply
        \/ GivesUp(c)
    BY <1>5 DEF Generate, GivesUp, Return, outcome
  <2> QED
    BY <1>3, <2>3, <2>5, <2>6, <2>7, <2>8 DEF Walk
<1> QED
  BY <1>4, <1>5

\* A drawn id changes nothing else of the tree.
LEMMA DrawRenames ==
  ASSUME TypeOK, CallOK, NEW c \in Clients, pc[c] = "visit", pos[c] > 1, NEW id \in Ids
  PROVE  LET t == [upd[c] EXCEPT ![pos[c]].id = id]
         IN /\ t \in Seq(Node) /\ Renames(t, upd[c], pos[c])
            /\ t[pos[c]].id = id /\ id # None
<1> DEFINE u == upd[c]
           k == pos[c]
           v == [u[k] EXCEPT !.id = id]
           t == [u EXCEPT ![k] = v]
<1>1. /\ u \in Seq(Node) /\ DOMAIN u = 1..Len(u) /\ Len(u) \in Nat /\ k \in DOMAIN u
      /\ u[k] \in Node
  BY DEF TypeOK, CallOK
<1>2. /\ v \in Node /\ v.id = id /\ v.parent = u[k].parent /\ v.source = u[k].source
      /\ v.edges = u[k].edges /\ v.ts = u[k].ts
  BY <1>1 DEF Node, Subjects
<1> HIDE DEF v
<1>3. /\ t \in Seq(Node) /\ Len(t) = Len(u)
      /\ \A j \in DOMAIN u : t[j] = IF j = k THEN v ELSE u[j]
  BY <1>1, <1>2, ExceptSeq
<1> HIDE DEF t
<1>4. Renames(t, u, k) /\ t[k].id = id /\ id # None
  BY <1>1, <1>2, <1>3, Constants DEF Renames
<1> QED
  BY <1>3, <1>4 DEF t, v

\* doExecute at a node that gives its rows, or is refused.
LEMMA WalkSteps ==
  ASSUME TypeOK, CallOK, NEW c \in Clients, VisitRoot(c) \/ VisitChild(c)
  PROVE  Walk(c)
<1>1. pc[c] = "visit" /\ ~exited
  BY DEF VisitRoot, VisitChild, Drawing, Running
<1>2. CASE VisitRoot(c)
  <2>1. upd[c] \in Seq(Node) /\ upd[c] # <<>>
    BY <1>1 DEF TypeOK, CallOK
  <2>2. Renames(upd[c], upd[c], pos[c])
    BY <2>1 DEF Renames
  <2>3. pos[c] = 1 /\ upd[c][1].id # None /\ Generate(c, upd[c], pos[c], <<>>)
    BY <1>2, <2>1 DEF VisitRoot, CallOK, TreeOK
  <2> QED
    BY <1>1, <2>1, <2>2, <2>3, GenerateWalks
<1>3. CASE VisitChild(c)
  <2>1. PICK id \in Ids :
          LET t == [upd[c] EXCEPT ![pos[c]].id = id]
          IN IsNew(id) /\ Generate(c, t, pos[c], LinkRows(c, t, pos[c]))
    BY <1>3 DEF VisitChild
  <2> DEFINE t == [upd[c] EXCEPT ![pos[c]].id = id]
  <2>2. pos[c] > 1 /\ pos[c] # 1
    BY <1>3 DEF VisitChild, Drawing, TypeOK
  <2>3. /\ t \in Seq(Node) /\ Renames(t, upd[c], pos[c])
        /\ t[pos[c]].id = id /\ id # None
    BY <1>1, <2>2, DrawRenames
  <2>4. IsNew(id) /\ Generate(c, t, pos[c], LinkRows(c, t, pos[c]))
    BY <2>1
  <2> HIDE DEF t
  <2> QED
    BY <1>1, <2>2, <2>3, <2>4, GenerateWalks
<1> QED
  BY <1>2, <1>3

\* An id is refused.
LEMMA RedrawSteps ==
  ASSUME TypeOK, CallOK, NEW c \in Clients, DrawRejected(c)
  PROVE  Redraw(c)
<1>1. pc[c] = "visit" /\ ~exited /\ pos[c] > 1
  BY DEF DrawRejected, Drawing, Running
<1>2. PICK id \in Ids : upd' = [upd EXCEPT ![c][pos[c]].id = id]
  BY DEF DrawRejected
<1> DEFINE t == [upd[c] EXCEPT ![pos[c]].id = id]
<1>3. t \in Seq(Node) /\ Renames(t, upd[c], pos[c])
  BY <1>1, DrawRenames
<1>4. upd' = [upd EXCEPT ![c] = t]
  BY <1>2
<1> HIDE DEF t
<1>5. \E i \in 0..MaxRetry : idx' = [idx EXCEPT ![c] = i]
  <2>1. idx[c] \in 0..MaxRetry
    BY DEF TypeOK
  <2>2. \/ idx' = [idx EXCEPT ![c] = 0]
        \/ ~(idx[c] >= MaxRetry) /\ idx' = [idx EXCEPT ![c] = idx[c] + 1]
    BY DEF DrawRejected
  <2>3. ~(idx[c] >= MaxRetry) => idx[c] + 1 \in 0..MaxRetry
    BY <2>1, Constants
  <2>4. 0 \in 0..MaxRetry
    BY Constants
  <2> QED
    BY <2>2, <2>3, <2>4
<1>6. UNCHANGED <<pc, reply>> \/ GivesUp(c)
  BY DEF DrawRejected, Return, GivesUp, outcome
<1>7. UNCHANGED <<rows, pos, its, at, sent, n, started, before, exited>>
  BY DEF DrawRejected, Return, outcome
<1> QED
  BY <1>1, <1>3, <1>4, <1>5, <1>6, <1>7 DEF Redraw

\* A commit, whatever the driver, puts rows in the store and succeeds, fails
\* or goes on.
LEMMA WriteSteps ==
  ASSUME TypeOK, CallOK, NEW c \in Clients,
         CommitBatch(c) \/ CommitBatchFails(c) \/ InsertRow(c) \/ InsertRowFails(c)
  PROVE  Write(c)
<1>1. /\ pc[c] = "commit" /\ ~exited
      /\ UNCHANGED <<upd, pos, idx, its, sent, n, started, before, exited>>
  BY DEF CommitBatch, CommitBatchFails, InsertRow, InsertRowFails, Committing, Running,
         CommitFailed, Committed, Return, outcome
<1>2. its[c] \in Seq(Row) /\ at[c] \in Nat /\ at[c] < Len(its[c])
  BY <1>1 DEF TypeOK, CallOK
<1>3. its[c][at[c] + 1] \in ToSet(its[c])
  BY <1>2 DEF ToSet
<1>4. \E R \in SUBSET ToSet(its[c]) : rows' = rows \cup R
  <2>1. CASE CommitBatch(c)
    BY <2>1 DEF CommitBatch
  <2>2. CASE CommitBatchFails(c)
    <3>1. PICK S \in Surviving(ToSet(its[c])) : rows' = rows \cup S
      BY <2>2 DEF CommitBatchFails
    <3>2. S \subseteq ToSet(its[c])
      BY DEF Surviving
    <3> QED
      BY <3>1, <3>2
  <2>3. CASE InsertRow(c) \/ InsertRowFails(c)
    <3>1. rows' = rows \cup {} \/ rows' = rows \cup {its[c][at[c] + 1]}
      BY <2>3 DEF InsertRow, InsertRowFails
    <3> QED
      BY <3>1, <1>3
  <2> QED
    BY <2>1, <2>2, <2>3
<1>5. Committed(c) =>
        \/ /\ HasIndexer
           /\ at' = [at EXCEPT ![c] = 0]
           /\ pc' = [pc EXCEPT ![c] = "notify"]
           /\ UNCHANGED reply
        \/ /\ at' = [at EXCEPT ![c] = 0]
           /\ pc' = [pc EXCEPT ![c] = "idle"]
           /\ reply' = [reply EXCEPT ![n[c]] = "ok"] /\ ~HasIndexer
  BY DEF Committed, Return, outcome
<1>6. CommitFailed(c) =>
        \/ Committed(c)
        \/ /\ at' = [at EXCEPT ![c] = at[c]]
           /\ pc' = [pc EXCEPT ![c] = "idle"]
           /\ reply' = [reply EXCEPT ![n[c]] = "error"]
  BY DEF CommitFailed, Return, TypeOK
<1>7. \/ Committed(c) \/ CommitFailed(c)
      \/ /\ at[c] + 1 < Len(its[c])
         /\ at' = [at EXCEPT ![c] = @ + 1]
         /\ UNCHANGED <<pc, reply>>
  BY DEF CommitBatch, CommitBatchFails, InsertRow, InsertRowFails, outcome
<1>8. \/ /\ at[c] + 1 < Len(its[c])
         /\ at' = [at EXCEPT ![c] = @ + 1]
         /\ UNCHANGED <<pc, reply>>
      \/ /\ HasIndexer
         /\ at' = [at EXCEPT ![c] = 0]
         /\ pc' = [pc EXCEPT ![c] = "notify"]
         /\ UNCHANGED reply
      \/ /\ \E i \in {0, at[c]} : at' = [at EXCEPT ![c] = i]
         /\ pc' = [pc EXCEPT ![c] = "idle"]
         /\ \/ reply' = [reply EXCEPT ![n[c]] = "error"]
            \/ reply' = [reply EXCEPT ![n[c]] = "ok"] /\ ~HasIndexer
  BY <1>5, <1>6, <1>7, Zenon
<1> QED
  BY <1>1, <1>4, <1>8 DEF Write

\* What a step is, for the invariants below.
LEMMA StepKinds ==
  ASSUME TypeOK, CallOK, [Next]_vars
  PROVE  \/ \E c \in Clients : \/ Build(c) \/ Execute(c) \/ Walk(c) \/ Redraw(c)
                               \/ FatalChildId(c) \/ Write(c) \/ Notify(c)
         \/ UNCHANGED vars
BY BuildSteps, WalkSteps, RedrawSteps, WriteSteps DEF Next, Step, Done

-----------------------------------------------------------------------------
(* Types. *)

\* Renaming a node keeps the tree, and what is known of its other nodes.
LEMMA RenamedTree ==
  ASSUME NEW u \in Seq(Node), TreeOK(u), NEW t, NEW k \in DOMAIN u, Renames(t, u, k)
  PROVE  /\ TreeOK(t) /\ DOMAIN t = DOMAIN u
         /\ t[1].id = u[1].id /\ t[1].ts = u[1].ts
         /\ \A j \in DOMAIN u : HasChildren(t, j) <=> HasChildren(u, j)
         /\ \A j \in DOMAIN u : j # k /\ Visited(u, j) => Visited(t, j)
<1>1. DOMAIN t = DOMAIN u /\ u # <<>> /\ t # <<>> /\ 1 \in DOMAIN u
  BY DEF Renames
<1>2. \A j \in DOMAIN u : HasChildren(t, j) <=> HasChildren(u, j)
  BY <1>1 DEF HasChildren, Renames
<1>3. \A j \in DOMAIN u : j # k /\ Visited(u, j) => Visited(t, j)
  BY <1>2 DEF Visited, Renames
<1>4. t[1].id = u[1].id /\ t[1].ts = u[1].ts
  BY <1>1 DEF Renames
<1>5. TreeOK(t)
  BY <1>1, <1>4 DEF TreeOK, Renames
<1> QED
  BY <1>1, <1>2, <1>3, <1>4, <1>5

LEMMA InitType == Init => TypeOK /\ CallOK
<1> SUFFICES ASSUME Init PROVE TypeOK /\ CallOK
  OBVIOUS
<1>1. 1 \in 1..(MaxNodes + 1) /\ 0 \in 0..MaxRetry /\ 0 \in 0..MaxExecs /\ 0 <= MaxNodes
  BY Constants
<1>2. \A S : <<>> \in Seq(S) /\ Len(<<>>) = 0
  OBVIOUS
<1>3. TypeOK
  BY <1>1, <1>2 DEF Init, TypeOK
<1>4. TreeOK(<<>>)
  BY DEF TreeOK
<1> QED
  BY <1>3, <1>4 DEF Init, CallOK

\* No step leaves the types ...
LEMMA TypeStep ==
  ASSUME TypeOK, CallOK, [Next]_vars
  PROVE  TypeOK'
<1>0. n \in [Clients -> 0..MaxExecs] /\ \A c \in Clients : n[c] > 0 => n[c] \in Execs
  <2>1. n \in [Clients -> 0..MaxExecs]
    BY DEF TypeOK
  <2> QED
    BY <2>1, CallIsExec
<1>1. ASSUME NEW c \in Clients, Build(c) PROVE TypeOK'
  <2>1. PICK t \in Seq(Node) : Len(t) <= MaxNodes /\ upd' = [upd EXCEPT ![c] = t]
    BY <1>1 DEF Build
  <2>2. upd' \in [Clients -> Seq(Node)] /\ \A d \in Clients : Len(upd'[d]) <= MaxNodes
    BY <2>1 DEF TypeOK
  <2> QED
    BY <1>1, <2>2 DEF Build, client, TypeOK
<1>2. ASSUME NEW c \in Clients, Execute(c) PROVE TypeOK'
  <2>1. started + 1 \in 0..MaxExecs /\ 1 \in 1..(MaxNodes + 1) /\ 0 \in 0..MaxRetry
    BY <1>2, Constants DEF Execute, TypeOK
  <2>2. \A S : <<>> \in Seq(S)
    OBVIOUS
  <2>3. {x \in Execs : reply[x] # "none"} \in SUBSET Execs
    OBVIOUS
  <2> QED
    BY <1>2, <2>1, <2>2, <2>3 DEF Execute, TypeOK
<1>3. ASSUME NEW c \in Clients, Walk(c) PROVE TypeOK'
  <2>1. PICK t \in Seq(Node) : Renames(t, upd[c], pos[c]) /\ upd' = [upd EXCEPT ![c] = t]
    BY <1>3 DEF Walk
  <2>2. upd' \in [Clients -> Seq(Node)] /\ \A d \in Clients : Len(upd'[d]) <= MaxNodes
    BY <2>1 DEF TypeOK, Renames
  <2>3. pos' \in [Clients -> 1..(MaxNodes + 1)]
    <3>1. pos[c] \in DOMAIN upd[c] /\ upd[c] \in Seq(Node) /\ Len(upd[c]) <= MaxNodes
      BY <1>3 DEF Walk, CallOK, TypeOK
    <3>2. pos[c] + 1 \in 1..(MaxNodes + 1)
      BY <3>1, Constants
    <3> QED
      BY SMTT(30), <3>2, <1>3 DEF Walk, TypeOK
  <2>4. its' \in [Clients -> Seq(Row)]
    <3>1. \A new \in Seq(Row) : its[c] \o new \in Seq(Row)
      BY ConcatProperties DEF TypeOK
    <3>2. its' = its \/ \E new \in Seq(Row) : its' = [its EXCEPT ![c] = its[c] \o new]
      BY <1>3 DEF Walk
    <3> QED
      BY <3>1, <3>2 DEF TypeOK
  <2>5. pc' \in [Clients -> {"idle", "visit", "commit", "notify"}]
    BY <1>3 DEF Walk, GivesUp, TypeOK
  <2>6. reply' \in [Execs -> {"none", "ok", "error"}]
    BY <1>3 DEF Walk, GivesUp, TypeOK
  <2>7. idx' \in [Clients -> 0..MaxRetry]
    BY <1>3, Constants DEF Walk, TypeOK
  <2> QED
    BY <1>3, <2>2, <2>3, <2>4, <2>5, <2>6, <2>7 DEF Walk, TypeOK
<1>4. ASSUME NEW c \in Clients, Redraw(c) PROVE TypeOK'
  <2>1. PICK t \in Seq(Node) : Renames(t, upd[c], pos[c]) /\ upd' = [upd EXCEPT ![c] = t]
    BY <1>4 DEF Redraw
  <2>2. upd' \in [Clients -> Seq(Node)] /\ \A d \in Clients : Len(upd'[d]) <= MaxNodes
    BY <2>1 DEF TypeOK, Renames
  <2>3. pc' \in [Clients -> {"idle", "visit", "commit", "notify"}]
    BY <1>4 DEF Redraw, GivesUp, TypeOK
  <2>4. reply' \in [Execs -> {"none", "ok", "error"}]
    BY <1>4 DEF Redraw, GivesUp, TypeOK
  <2>5. idx' \in [Clients -> 0..MaxRetry]
    BY <1>4 DEF Redraw, TypeOK
  <2> QED
    BY <1>4, <2>2, <2>3, <2>4, <2>5 DEF Redraw, TypeOK
<1>5. ASSUME NEW c \in Clients, FatalChildId(c) PROVE TypeOK'
  BY <1>5 DEF FatalChildId, client, TypeOK
<1>6. ASSUME NEW c \in Clients, Write(c) PROVE TypeOK'
  <2>1. its[c] \in Seq(Row) /\ ToSet(its[c]) \subseteq Row
    BY DEF TypeOK, ToSet
  <2>2. rows' \subseteq Row
    BY <1>6, <2>1 DEF Write, TypeOK
  <2>3. at' \in [Clients -> Nat]
    <3>1. \E i \in Nat : at' = [at EXCEPT ![c] = i]
      BY <1>6 DEF Write, TypeOK
    <3> QED
      BY <3>1 DEF TypeOK
  <2>4. pc' \in [Clients -> {"idle", "visit", "commit", "notify"}]
    BY <1>6 DEF Write, TypeOK
  <2>5. reply' \in [Execs -> {"none", "ok", "error"}]
    <3>1. reply' = reply \/ \E r \in {"ok", "error"} : reply' = [reply EXCEPT ![n[c]] = r]
      BY <1>6 DEF Write
    <3> QED
      BY <3>1 DEF TypeOK
  <2> QED
    BY <1>6, <2>2, <2>3, <2>4, <2>5 DEF Write, TypeOK
<1>7. ASSUME NEW c \in Clients, Notify(c) PROVE TypeOK'
  <2>1. its[c] \in Seq(Row) /\ at[c] \in Nat /\ at[c] < Len(its[c]) /\ sent[c] \in Seq(Subjects)
    BY <1>7 DEF Notify, Running, CallOK, TypeOK
  <2>2. its[c][at[c] + 1] \in Row
    BY <2>1
  <2>3. Announce(c, its[c][at[c] + 1].s) \in Seq(Subjects)
    BY <2>1, <2>2 DEF Announce, Row
  <2>4. sent' \in [Clients -> Seq(Subjects)]
    BY <1>7, <2>3 DEF Notify, TypeOK
  <2>5. pc' \in [Clients -> {"idle", "visit", "commit", "notify"}]
    BY <1>7 DEF Notify, Return, outcome, TypeOK
  <2>6. reply' \in [Execs -> {"none", "ok", "error"}]
    BY <1>7 DEF Notify, Return, outcome, TypeOK
  <2>7. at' \in [Clients -> Nat]
    BY <1>7 DEF Notify, TypeOK
  <2>8. UNCHANGED <<upd, pos, idx, its, rows, n, started, before, exited>>
    BY <1>7 DEF Notify, Return, outcome
  <2> QED
    BY <2>4, <2>5, <2>6, <2>7, <2>8 DEF TypeOK
<1>8. CASE UNCHANGED vars
  BY <1>8 DEF vars, client, TypeOK
<1> QED
  BY <1>1, <1>2, <1>3, <1>4, <1>5, <1>6, <1>7, <1>8, StepKinds

\* ... nor the shape of trees and calls.
LEMMA CallStep ==
  ASSUME TypeOK, CallOK, [Next]_vars
  PROVE  CallOK'
<1> DEFINE Call(d) ==
      /\ TreeOK(upd[d])
      /\ pc[d] # "idle" => n[d] > 0
      /\ pc[d] = "visit" =>
           /\ pos[d] \in DOMAIN upd[d]
           /\ idx[d] > 0 => pos[d] > 1
           /\ at[d] = 0
           /\ \A k \in 1..(pos[d] - 1) : Visited(upd[d], k)
      /\ pc[d] \in {"commit", "notify"} => at[d] < Len(its[d])
<1>0. ASSUME NEW d \in Clients, upd'[d] = upd[d], pc'[d] = pc[d], n'[d] = n[d], pos'[d] = pos[d],
             idx'[d] = idx[d], at'[d] = at[d], its'[d] = its[d]
      PROVE  Call(d)'
  BY <1>0 DEF CallOK
<1>1. ASSUME NEW c \in Clients, Build(c) PROVE CallOK'
  <2>1. PICK t \in Seq(Node) : TreeOK(t) /\ upd' = [upd EXCEPT ![c] = t]
    BY <1>1 DEF Build
  <2>2. UNCHANGED <<pc, n, pos, idx, at, its>> /\ pc[c] = "idle"
    BY <1>1 DEF Build, client
  <2>3. Call(c)'
    BY <2>1, <2>2 DEF TypeOK
  <2> QED
    BY <1>0, <2>1, <2>2, <2>3 DEF CallOK, TypeOK
<1>2. ASSUME NEW c \in Clients, Execute(c) PROVE CallOK'
  <2>1. /\ upd' = upd /\ pc'[c] = "visit" /\ pos'[c] = 1 /\ idx'[c] = 0 /\ at'[c] = 0
        /\ n'[c] = started + 1 /\ upd[c] # <<>>
    BY <1>2 DEF Execute, TypeOK
  <2>2. 1 \in DOMAIN upd[c] /\ started + 1 > 0
    BY <2>1 DEF TypeOK
  <2>3. Call(c)'
    BY <2>1, <2>2 DEF CallOK
  <2> QED
    BY <1>0, <1>2, <2>3 DEF CallOK, TypeOK, Execute
<1>3. ASSUME NEW c \in Clients, Walk(c) PROVE CallOK'
  <2>1. PICK t \in Seq(Node) :
          /\ Renames(t, upd[c], pos[c])
          /\ upd' = [upd EXCEPT ![c] = t]
          /\ \/ GivesUp(c) /\ UNCHANGED <<pos, its>>
             \/ /\ \E new \in Seq(Row) :
                     /\ NodeRows(t, pos[c], n[c], new)
                     /\ its' = [its EXCEPT ![c] = @ \o new]
                /\ Visited(t, pos[c])
                /\ pos' = [pos EXCEPT ![c] = @ + 1]
                /\ \/ pos[c] < Len(t) /\ UNCHANGED <<pc, reply>>
                   \/ /\ its'[c] # <<>>
                      /\ pc' = [pc EXCEPT ![c] = "commit"]
                      /\ UNCHANGED reply
                   \/ GivesUp(c)
    BY <1>3 DEF Walk
  <2>2. /\ upd[c] \in Seq(Node) /\ TreeOK(upd[c]) /\ pos[c] \in DOMAIN upd[c] /\ pos[c] \in Nat
        /\ \A k \in 1..(pos[c] - 1) : Visited(upd[c], k)
        /\ DOMAIN upd[c] = 1..Len(upd[c]) /\ Len(t) = Len(upd[c]) /\ n[c] > 0 /\ at[c] = 0
        /\ pc[c] = "visit"
    BY SMTT(30), <1>3, <2>1 DEF Walk, CallOK, TypeOK, Renames
  <2>3. /\ TreeOK(t) /\ DOMAIN t = DOMAIN upd[c]
        /\ \A j \in DOMAIN upd[c] : j # pos[c] /\ Visited(upd[c], j) => Visited(t, j)
    BY <2>1, <2>2, RenamedTree
  <2>4. upd'[c] = t /\ n'[c] = n[c] /\ at'[c] = at[c] /\ idx'[c] = 0
    BY <1>3, <2>1 DEF Walk, TypeOK
  <2>5. Call(c)'
    <3>1. CASE pc'[c] = "idle"
      BY <3>1, <2>2, <2>3, <2>4
    <3>2. CASE /\ Visited(t, pos[c])
               /\ pos' = [pos EXCEPT ![c] = @ + 1]
               /\ pos[c] < Len(t) /\ UNCHANGED <<pc, reply>>
      <4>1. pos'[c] = pos[c] + 1 /\ pos'[c] \in DOMAIN t /\ pc'[c] = "visit"
        BY <3>2, <2>2, <2>3 DEF TypeOK
      <4>2. \A k \in 1..pos[c] : Visited(t, k)
        <5> TAKE k \in 1..pos[c]
        <5>1. k \in DOMAIN upd[c] /\ (k = pos[c] \/ k \in 1..(pos[c] - 1))
          BY <2>2
        <5> QED
          BY <5>1, <3>2, <2>2, <2>3
      <4>3. \A k \in 1..(pos'[c] - 1) : Visited(t, k)
        BY <4>1, <4>2, <2>2
      <4> QED
        BY <4>1, <4>3, <2>2, <2>3, <2>4
    <3>3. CASE its'[c] # <<>> /\ pc' = [pc EXCEPT ![c] = "commit"]
      <4>1. its'[c] \in Seq(Row) /\ pc'[c] = "commit"
        BY <3>3, TypeStep DEF TypeOK
      <4>2. 0 < Len(its'[c])
        BY <4>1, <3>3
      <4> QED
        BY <4>1, <4>2, <2>2, <2>3, <2>4
    <3> QED
      BY <3>1, <3>2, <3>3, <2>1 DEF GivesUp, TypeOK
  <2>6. ASSUME NEW d \in Clients, d # c PROVE Call(d)'
    <3>1. /\ upd'[d] = upd[d] /\ pc'[d] = pc[d] /\ n'[d] = n[d] /\ pos'[d] = pos[d]
          /\ idx'[d] = idx[d] /\ at'[d] = at[d] /\ its'[d] = its[d]
      BY <1>3, <2>6 DEF Walk, GivesUp, TypeOK
    <3> QED
      BY <3>1, <1>0
  <2> QED
    BY <2>5, <2>6 DEF CallOK
<1>4. ASSUME NEW c \in Clients, Redraw(c) PROVE CallOK'
  <2>1. PICK t \in Seq(Node) : Renames(t, upd[c], pos[c]) /\ upd' = [upd EXCEPT ![c] = t]
    BY <1>4 DEF Redraw
  <2>2. /\ upd[c] \in Seq(Node) /\ TreeOK(upd[c]) /\ pos[c] \in DOMAIN upd[c] /\ pos[c] > 1
        /\ \A k \in 1..(pos[c] - 1) : Visited(upd[c], k) /\ k \in DOMAIN upd[c] /\ k # pos[c]
        /\ n[c] > 0 /\ at[c] = 0 /\ pc[c] = "visit"
    BY <1>4 DEF Redraw, CallOK, TypeOK
  <2>3. /\ TreeOK(t) /\ DOMAIN t = DOMAIN upd[c]
        /\ \A j \in DOMAIN upd[c] : j # pos[c] /\ Visited(upd[c], j) => Visited(t, j)
    BY <2>1, <2>2, RenamedTree
  <2>4. /\ upd'[c] = t /\ n'[c] = n[c] /\ at'[c] = at[c] /\ pos'[c] = pos[c]
        /\ pc'[c] \in {"visit", "idle"}
    BY <1>4, <2>1, <2>2 DEF Redraw, GivesUp, TypeOK
  <2>5. Call(c)'
    BY <2>2, <2>3, <2>4
  <2>6. ASSUME NEW d \in Clients, d # c PROVE Call(d)'
    <3>1. /\ upd'[d] = upd[d] /\ pc'[d] = pc[d] /\ n'[d] = n[d] /\ pos'[d] = pos[d]
          /\ idx'[d] = idx[d] /\ at'[d] = at[d] /\ its'[d] = its[d]
      BY <1>4, <2>6 DEF Redraw, GivesUp, TypeOK
    <3> QED
      BY <3>1, <1>0
  <2> QED
    BY <2>5, <2>6 DEF CallOK
<1>5. ASSUME NEW c \in Clients, FatalChildId(c) PROVE CallOK'
  BY <1>5, <1>0 DEF FatalChildId, client, CallOK
<1>6. ASSUME NEW c \in Clients, Write(c) PROVE CallOK'
  <2>1. /\ TreeOK(upd[c]) /\ n[c] > 0 /\ at[c] < Len(its[c]) /\ at[c] \in Nat /\ pc[c] = "commit"
        /\ its[c] \in Seq(Row)
    BY <1>6 DEF Write, CallOK, TypeOK
  <2>2. upd' = upd /\ n' = n /\ its' = its /\ pos' = pos /\ idx' = idx
    BY <1>6 DEF Write
  <2>3. pc'[c] \in {"idle", "commit", "notify"} /\ (pc'[c] # "idle" => at'[c] < Len(its[c]))
    BY <1>6, <2>1 DEF Write, TypeOK
  <2>4. Call(c)'
    BY <2>1, <2>2, <2>3
  <2>5. ASSUME NEW d \in Clients, d # c PROVE Call(d)'
    <3>1. pc'[d] = pc[d] /\ at'[d] = at[d]
      BY <1>6, <2>5 DEF Write, TypeOK
    <3> QED
      BY <3>1, <2>2, <1>0
  <2> QED
    BY <2>4, <2>5 DEF CallOK
<1>7. ASSUME NEW c \in Clients, Notify(c) PROVE CallOK'
  <2>1. TreeOK(upd[c]) /\ n[c] > 0 /\ at[c] \in Nat /\ pc[c] = "notify" /\ its[c] \in Seq(Row)
    BY <1>7 DEF Notify, Running, CallOK, TypeOK
  <2>2. upd' = upd /\ n' = n /\ its' = its /\ pos' = pos /\ idx' = idx
    BY <1>7 DEF Notify, Return, outcome
  <2>3. pc'[c] \in {"idle", "notify"} /\ (pc'[c] # "idle" => at'[c] < Len(its[c]))
    BY <1>7, <2>1 DEF Notify, Return, TypeOK
  <2>4. Call(c)'
    BY <2>1, <2>2, <2>3
  <2>5. ASSUME NEW d \in Clients, d # c PROVE Call(d)'
    <3>1. pc'[d] = pc[d] /\ at'[d] = at[d]
      BY <1>7, <2>5 DEF Notify, Return, TypeOK
    <3> QED
      BY <3>1, <2>2, <1>0
  <2> QED
    BY <2>4, <2>5 DEF CallOK
<1>8. CASE UNCHANGED vars
  BY <1>8, <1>0 DEF vars, client, CallOK
<1> QED
  BY <1>1, <1>2, <1>3, <1>4, <1>5, <1>6, <1>7, <1>8, StepKinds

LEMMA CallsCorrect == Spec => [](TypeOK /\ CallOK)
<1> QED
  BY InitType, TypeStep, CallStep, PTL DEF Spec

\* In every reachable state the variables have their types: in particular
\* the walk stays in its tree, the retry counter within its bound, and no row
\* is made with an id that has not been drawn.
THEOREM TypeCorrect == Spec => []TypeOK
<1> QED
  BY CallsCorrect, PTL

-----------------------------------------------------------------------------
(* Executions and their answers. *)

\* Executions are numbered as they start, each is one client's, and it is
\* answered when that client is back in user code.
ExecOK ==
  /\ \A x \in Execs : x > started => reply[x] = "none"
  /\ \A c \in Clients :
       /\ n[c] <= started
       /\ n[c] > 0 => (pc[c] = "idle" <=> reply[n[c]] # "none")
       /\ \A d \in Clients : n[c] = n[d] /\ n[c] > 0 => c = d
       /\ \A x \in before[c] : reply[x] # "none"

\* An execution that is under way stays so, or is answered.
Answers(c) ==
  \/ pc[c] # "idle" /\ pc'[c] # "idle" /\ UNCHANGED reply
  \/ /\ pc'[c] = "idle"
     /\ \E r \in {"ok", "error"} : reply' = [reply EXCEPT ![n[c]] = r]

\* It is c that a step is of: the other clients' control stays.
Others(c) == \A d \in Clients : d # c => pc'[d] = pc[d]

LEMMA StepAnswers ==
  ASSUME TypeOK, CallOK, NEW c \in Clients,
         Walk(c) \/ Redraw(c) \/ Write(c) \/ Notify(c)
  PROVE  /\ pc[c] # "idle" /\ n[c] \in Execs
         /\ Answers(c) /\ Others(c) /\ UNCHANGED <<n, started, before, exited>>
<1> DEFINE Stays == Answers(c) /\ Others(c) /\ UNCHANGED <<n, started, before, exited>>
<1>1. pc \in [Clients -> {"idle", "visit", "commit", "notify"}]
  BY DEF TypeOK
<1>2. ASSUME Walk(c) PROVE Stays
  BY <1>1, <1>2 DEF Walk, GivesUp, Answers, Others
<1>3. ASSUME Redraw(c) PROVE Stays
  BY <1>1, <1>3 DEF Redraw, GivesUp, Answers, Others
<1>4. ASSUME Write(c) PROVE Stays
  <2>1. \/ UNCHANGED reply /\ (pc' = pc \/ pc' = [pc EXCEPT ![c] = "notify"])
        \/ /\ pc' = [pc EXCEPT ![c] = "idle"]
           /\ \E r \in {"ok", "error"} : reply' = [reply EXCEPT ![n[c]] = r]
    BY <1>4 DEF Write
  <2>2. pc[c] = "commit" /\ UNCHANGED <<n, started, before, exited>>
    BY <1>4 DEF Write
  <2> QED
    BY <1>1, <2>1, <2>2 DEF Answers, Others
<1>5. ASSUME Notify(c) PROVE Stays
  BY <1>1, <1>5 DEF Notify, Running, Return, outcome, Answers, Others
<1>6. pc[c] # "idle"
  BY DEF Walk, Redraw, Write, Notify, Running
<1>7. n[c] \in Execs
  <2>1. n[c] > 0
    BY <1>6 DEF CallOK
  <2> QED
    BY <2>1, CallIsExec
<1> QED
  BY <1>2, <1>3, <1>4, <1>5, <1>6, <1>7

LEMMA ExecStep ==
  ASSUME TypeOK, CallOK, ExecOK, [Next]_vars
  PROVE  ExecOK'
<1>0. /\ n \in [Clients -> 0..MaxExecs] /\ started \in 0..MaxExecs /\ Execs = 1..MaxExecs
      /\ MaxExecs \in Nat /\ reply \in [Execs -> {"none", "ok", "error"}]
      /\ before \in [Clients -> SUBSET Execs]
      /\ pc \in [Clients -> {"idle", "visit", "commit", "notify"}]
  BY Constants DEF TypeOK, Execs
<1>1. ASSUME UNCHANGED <<pc, n, started, reply, before>> PROVE ExecOK'
  BY <1>1 DEF ExecOK
<1>2. ASSUME NEW c \in Clients, Execute(c) PROVE ExecOK'
  <2>1. /\ pc' = [pc EXCEPT ![c] = "visit"] /\ started < MaxExecs /\ started' = started + 1
        /\ n' = [n EXCEPT ![c] = started + 1] /\ reply' = reply
        /\ before' = [before EXCEPT ![c] = {x \in Execs : reply[x] # "none"}]
    BY <1>2 DEF Execute
  <2>2. reply[started + 1] = "none" /\ started + 1 \in Execs
    BY <2>1, <1>0 DEF ExecOK
  <2>3. \A x \in Execs : x > started' => reply'[x] = "none"
    BY <2>1, <1>0 DEF ExecOK
  <2>4. \A d \in Clients : n'[d] <= started' /\ \A x \in before'[d] : reply'[x] # "none"
    BY <2>1, <1>0 DEF ExecOK
  <2>5. \A d \in Clients : n'[d] > 0 => (pc'[d] = "idle" <=> reply'[n'[d]] # "none")
    BY <2>1, <2>2, <1>0 DEF ExecOK
  <2>6. \A d, e \in Clients : n'[d] = n'[e] /\ n'[d] > 0 => d = e
    <3> SUFFICES ASSUME NEW d \in Clients, NEW e \in Clients, n'[d] = n'[e], n'[d] > 0
                 PROVE  d = e
      OBVIOUS
    <3>1. \A f \in Clients : f # c => n'[f] # started + 1
      BY <2>1, <1>0 DEF ExecOK
    <3>2. n'[c] = started + 1
      BY <2>1, <1>0
    <3> QED
      BY <3>1, <3>2, <2>1, <1>0 DEF ExecOK
  <2> QED
    BY <2>3, <2>4, <2>5, <2>6 DEF ExecOK
<1>3. ASSUME NEW c \in Clients, Walk(c) \/ Redraw(c) \/ Write(c) \/ Notify(c) PROVE ExecOK'
  <2>1. /\ pc[c] # "idle" /\ n[c] \in Execs
        /\ Answers(c) /\ Others(c) /\ UNCHANGED <<n, started, before, exited>>
    BY <1>3, StepAnswers
  <2>2. \A x \in Execs : x # n[c] => reply'[x] = reply[x]
    BY <2>1, <1>0 DEF Answers
  <2>3. reply[n[c]] # "none" => reply'[n[c]] # "none"
    BY <2>1, <1>0 DEF Answers
  <2>4. pc'[c] = "idle" <=> reply'[n[c]] # "none"
    BY <2>1, <1>0 DEF Answers, ExecOK
  <2>5. n[c] <= started /\ n[c] > 0
    BY <2>1, <1>0 DEF ExecOK
  <2>6. \A x \in Execs : x > started => reply'[x] = "none"
    BY <2>2, <2>5, <1>0 DEF ExecOK
  <2>7. \A d \in Clients : n[d] > 0 => (pc'[d] = "idle" <=> reply'[n[d]] # "none")
    <3> SUFFICES ASSUME NEW d \in Clients, n[d] > 0, d # c
                 PROVE  pc'[d] = "idle" <=> reply'[n[d]] # "none"
      BY <2>4
    <3>1. n[d] # n[c] /\ n[d] \in Execs
      BY <2>5, <1>0 DEF ExecOK
    <3> QED
      BY <3>1, <2>1, <2>2 DEF ExecOK, Others
  <2>8. \A d \in Clients : \A x \in before[d] : reply'[x] # "none"
    BY <2>2, <2>3, <1>0 DEF ExecOK
  <2> QED
    BY <2>1, <2>6, <2>7, <2>8 DEF ExecOK
<1>4. ASSUME NEW c \in Clients, Build(c) \/ FatalChildId(c) PROVE ExecOK'
  BY <1>1, <1>4 DEF Build, FatalChildId, client
<1>5. CASE UNCHANGED vars
  BY <1>1, <1>5 DEF vars, client
<1> QED
  BY <1>2, <1>3, <1>4, <1>5, StepKinds

LEMMA ExecsCorrect == Spec => []ExecOK
<1>1. Init => ExecOK
  BY Constants DEF Init, ExecOK, Execs
<1> QED
  BY <1>1, CallsCorrect, ExecStep, PTL DEF Spec

-----------------------------------------------------------------------------
(* Instructions. *)

\* Every row is of the first row's entity or of one that an earlier row links.
Hangs(s) ==
  \A i \in DOMAIN s :
    s[i].s = s[1].s \/ \E j \in 1..i : s[j].p = "_child_" /\ s[j].o = s[i].s

\* Every link goes both ways.
Paired(s) ==
  /\ \A i \in DOMAIN s : s[i].p = "_child_" =>
       \E j \in DOMAIN s : s[j].p = "_parent_" /\ Store!Back(s[j], s[i])
  /\ \A i \in DOMAIN s : s[i].p = "_parent_" =>
       \E j \in DOMAIN s : s[j].p = "_child_" /\ Store!Back(s[j], s[i])

\* Instructions of execution x.
Batch(s, x) ==
  /\ \A i \in DOMAIN s : s[i].by = x /\ s[i].src # None
  /\ \A i, j \in DOMAIN s : s[i].ts = s[j].ts
  /\ Hangs(s) /\ Paired(s)

\* The instructions that the nodes of u before node k have given.
Walked(s, u, k) ==
  /\ \A i \in DOMAIN s : s[i].ts = u[1].ts
  /\ s # <<>> => s[1].s = u[1].id
  /\ \A j \in 2..(k - 1) : \E i \in DOMAIN s : s[i].p = "_child_" /\ s[i].o = u[j].id

BatchOK ==
  \A c \in Clients :
    /\ Batch(its[c], n[c])
    /\ pc[c] = "visit" => Walked(its[c], upd[c], pos[c])

\* A node's instructions, added to those of the nodes before it.
LEMMA BatchGrows ==
  ASSUME NEW s \in Seq(Row), NEW new \in Seq(Row), NEW x,
         NEW u \in Seq(Node), TreeOK(u), NEW k \in DOMAIN u, NEW t, Renames(t, u, k),
         Batch(s, x), Walked(s, u, k), NodeRows(t, k, x, new)
  PROVE  Batch(s \o new, x) /\ Walked(s \o new, t, k + 1)
<1> DEFINE w == s \o new
           m == Len(s)
<1>1. m \in Nat /\ DOMAIN s = 1..m /\ Len(new) \in Nat /\ DOMAIN new = 1..Len(new)
  OBVIOUS
<1>2. /\ w \in Seq(Row) /\ Len(w) = m + Len(new)
      /\ \A i \in 1..(m + Len(new)) : w[i] = IF i <= m THEN s[i] ELSE new[i - m]
  BY ConcatProperties
<1> HIDE DEF w, m
<1>3. DOMAIN w = 1..(m + Len(new)) /\ DOMAIN s \subseteq DOMAIN w
  BY <1>1, <1>2
<1>4. \A i \in DOMAIN s : w[i] = s[i]
  BY <1>1, <1>2
<1>5. \A e \in DOMAIN new : m + e \in DOMAIN w /\ w[m + e] = new[e]
  <2> TAKE e \in DOMAIN new
  <2>1. m + e \in 1..(m + Len(new)) /\ ~(m + e <= m) /\ (m + e) - m = e
    BY <1>1
  <2> QED
    BY <2>1, <1>2, <1>3
<1>6. \A i \in DOMAIN w : i \in DOMAIN s \/ \E e \in DOMAIN new : i = m + e
  <2> TAKE i \in DOMAIN w
  <2>1. CASE i <= m
    BY <2>1, <1>1, <1>3
  <2>2. CASE ~(i <= m)
    <3>1. i - m \in DOMAIN new /\ i = m + (i - m)
      BY <2>2, <1>1, <1>3
    <3> QED
      BY <3>1
  <2> QED
    BY <2>1, <2>2
<1>7. /\ DOMAIN u = 1..Len(u) /\ Len(u) \in Nat /\ k \in Nat /\ k > 0
      /\ DOMAIN t = DOMAIN u /\ TreeOK(t) /\ t[1].id = u[1].id /\ t[1].ts = u[1].ts
      /\ \A j \in DOMAIN u : j # k => t[j].id = u[j].id
  <2>1. DOMAIN u = 1..Len(u) /\ Len(u) \in Nat /\ k \in Nat /\ k > 0
    OBVIOUS
  <2>2. /\ TreeOK(t) /\ DOMAIN t = DOMAIN u
        /\ t[1].id = u[1].id /\ t[1].ts = u[1].ts
    BY RenamedTree
  <2>3. \A j \in DOMAIN u : j # k => t[j].id = u[j].id
    BY DEF Renames
  <2> QED
    BY <2>1, <2>2, <2>3
<1>8. \A j \in 2..(k - 1) : \E i \in DOMAIN s : s[i].p = "_child_" /\ s[i].o = t[j].id
  <2>1. \A j \in 2..(k - 1) : j \in DOMAIN u /\ j # k
    BY <1>7
  <2> QED
    BY <2>1, <1>7 DEF Walked
<1>9. ASSUME k > 1
      PROVE  t[k].parent \in 1..(k - 1)
  <2>1. t[k] \in Node /\ t[k].parent < k /\ t[k].parent > 0
    BY <1>7, <1>9 DEF TreeOK, Renames
  <2> QED
    BY <2>1, <1>7, Constants DEF Node
<1>10. ASSUME k > 1
       PROVE  /\ 1 \in DOMAIN new /\ 2 \in DOMAIN new
              /\ new[1].s = t[t[k].parent].id /\ new[1].p = "_child_" /\ new[1].o = t[k].id
              /\ new[2].s = t[k].id /\ new[2].p = "_parent_" /\ new[2].o = new[1].s
              /\ new[2].src = new[1].src
              /\ \A e \in DOMAIN new : e > 2 => new[e].p \in Preds /\ new[e].s = t[k].id
  BY <1>1, <1>10 DEF NodeRows
<1>11. k = 1 => \A e \in DOMAIN new : new[e].p \in Preds /\ new[e].s = t[1].id
  BY DEF NodeRows
<1>12. \A i \in DOMAIN w : w[i].by = x /\ w[i].src # None /\ w[i].ts = t[1].ts
  <2>1. \A i \in DOMAIN s : s[i].by = x /\ s[i].src # None /\ s[i].ts = t[1].ts
    BY <1>7 DEF Batch, Walked
  <2>2. \A e \in DOMAIN new : new[e].by = x /\ new[e].src # None /\ new[e].ts = t[1].ts
    BY DEF NodeRows
  <2> QED
    BY <2>1, <2>2, <1>4, <1>5, <1>6
<1>13. w # <<>> => w[1].s = t[1].id
  <2>1. CASE m > 0
    <3>1. 1 \in DOMAIN s /\ s # <<>>
      BY <2>1, <1>1
    <3> QED
      BY <3>1, <1>4, <1>7 DEF Walked
  <2>2. CASE m = 0 /\ w # <<>>
    <3>1. 1 \in DOMAIN new /\ w[1] = new[1]
      BY <2>2, <1>1, <1>2, <1>5
    <3>2. CASE k = 1
      BY <3>1, <3>2, <1>11
    <3>3. CASE k > 1
      <4>1. DOMAIN s = {}
        BY <2>2, <1>1
      <4>2. k = 2
        BY <4>1, <1>8, <1>7, <3>3
      <4>3. t[k].parent = 1
        BY <4>2, <1>9
      <4> QED
        BY <3>1, <3>3, <4>3, <1>10
    <3> QED
      BY <3>2, <3>3, <1>7
  <2> QED
    BY <2>1, <2>2, <1>1
<1>14. \A j \in 2..k : \E i \in DOMAIN w : w[i].p = "_child_" /\ w[i].o = t[j].id
  <2> TAKE j \in 2..k
  <2>1. CASE j \in 2..(k - 1)
    BY <2>1, <1>8, <1>3, <1>4
  <2>2. CASE j = k /\ k > 1
    <3>1. m + 1 \in DOMAIN w /\ w[m + 1] = new[1]
      BY <2>2, <1>10, <1>5
    <3> QED
      BY <3>1, <2>2, <1>10
  <2> QED
    BY <2>1, <2>2, <1>7
<1>15. Hangs(w)
  <2> SUFFICES ASSUME NEW i \in DOMAIN w
               PROVE  w[i].s = w[1].s \/ \E j \in 1..i : w[j].p = "_child_" /\ w[j].o = w[i].s
    BY DEF Hangs
  <2>1. CASE i \in DOMAIN s
    <3>1. 1 \in DOMAIN s /\ \A j \in 1..i : j \in DOMAIN s
      BY <2>1, <1>1
    <3> QED
      BY SMTT(30), <3>1, <2>1, <1>4 DEF Batch, Hangs
  <2>2. ASSUME NEW e \in DOMAIN new, i = m + e
        PROVE  w[i].s = w[1].s \/ \E j \in 1..i : w[j].p = "_child_" /\ w[j].o = w[i].s
    <3>1. w[i] = new[e] /\ w # <<>> /\ w[1].s = t[1].id
      BY <2>2, <1>2, <1>3, <1>5, <1>13
    <3>2. CASE k = 1
      BY <3>1, <3>2, <1>11
    <3>3. CASE k > 1
      <4>0. m + 1 \in 1..i
        BY <2>2, <1>1
      <4>1. m + 1 \in 1..i /\ w[m + 1].p = "_child_" /\ w[m + 1].o = t[k].id
        BY <4>0, <3>3, <1>5, <1>10
      <4>2. CASE new[e].s = t[k].id
        BY <4>1, <4>2, <3>1
      <4>3. CASE e = 1
        <5>1. CASE t[k].parent = 1
          BY <5>1, <4>3, <3>1, <3>3, <1>10
        <5>2. CASE t[k].parent \in 2..(k - 1)
          <6>1. PICK j \in DOMAIN s : s[j].p = "_child_" /\ s[j].o = t[t[k].parent].id
            BY <5>2, <1>8
          <6>2. j \in 1..i /\ w[j] = s[j]
            BY <2>2, <1>1, <1>4
          <6> QED
            BY <6>1, <6>2, <4>3, <3>1, <3>3, <1>10
        <5> QED
          BY <5>1, <5>2, <3>3, <1>9, <1>7
      <4> QED
        BY <4>2, <4>3, <3>3, <1>1, <1>10
    <3> QED
      BY <3>2, <3>3, <1>7
  <2> QED
    BY <2>1, <2>2, <1>6
<1>16. Paired(w)
  <2>1. ASSUME NEW i \in DOMAIN w, w[i].p = "_child_"
        PROVE  \E j \in DOMAIN w : w[j].p = "_parent_" /\ Store!Back(w[j], w[i])
    <3>1. CASE i \in DOMAIN s
      BY <3>1, <2>1, <1>3, <1>4 DEF Batch, Paired
    <3>2. ASSUME NEW e \in DOMAIN new, i = m + e
          PROVE  \E j \in DOMAIN w : w[j].p = "_parent_" /\ Store!Back(w[j], w[i])
      <4>1. new[e].p = "_child_" /\ new[e].p \notin Preds
        BY <2>1, <3>2, <1>5, Constants
      <4>2. k > 1 /\ ~(e > 2)
        BY <4>1, <1>11, <1>10, <1>7
      <4>3. e = 1
        BY <4>1, <4>2, <1>1, <1>10
      <4>4. m + 2 \in DOMAIN w /\ w[m + 2] = new[2] /\ w[i] = new[1]
        BY <4>2, <4>3, <3>2, <1>5, <1>10
      <4> QED
        BY <4>4, <4>2, <1>10 DEF Store!Back
    <3> QED
      BY <3>1, <3>2, <1>6
  <2>2. ASSUME NEW i \in DOMAIN w, w[i].p = "_parent_"
        PROVE  \E j \in DOMAIN w : w[j].p = "_child_" /\ Store!Back(w[j], w[i])
    <3>1. CASE i \in DOMAIN s
      <4>1. PICK j \in DOMAIN s : s[j].p = "_child_" /\ Store!Back(s[j], s[i])
        BY <3>1, <2>2, <1>4 DEF Batch, Paired
      <4> QED
        BY <4>1, <3>1, <1>3, <1>4
    <3>2. ASSUME NEW e \in DOMAIN new, i = m + e
          PROVE  \E j \in DOMAIN w : w[j].p = "_child_" /\ Store!Back(w[j], w[i])
      <4>1. new[e].p = "_parent_" /\ new[e].p \notin Preds
        BY <2>2, <3>2, <1>5, Constants
      <4>2. k > 1 /\ ~(e > 2)
        BY <4>1, <1>11, <1>10, <1>7
      <4>3. e = 2
        BY <4>1, <4>2, <1>1, <1>10
      <4>4. m + 1 \in DOMAIN w /\ w[m + 1] = new[1] /\ w[i] = new[2]
        BY <4>2, <4>3, <3>2, <1>5, <1>10
      <4> QED
        BY <4>4, <4>2, <1>10 DEF Store!Back
    <3> QED
      BY <3>1, <3>2, <1>6
  <2> QED
    BY <2>1, <2>2 DEF Paired
<1>17. Batch(w, x)
  BY <1>12, <1>15, <1>16 DEF Batch
<1>18. Walked(w, t, k + 1)
  <2>1. \A j \in 2..((k + 1) - 1) : j \in 2..k
    BY <1>7
  <2> QED
    BY <2>1, <1>12, <1>13, <1>14 DEF Walked
<1> QED
  BY <1>17, <1>18 DEF w

LEMMA EmptyBatch ==
  ASSUME NEW x, NEW u
  PROVE  Batch(<<>>, x) /\ Walked(<<>>, u, 1)
BY DEF Batch, Walked, Hangs, Paired

LEMMA BatchStep ==
  ASSUME TypeOK, CallOK, BatchOK, [Next]_vars
  PROVE  BatchOK'
<1> DEFINE One(d) == /\ Batch(its[d], n[d])
                     /\ pc[d] = "visit" => Walked(its[d], upd[d], pos[d])
<1>0. ASSUME NEW d \in Clients, its'[d] = its[d], n'[d] = n[d],
             pc'[d] = "visit" => pc[d] = "visit" /\ upd'[d] = upd[d] /\ pos'[d] = pos[d]
      PROVE  One(d)'
  BY <1>0 DEF BatchOK
<1>1. ASSUME NEW c \in Clients, Build(c) PROVE BatchOK'
  BY <1>0, <1>1 DEF Build, client, TypeOK, BatchOK
<1>2. ASSUME NEW c \in Clients, Execute(c) PROVE BatchOK'
  <2>1. its'[c] = <<>> /\ pos'[c] = 1
    BY <1>2 DEF Execute, TypeOK
  <2>2. One(c)'
    BY <2>1, EmptyBatch
  <2> QED
    BY <1>0, <1>2, <2>2 DEF Execute, TypeOK, BatchOK
<1>3. ASSUME NEW c \in Clients, Walk(c) PROVE BatchOK'
  <2>1. PICK t \in Seq(Node) :
          /\ Renames(t, upd[c], pos[c])
          /\ upd' = [upd EXCEPT ![c] = t]
          /\ \/ GivesUp(c) /\ UNCHANGED <<pos, its>>
             \/ /\ \E new \in Seq(Row) :
                     /\ NodeRows(t, pos[c], n[c], new)
                     /\ its' = [its EXCEPT ![c] = @ \o new]
                /\ pos' = [pos EXCEPT ![c] = @ + 1]
    BY <1>3 DEF Walk
  <2>2. /\ upd[c] \in Seq(Node) /\ TreeOK(upd[c]) /\ pos[c] \in DOMAIN upd[c]
        /\ its[c] \in Seq(Row) /\ n'[c] = n[c] /\ upd'[c] = t
        /\ Batch(its[c], n[c]) /\ Walked(its[c], upd[c], pos[c])
    BY <1>3, <2>1 DEF Walk, CallOK, TypeOK, BatchOK
  <2>3. One(c)'
    <3>1. CASE GivesUp(c) /\ UNCHANGED <<pos, its>>
      BY <3>1, <2>2 DEF GivesUp, TypeOK
    <3>2. CASE /\ \E new \in Seq(Row) :
                    /\ NodeRows(t, pos[c], n[c], new)
                    /\ its' = [its EXCEPT ![c] = @ \o new]
               /\ pos' = [pos EXCEPT ![c] = @ + 1]
      <4>1. PICK new \in Seq(Row) :
              NodeRows(t, pos[c], n[c], new) /\ its' = [its EXCEPT ![c] = @ \o new]
        BY <3>2
      <4>2. Batch(its[c] \o new, n[c]) /\ Walked(its[c] \o new, t, pos[c] + 1)
        BY <2>1, <2>2, <4>1, BatchGrows
      <4>3. its'[c] = its[c] \o new /\ pos'[c] = pos[c] + 1
        BY <3>2, <4>1 DEF TypeOK
      <4> QED
        BY <4>2, <4>3, <2>2
    <3> QED
      BY <2>1, <3>1, <3>2
  <2>4. \A d \in Clients : d # c => /\ its'[d] = its[d] /\ n'[d] = n[d] /\ pos'[d] = pos[d]
                                    /\ pc'[d] = pc[d] /\ upd'[d] = upd[d]
    BY <1>3 DEF Walk, GivesUp, TypeOK
  <2> QED
    BY <1>0, <2>3, <2>4 DEF BatchOK
<1>4. ASSUME NEW c \in Clients, Redraw(c) PROVE BatchOK'
  <2>1. PICK t \in Seq(Node) :
          /\ Renames(t, upd[c], pos[c])
          /\ upd' = [upd EXCEPT ![c] = t]
    BY <1>4 DEF Redraw
  <2>2. /\ upd[c] \in Seq(Node) /\ TreeOK(upd[c]) /\ pos[c] \in DOMAIN upd[c]
        /\ DOMAIN upd[c] = 1..Len(upd[c]) /\ Len(upd[c]) \in Nat /\ pos[c] \in Nat
        /\ its' = its /\ n' = n /\ pos' = pos /\ upd'[c] = t
        /\ Batch(its[c], n[c]) /\ Walked(its[c], upd[c], pos[c])
    BY <1>4, <2>1 DEF Redraw, CallOK, TypeOK, BatchOK
  <2>3. t[1].id = upd[c][1].id /\ t[1].ts = upd[c][1].ts
    BY <2>1, <2>2, RenamedTree
  <2>4. \A j \in 2..(pos[c] - 1) : t[j].id = upd[c][j].id
    BY <2>1, <2>2 DEF Renames
  <2>5. Walked(its[c], t, pos[c])
    BY <2>2, <2>3, <2>4 DEF Walked
  <2>6. One(c)'
    BY <2>2, <2>5
  <2>7. \A d \in Clients : d # c => pc'[d] = pc[d] /\ upd'[d] = upd[d]
    BY <1>4 DEF Redraw, GivesUp, TypeOK
  <2> QED
    BY <1>0, <2>2, <2>6, <2>7 DEF BatchOK
<1>5. ASSUME NEW c \in Clients, FatalChildId(c) PROVE BatchOK'
  BY <1>0, <1>5 DEF FatalChildId, client, BatchOK
<1>6. ASSUME NEW c \in Clients, Write(c) PROVE BatchOK'
  <2>1. \A d \in Clients : pc'[d] = "visit" => pc[d] = "visit"
    BY <1>6 DEF Write, TypeOK
  <2> QED
    BY <1>0, <1>6, <2>1 DEF Write, BatchOK
<1>7. ASSUME NEW c \in Clients, Notify(c) PROVE BatchOK'
  <2>1. \A d \in Clients : pc'[d] = "visit" => pc[d] = "visit"
    BY <1>7 DEF Notify, Return, TypeOK
  <2>2. UNCHANGED <<upd, pos, its, n>>
    BY <1>7 DEF Notify, Return, outcome
  <2> QED
    BY <1>0, <2>1, <2>2 DEF BatchOK
<1>8. CASE UNCHANGED vars
  BY <1>0, <1>8 DEF vars, client, BatchOK
<1> QED
  BY <1>1, <1>2, <1>3, <1>4, <1>5, <1>6, <1>7, <1>8, StepKinds

LEMMA BatchesCorrect == Spec => []BatchOK
<1>1. Init => BatchOK
  BY EmptyBatch DEF Init, BatchOK
<1> QED
  BY <1>1, CallsCorrect, BatchStep, PTL DEF Spec

-----------------------------------------------------------------------------
(* The store. *)

\* The rows in the store that the last execution of c wrote.
Own(c) == {r \in rows : r.by = n[c]}

\* Rows are there only once their execution commits, in order where they are
\* inserted one by one; behind a driver that reports its failures they are
\* all there once Commit has returned nil.
StoreOf(c) ==
  /\ pc[c] = "visit" => Own(c) = {}
  /\ pc[c] = "commit" =>
       /\ Own(c) = {its[c][i] : i \in 1..at[c]}
       /\ Driver \in BatchDrivers => at[c] = 0
  /\ pc[c] = "notify" => HasIndexer /\ Own(c) \subseteq ToSet(its[c])
  /\ Reports /\ (pc[c] = "notify" \/ Answered(c, "ok")) => ToSet(its[c]) \subseteq rows

StoreOK ==
  /\ \A r \in rows : r.by <= started
  /\ \A c \in Clients : StoreOf(c)

\* A client's part of it rests on that client's variables and its own rows.
LEMMA StoreKept ==
  ASSUME TypeOK, CallOK, StoreOK, NEW d \in Clients,
         pc'[d] = pc[d], its'[d] = its[d], at'[d] = at[d], n'[d] = n[d],
         n[d] > 0 => reply'[n[d]] = reply[n[d]],
         rows \subseteq rows', n[d] > 0 => \A r \in rows' : r \in rows \/ r.by # n[d]
  PROVE  StoreOf(d)'
<1>1. n[d] > 0 => Own(d)' = Own(d)
  BY DEF Own
<1>2. pc[d] # "idle" => n[d] > 0
  BY DEF CallOK
<1>3. Answered(d, "ok")' => Answered(d, "ok")
  BY DEF Answered
<1>4. StoreOf(d)
  BY DEF StoreOK
<1> QED
  BY <1>1, <1>2, <1>3, <1>4 DEF StoreOf

\* A step of c that writes no rows but its own leaves the others' parts.
LEMMA OthersKept ==
  ASSUME TypeOK, CallOK, ExecOK, StoreOK, NEW c \in Clients, n[c] \in Execs, UNCHANGED n,
         \A d \in Clients \ {c} : pc'[d] = pc[d] /\ its'[d] = its[d] /\ at'[d] = at[d],
         UNCHANGED reply \/ \E r \in {"ok", "error"} : reply' = [reply EXCEPT ![n[c]] = r],
         rows \subseteq rows', \A r \in rows' : r \in rows \/ r.by = n[c]
  PROVE  \A d \in Clients \ {c} : StoreOf(d)'
<1> TAKE d \in Clients \ {c}
<1>1. n[d] > 0 => n[d] # n[c] /\ n[d] \in Execs
  <2>1. n[d] > 0 => n[d] # n[c]
    BY DEF ExecOK
  <2> QED
    BY <2>1, CallIsExec
<1>2. n[d] > 0 => reply'[n[d]] = reply[n[d]]
  BY <1>1 DEF TypeOK
<1>3. n[d] > 0 => \A r \in rows' : r \in rows \/ r.by # n[d]
  BY <1>1
<1> QED
  BY <1>2, <1>3, StoreKept

\* What a commit does to the rows of its own execution.
LEMMA WriteStores ==
  ASSUME TypeOK, CallOK, BatchOK, StoreOK, NEW c \in Clients,
         CommitBatch(c) \/ CommitBatchFails(c) \/ InsertRow(c) \/ InsertRowFails(c)
  PROVE  StoreOf(c)'
<1>0. pc[c] = "commit"
  BY DEF CommitBatch, CommitBatchFails, InsertRow, InsertRowFails, Committing, Running
<1>1. /\ n[c] \in Execs
      /\ its[c] \in Seq(Row) /\ DOMAIN its[c] = 1..Len(its[c]) /\ Len(its[c]) \in Nat
      /\ at[c] \in Nat /\ at[c] < Len(its[c])
      /\ \A i \in DOMAIN its[c] : its[c][i].by = n[c]
      /\ Own(c) = {its[c][i] : i \in 1..at[c]}
      /\ Driver \in BatchDrivers => at[c] = 0
  <2>1. n[c] \in 0..MaxExecs /\ its[c] \in Seq(Row) /\ at[c] \in Nat
    BY DEF TypeOK
  <2>2. n[c] > 0 /\ at[c] < Len(its[c])
    BY <1>0 DEF CallOK
  <2>3. \A i \in DOMAIN its[c] : its[c][i].by = n[c]
    BY DEF BatchOK, Batch
  <2>4. /\ Own(c) = {its[c][i] : i \in 1..at[c]}
        /\ Driver \in BatchDrivers => at[c] = 0
    BY <1>0 DEF StoreOK, StoreOf
  <2>5. n[c] \in Execs
    BY <2>1, <2>2, Constants DEF Execs
  <2> QED
    BY <2>1, <2>2, <2>3, <2>4, <2>5
<1>2. n' = n /\ its' = its
  BY DEF CommitBatch, CommitBatchFails, InsertRow, InsertRowFails, Committing,
         CommitFailed, Committed, Return, outcome
<1>3. Own(c) \subseteq ToSet(its[c])
  BY <1>1 DEF ToSet
<1> DEFINE Ok == /\ HasIndexer /\ pc'[c] = "notify"
                 \/ pc'[c] = "idle"
           Error == pc'[c] = "idle" /\ reply'[n[c]] = "error"
<1>4. Committed(c) => Ok
  BY DEF Committed, Return, TypeOK
<1>5. CommitFailed(c) => Error \/ (~Reports /\ Ok)
  BY <1>1, <1>4 DEF CommitFailed, Return, TypeOK
<1>6. ASSUME Ok, Own(c)' \subseteq ToSet(its[c]), Reports => ToSet(its[c]) \subseteq rows'
      PROVE  StoreOf(c)'
  BY <1>6, <1>2 DEF StoreOf
<1>7. ASSUME Error PROVE StoreOf(c)'
  BY <1>7, <1>2 DEF StoreOf, Answered
<1>8. CASE CommitBatch(c)
  <2>1. rows' = rows \cup ToSet(its[c]) /\ Committed(c)
    BY <1>8 DEF CommitBatch
  <2>2. Own(c)' \subseteq ToSet(its[c])
    BY <2>1, <1>2, <1>3 DEF Own
  <2> QED
    BY <2>1, <2>2, <1>4, <1>6
<1>9. CASE CommitBatchFails(c)
  <2>1. PICK S \in Surviving(ToSet(its[c])) : rows' = rows \cup S
    BY <1>9 DEF CommitBatchFails
  <2>2. S \subseteq ToSet(its[c])
    BY DEF Surviving
  <2>3. Own(c)' \subseteq ToSet(its[c])
    BY <2>1, <2>2, <1>2, <1>3 DEF Own
  <2>4. CommitFailed(c)
    BY <1>9 DEF CommitBatchFails
  <2> QED
    BY <2>3, <2>4, <1>5, <1>6, <1>7
<1>10. CASE InsertRow(c)
  <2> DEFINE r == its[c][at[c] + 1]
  <2>1. rows' = rows \cup {r} /\ Driver \notin BatchDrivers
    BY <1>10 DEF InsertRow, RowDrivers, BatchDrivers
  <2>2. at[c] + 1 \in DOMAIN its[c] /\ r.by = n[c]
    BY <1>1
  <2>3. Own(c)' = {its[c][i] : i \in 1..(at[c] + 1)}
    <3>1. Own(c)' = Own(c) \cup {r}
      BY <2>1, <2>2, <1>2 DEF Own
    <3>2. 1..(at[c] + 1) = 1..at[c] \cup {at[c] + 1}
      BY <1>1
    <3> HIDE DEF r
    <3>3. r = its[c][at[c] + 1]
      BY DEF r
    <3> QED
      BY <3>1, <3>2, <3>3, <1>1
  <2>4. CASE at[c] + 1 < Len(its[c])
    <3>1. at'[c] = at[c] + 1 /\ pc' = pc /\ reply' = reply /\ n' = n
      BY <2>4, <1>10, <1>1 DEF InsertRow, outcome, TypeOK
    <3>2. ~Answered(c, "ok")' \/ Answered(c, "ok")
      BY <3>1 DEF Answered
    <3>3. Reports /\ Answered(c, "ok") => ToSet(its[c]) \subseteq rows'
      BY <2>1 DEF StoreOK, StoreOf
    <3>4. Own(c)' = {its'[c][i] : i \in 1..at'[c]}
      BY <3>1, <2>3, <1>2
    <3>5. Reports /\ Answered(c, "ok")' => ToSet(its'[c]) \subseteq rows'
      BY <3>2, <3>3, <1>2
    <3>6. pc'[c] = "commit"
      BY <3>1, <1>0
    <3> QED
      BY <3>4, <3>5, <3>6, <2>1 DEF StoreOf
  <2>5. CASE ~(at[c] + 1 < Len(its[c]))
    <3>1. Committed(c) /\ at[c] + 1 = Len(its[c])
      BY <2>5, <1>10, <1>1 DEF InsertRow
    <3>2. Own(c)' = ToSet(its[c])
      BY <3>1, <2>3, <1>1 DEF ToSet
    <3>3. Own(c)' \subseteq rows'
      BY DEF Own
    <3> QED
      BY <3>1, <3>2, <3>3, <1>4, <1>6
  <2> QED
    BY <2>4, <2>5
<1>11. CASE InsertRowFails(c)
  <2>1. its[c][at[c] + 1] \in ToSet(its[c])
    BY <1>1 DEF ToSet
  <2>2. rows' \in {rows, rows \cup {its[c][at[c] + 1]}} /\ CommitFailed(c)
    BY <1>11 DEF InsertRowFails
  <2>3. Own(c)' \subseteq ToSet(its[c])
    BY <2>1, <2>2, <1>2, <1>3 DEF Own
  <2> QED
    BY <2>2, <2>3, <1>5, <1>6, <1>7
<1> QED
  BY <1>8, <1>9, <1>10, <1>11

LEMMA StoreStep ==
  ASSUME TypeOK, CallOK, ExecOK, BatchOK, StoreOK, [Next]_vars
  PROVE  StoreOK'
<1>0. ASSUME NEW c \in Clients, n[c] \in Execs, UNCHANGED <<n, started>>,
             \A d \in Clients \ {c} : pc'[d] = pc[d] /\ its'[d] = its[d] /\ at'[d] = at[d],
             UNCHANGED reply \/ \E r \in {"ok", "error"} : reply' = [reply EXCEPT ![n[c]] = r],
             rows \subseteq rows', \A r \in rows' : r \in rows \/ r.by = n[c],
             StoreOf(c)'
      PROVE  StoreOK'
  <2>1. \A d \in Clients \ {c} : StoreOf(d)'
    BY <1>0, OthersKept
  <2>2. \A r \in rows' : r.by <= started
    BY <1>0 DEF ExecOK, StoreOK
  <2> QED
    BY <2>1, <2>2, <1>0 DEF StoreOK
<1>1. ASSUME UNCHANGED <<pc, its, at, n, started, reply, rows>> PROVE StoreOK'
  <2>1. \A d \in Clients : StoreOf(d)'
    BY <1>1, StoreKept
  <2> QED
    BY <2>1, <1>1 DEF StoreOK
<1>2. ASSUME NEW c \in Clients, Execute(c) PROVE StoreOK'
  <2>1. /\ pc'[c] = "visit" /\ n'[c] = started + 1 /\ started' = started + 1 /\ rows' = rows
        /\ reply' = reply /\ started + 1 \in Execs /\ started \in Nat
    BY <1>2, Constants DEF Execute, TypeOK, Execs
  <2>2. reply[started + 1] = "none"
    BY <2>1 DEF ExecOK
  <2>3. \A r \in rows : r.by <= started /\ r.by \in Nat
    BY DEF StoreOK, TypeOK, Row, Execs
  <2>4. Own(c)' = {}
    BY <2>1, <2>3 DEF Own
  <2>5. ~Answered(c, "ok")'
    BY <2>1, <2>2 DEF Answered
  <2>6. StoreOf(c)'
    BY <2>1, <2>4, <2>5 DEF StoreOf
  <2>7. ASSUME NEW d \in Clients, d # c PROVE StoreOf(d)'
    <3>1. /\ pc'[d] = pc[d] /\ its'[d] = its[d] /\ at'[d] = at[d] /\ n'[d] = n[d]
      BY <1>2, <2>7 DEF Execute, TypeOK
    <3> QED
      BY <3>1, <2>1, StoreKept
  <2>8. \A r \in rows' : r.by <= started'
    BY <2>1, <2>3
  <2> QED
    BY <2>6, <2>7, <2>8 DEF StoreOK
<1>3. ASSUME NEW c \in Clients, Walk(c) PROVE StoreOK'
  <2>1. n[c] \in Execs /\ UNCHANGED <<n, started>> /\ Answers(c) /\ Others(c)
    BY <1>3, StepAnswers
  <2>2. /\ rows' = rows /\ at' = at /\ at[c] = 0 /\ pc[c] = "visit"
        /\ pc'[c] \in {"visit", "commit", "idle"}
        /\ pc'[c] = "idle" => reply'[n[c]] = "error"
        /\ pc'[c] # "idle" => reply' = reply
        /\ \A d \in Clients \ {c} : its'[d] = its[d]
    BY SMTT(30), <1>3, <2>1 DEF Walk, GivesUp, CallOK, TypeOK
  <2>3. Own(c)' = {}
    <3>1. Own(c) = {}
      BY <2>2 DEF StoreOK, StoreOf
    <3>2. rows' = rows /\ n' = n
      BY <2>1, <2>2
    <3> QED
      BY <3>1, <3>2 DEF Own
  <2>4. ~Answered(c, "ok")'
    BY <2>1, <2>2 DEF Answered, ExecOK
  <2>5. {its'[c][i] : i \in 1..at'[c]} = {}
    BY <2>2
  <2>6. StoreOf(c)'
    BY <2>2, <2>3, <2>4, <2>5 DEF StoreOf
  <2> QED
    BY <1>0, <2>1, <2>2, <2>6 DEF Answers, Others
<1>4. ASSUME NEW c \in Clients, Redraw(c) PROVE StoreOK'
  <2>1. n[c] \in Execs /\ UNCHANGED <<n, started>> /\ Answers(c) /\ Others(c)
    BY <1>4, StepAnswers
  <2>2. /\ rows' = rows /\ at' = at /\ its' = its /\ pc[c] = "visit"
        /\ pc'[c] \in {"visit", "idle"}
        /\ pc'[c] = "idle" => reply'[n[c]] = "error"
        /\ pc'[c] # "idle" => reply' = reply
    BY <1>4, <2>1 DEF Redraw, GivesUp, TypeOK
  <2>3. Own(c)' = {}
    <3>1. Own(c) = {}
      BY <2>2 DEF StoreOK, StoreOf
    <3>2. rows' = rows /\ n' = n
      BY <2>1, <2>2
    <3> QED
      BY <3>1, <3>2 DEF Own
  <2>4. ~Answered(c, "ok")'
    BY <2>1, <2>2 DEF Answered, ExecOK
  <2>5. StoreOf(c)'
    BY <2>2, <2>3, <2>4 DEF StoreOf
  <2> QED
    BY <1>0, <2>1, <2>2, <2>5 DEF Answers, Others
<1>5. ASSUME NEW c \in Clients,
             CommitBatch(c) \/ CommitBatchFails(c) \/ InsertRow(c) \/ InsertRowFails(c)
      PROVE  StoreOK'
  <2>1. Write(c)
    BY <1>5, WriteSteps
  <2>2. n[c] \in Execs /\ UNCHANGED <<n, started>> /\ Answers(c) /\ Others(c)
    BY <2>1, StepAnswers
  <2>3. /\ rows \subseteq rows' /\ its' = its
        /\ \A d \in Clients \ {c} : at'[d] = at[d]
    BY <2>1 DEF Write, TypeOK
  <2>4. \A r \in rows' : r \in rows \/ r.by = n[c]
    <3>1. \A r \in ToSet(its[c]) : r.by = n[c]
      BY DEF ToSet, BatchOK, Batch
    <3> QED
      BY <2>1, <3>1 DEF Write
  <2> QED
    BY <1>0, <1>5, <2>2, <2>3, <2>4, WriteStores DEF Answers, Others
<1>6. ASSUME NEW c \in Clients, Notify(c) PROVE StoreOK'
  <2>1. n[c] \in Execs /\ UNCHANGED <<n, started>> /\ Answers(c) /\ Others(c)
    BY <1>6, StepAnswers
  <2>2. /\ rows' = rows /\ its' = its /\ pc[c] = "notify" /\ pc'[c] \in {"notify", "idle"}
        /\ \A d \in Clients \ {c} : at'[d] = at[d]
    BY <1>6 DEF Notify, Running, Return, TypeOK
  <2>3. Own(c)' = Own(c)
    BY <2>1, <2>2 DEF Own
  <2>4. StoreOf(c)'
    BY <2>1, <2>2, <2>3 DEF StoreOK, StoreOf
  <2> QED
    BY <1>0, <2>1, <2>2, <2>4 DEF Answers, Others
<1>7. ASSUME NEW c \in Clients, Build(c) \/ FatalChildId(c) PROVE StoreOK'
  BY <1>1, <1>7 DEF Build, FatalChildId, client
<1>8. CASE UNCHANGED vars
  BY <1>1, <1>8 DEF vars, client
<1>9. ASSUME NEW c \in Clients, VisitRoot(c) \/ VisitChild(c) \/ DrawRejected(c)
      PROVE  StoreOK'
  BY <1>3, <1>4, <1>9, WalkSteps, RedrawSteps
<1>10. ASSUME NEW c \in Clients,
              NewUpdate(c) \/ SetSource(c) \/ AddChild(c) \/ Set(c) \/ SetCommitTs(c)
       PROVE  StoreOK'
  BY <1>7, <1>10, BuildSteps
<1> QED
  BY <1>2, <1>5, <1>6, <1>7, <1>8, <1>9, <1>10 DEF Next, Step, Done

LEMMA StoreCorrect == Spec => []StoreOK
<1>1. Init => StoreOK
  BY DEF Init, StoreOK, StoreOf, Answered, Own
<1> QED
  BY <1>1, CallsCorrect, ExecsCorrect, BatchesCorrect, StoreStep, PTL DEF Spec

\* Behind a driver that reports its failures, an Execute that returned nil
\* has all of its instructions in the store, whatever the other clients did
\* meanwhile and however often it was tried.
THEOREM AckedIsStored ==
  ASSUME Reports
  PROVE  Spec => []AckedStored
<1>1. StoreOK => AckedStored
  BY DEF StoreOK, StoreOf, AckedStored
<1> QED
  BY <1>1, StoreCorrect, PTL

-----------------------------------------------------------------------------
(* Announcements. *)

\* What has been announced are the entities of the instructions gone through.
SentOf(c) ==
  /\ IsInjective(sent[c])
  /\ pc[c] \in {"visit", "commit"} => sent[c] = <<>>
  /\ pc[c] = "notify" => ToSet(sent[c]) = {its[c][i].s : i \in 1..at[c]}
  /\ HasIndexer /\ Answered(c, "ok") =>
       ToSet(sent[c]) = {its[c][i].s : i \in DOMAIN its[c]}
  /\ Reports => \A e \in ToSet(sent[c]) : \E r \in rows : r.s = e /\ r.by = n[c]

SentOK == \A c \in Clients : SentOf(c)

\* An entity is announced unless it has been.
LEMMA AnnounceAdds ==
  ASSUME NEW c, NEW S, sent[c] \in Seq(S), NEW e \in S, IsInjective(sent[c])
  PROVE  IsInjective(Announce(c, e)) /\ ToSet(Announce(c, e)) = ToSet(sent[c]) \cup {e}
<1> DEFINE s == sent[c]
           w == Append(s, e)
<1>1. DOMAIN s = 1..Len(s) /\ Len(s) \in Nat
  OBVIOUS
<1>2. CASE e \in ToSet(s)
  BY <1>2 DEF Announce
<1>3. CASE e \notin ToSet(s)
  <2>1. w \in Seq(S) /\ Len(w) = Len(s) + 1 /\ w[Len(s) + 1] = e
        /\ \A i \in 1..Len(s) : w[i] = s[i]
    BY AppendProperties
  <2> HIDE DEF w
  <2>2. DOMAIN w = 1..(Len(s) + 1)
    BY <2>1
  <2>3. DOMAIN w = DOMAIN s \cup {Len(s) + 1} /\ Len(s) + 1 \notin DOMAIN s
    BY <1>1, <2>2
  <2>4. \A i \in DOMAIN s : s[i] # e
    BY <1>3 DEF ToSet
  <2>5. IsInjective(w)
    <3> SUFFICES ASSUME NEW i \in DOMAIN w, NEW j \in DOMAIN w, w[i] = w[j] PROVE i = j
      BY DEF IsInjective
    <3>1. CASE i \in DOMAIN s /\ j \in DOMAIN s
      BY <3>1, <1>1, <2>1 DEF IsInjective
    <3>2. CASE i = Len(s) + 1 \/ j = Len(s) + 1
      BY <3>2, <1>1, <2>1, <2>3, <2>4
    <3> QED
      BY <3>1, <3>2, <2>3
  <2>6. ToSet(w) = ToSet(s) \cup {e}
    <3>1. \A i \in DOMAIN w : w[i] \in ToSet(s) \cup {e}
      BY <1>1, <2>1, <2>3 DEF ToSet
    <3>2. \A x \in ToSet(s) \cup {e} : \E i \in DOMAIN w : w[i] = x
      BY <1>1, <2>1, <2>3 DEF ToSet
    <3> QED
      BY <3>1, <3>2 DEF ToSet
  <2>7. Announce(c, e) = w
    BY <1>3 DEF Announce, w
  <2> QED
    BY <2>5, <2>6, <2>7
<1> QED
  BY <1>2, <1>3

LEMMA EmptySent == IsInjective(<<>>) /\ ToSet(<<>>) = {}
BY DEF IsInjective, ToSet

LEMMA SentKept ==
  ASSUME TypeOK, CallOK, SentOK, NEW d \in Clients, sent'[d] = sent[d], its'[d] = its[d],
         at'[d] = at[d], n'[d] = n[d], pc'[d] = pc[d], rows \subseteq rows',
         n[d] > 0 => reply'[n[d]] = reply[n[d]]
  PROVE  SentOf(d)'
<1>1. Answered(d, "ok")' => Answered(d, "ok")
  BY DEF Answered
<1>2. SentOf(d)
  BY DEF SentOK
<1>3. Reports => \A e \in ToSet(sent'[d]) : \E r \in rows' : r.s = e /\ r.by = n'[d]
  BY <1>2 DEF SentOf
<1> QED
  BY <1>1, <1>2, <1>3 DEF SentOf

LEMMA SentStep ==
  ASSUME TypeOK, CallOK, ExecOK, BatchOK, StoreOK, SentOK, [Next]_vars
  PROVE  SentOK'
<1>0. ASSUME NEW c \in Clients, n[c] \in Execs, UNCHANGED n, Answers(c), Others(c),
             \A d \in Clients \ {c} : sent'[d] = sent[d] /\ its'[d] = its[d] /\ at'[d] = at[d],
             rows \subseteq rows', SentOf(c)'
      PROVE  SentOK'
  <2>1. ASSUME NEW d \in Clients, d # c PROVE SentOf(d)'
    <3>1. n[d] > 0 => n[d] # n[c] /\ n[d] \in Execs
      <4>1. n[d] > 0 => n[d] # n[c]
        BY <2>1 DEF ExecOK
      <4> QED
        BY <4>1, CallIsExec
    <3>2. n[d] > 0 => reply'[n[d]] = reply[n[d]]
      BY <3>1, <1>0 DEF Answers, TypeOK
    <3> QED
      BY <3>2, <1>0, <2>1, SentKept DEF Others
  <2> QED
    BY <1>0, <2>1 DEF SentOK
<1>1. ASSUME UNCHANGED <<pc, its, at, sent, n, reply, rows>> PROVE SentOK'
  BY <1>1, SentKept DEF SentOK
<1>2. ASSUME NEW c \in Clients, Execute(c) PROVE SentOK'
  <2>1. /\ pc'[c] = "visit" /\ n'[c] = started + 1 /\ rows' = rows /\ sent'[c] = <<>>
        /\ reply' = reply /\ started + 1 \in Execs /\ started \in Nat
    BY <1>2, Constants DEF Execute, TypeOK, Execs
  <2>2. reply[started + 1] = "none"
    BY <2>1 DEF ExecOK
  <2>3. ~Answered(c, "ok")'
    BY <2>1, <2>2 DEF Answered
  <2>4. SentOf(c)'
    BY <2>1, <2>3, EmptySent DEF SentOf
  <2>5. ASSUME NEW d \in Clients, d # c PROVE SentOf(d)'
    <3>1. /\ pc'[d] = pc[d] /\ its'[d] = its[d] /\ at'[d] = at[d] /\ n'[d] = n[d]
          /\ sent'[d] = sent[d]
      BY <1>2, <2>5 DEF Execute, TypeOK
    <3> QED
      BY <3>1, <2>1, SentKept
  <2> QED
    BY <2>4, <2>5 DEF SentOK
<1>3. ASSUME NEW c \in Clients, Walk(c) \/ Redraw(c) PROVE SentOK'
  <2>1. n[c] \in Execs /\ UNCHANGED <<n, started>> /\ Answers(c) /\ Others(c)
    BY <1>3, StepAnswers
  <2>2. /\ rows' = rows /\ at' = at /\ sent' = sent
        /\ pc'[c] \in {"visit", "commit", "idle"}
        /\ pc'[c] = "idle" => reply'[n[c]] = "error"
        /\ pc'[c] # "idle" => reply' = reply
        /\ \A d \in Clients \ {c} : its'[d] = its[d]
    BY <1>3, <2>1 DEF Walk, Redraw, GivesUp, CallOK, TypeOK
  <2>3. pc[c] = "visit" /\ sent[c] = <<>>
    BY <1>3 DEF Walk, Redraw, SentOK, SentOf
  <2>4. ~Answered(c, "ok")'
    BY <2>1, <2>2, <2>3 DEF Answered, ExecOK
  <2>5. SentOf(c)'
    BY <2>2, <2>3, <2>4, EmptySent DEF SentOf
  <2> QED
    BY <1>0, <2>1, <2>2, <2>5
<1>4. ASSUME NEW c \in Clients, Write(c) PROVE SentOK'
  <2>1. n[c] \in Execs /\ UNCHANGED <<n, started>> /\ Answers(c) /\ Others(c)
    BY <1>4, StepAnswers
  <2>2. /\ rows \subseteq rows' /\ its' = its /\ sent' = sent /\ pc[c] = "commit"
        /\ \A d \in Clients \ {c} : at'[d] = at[d]
    BY <1>4 DEF Write, TypeOK
  <2>3. sent[c] = <<>>
    BY <2>2 DEF SentOK, SentOf
  <2>4. \/ pc'[c] = "commit" /\ reply' = reply
        \/ pc'[c] = "notify" /\ reply' = reply /\ at'[c] = 0
        \/ pc'[c] = "idle" /\ (reply'[n[c]] = "error" \/ ~HasIndexer)
    BY <1>4, <2>1, <2>2 DEF Write, TypeOK
  <2>5. ~(HasIndexer /\ Answered(c, "ok")')
    BY <2>1, <2>2, <2>4 DEF Answered, ExecOK
  <2>6. pc'[c] = "notify" => {its'[c][i].s : i \in 1..at'[c]} = {}
    BY <2>4
  <2>7. SentOf(c)'
    BY <2>2, <2>3, <2>5, <2>6, EmptySent DEF SentOf
  <2> QED
    BY <1>0, <2>1, <2>2, <2>7
<1>5. ASSUME NEW c \in Clients, Notify(c) PROVE SentOK'
  <2> DEFINE e == its[c][at[c] + 1].s
  <2>1. n[c] \in Execs /\ UNCHANGED <<n, started>> /\ Answers(c) /\ Others(c)
    BY <1>5, StepAnswers
  <2>2. /\ rows' = rows /\ its' = its /\ pc[c] = "notify" /\ pc'[c] \in {"notify", "idle"}
        /\ \A d \in Clients \ {c} : at'[d] = at[d] /\ sent'[d] = sent[d]
        /\ at'[c] = at[c] + 1 /\ sent'[c] = Announce(c, e)
        /\ pc'[c] = "idle" <=> ~(at[c] + 1 < Len(its[c]))
    BY <1>5 DEF Notify, Running, Return, TypeOK
  <2>3. /\ its[c] \in Seq(Row) /\ at[c] \in Nat /\ at[c] + 1 \in DOMAIN its[c]
        /\ DOMAIN its[c] = 1..Len(its[c]) /\ Len(its[c]) \in Nat /\ sent[c] \in Seq(Subjects)
    BY <2>2 DEF TypeOK, CallOK
  <2>4. e \in Subjects
    <3>1. its[c][at[c] + 1] \in Row
      BY <2>3
    <3> QED
      BY <3>1 DEF Row
  <2>5. IsInjective(sent[c]) /\ ToSet(sent[c]) = {its[c][i].s : i \in 1..at[c]}
    BY <2>2 DEF SentOK, SentOf
  <2> HIDE DEF e
  <2>6. IsInjective(sent'[c]) /\ ToSet(sent'[c]) = ToSet(sent[c]) \cup {e}
    BY <2>2, <2>3, <2>4, <2>5, AnnounceAdds
  <2>7. ToSet(sent'[c]) = {its[c][i].s : i \in 1..(at[c] + 1)}
    <3>1. 1..(at[c] + 1) = 1..at[c] \cup {at[c] + 1}
      BY <2>3
    <3> QED
      BY <3>1, <2>5, <2>6 DEF e
  <2>8. pc'[c] = "idle" => 1..(at[c] + 1) = DOMAIN its[c]
    BY <2>2, <2>3
  <2>9. Reports => \A x \in ToSet(sent'[c]) : \E r \in rows' : r.s = x /\ r.by = n'[c]
    <3> SUFFICES ASSUME Reports, NEW x \in ToSet(sent'[c])
                 PROVE  \E r \in rows : r.s = x /\ r.by = n[c]
      BY <2>1, <2>2
    <3>1. CASE x \in ToSet(sent[c])
      BY <3>1 DEF SentOK, SentOf
    <3>2. CASE x = e
      <4>1. its[c][at[c] + 1] \in rows
        BY <2>2, <2>3 DEF StoreOK, StoreOf, ToSet
      <4>2. its[c][at[c] + 1].by = n[c]
        BY <2>3 DEF BatchOK, Batch
      <4> QED
        BY <3>2, <4>1, <4>2 DEF e
    <3> QED
      BY <3>1, <3>2, <2>6
  <2>10. Answered(c, "ok")' => pc'[c] = "idle"
    BY <2>1, <2>2 DEF Answered, Answers, ExecOK
  <2>11. ToSet(sent'[c]) = {its'[c][i].s : i \in 1..at'[c]}
    BY <2>2, <2>7
  <2>12. Answered(c, "ok")' => ToSet(sent'[c]) = {its'[c][i].s : i \in DOMAIN its'[c]}
    BY <2>2, <2>7, <2>8, <2>10
  <2>13. SentOf(c)'
    BY <2>2, <2>6, <2>9, <2>11, <2>12 DEF SentOf
  <2> QED
    BY <1>0, <2>1, <2>2, <2>13
<1>6. ASSUME NEW c \in Clients, Build(c) \/ FatalChildId(c) PROVE SentOK'
  BY <1>1, <1>6 DEF Build, FatalChildId, client
<1>7. CASE UNCHANGED vars
  BY <1>1, <1>7 DEF vars, client
<1> QED
  BY <1>2, <1>3, <1>4, <1>5, <1>6, <1>7, StepKinds

\* Behind a driver that reports its failures, an Execute announces each entity
\* it wrote once, none of them before its rows are in the store, and all of
\* them before it returns nil.
THEOREM AnnouncedExactlyOnce ==
  ASSUME Reports
  PROVE  Spec => []AnnouncedOnce
<1>1. Init => SentOK
  BY EmptySent DEF Init, SentOK, SentOf, Answered
<1>2. SentOK => AnnouncedOnce
  BY DEF SentOK, SentOf, AnnouncedOnce, ToSet
<1> QED
  BY <1>1, <1>2, CallsCorrect, ExecsCorrect, BatchesCorrect, StoreCorrect, SentStep, PTL
     DEF Spec

-----------------------------------------------------------------------------
(* Drawn ids. *)

\* An id is drawn against the rows of every execution that had returned when
\* this one started, and those write no more.
LEMMA IdsStep ==
  ASSUME Driver # "rethinkdb",
         TypeOK, CallOK, ExecOK, BatchOK, SequentialIdsDistinct, [Next]_vars
  PROVE  SequentialIdsDistinct'
<1> DEFINE Seen(c, s) == \E q \in rows : q.s = s /\ q.by \in before[c]
<1>1. ASSUME UNCHANGED <<its, before, rows>> PROVE SequentialIdsDistinct'
  BY <1>1 DEF SequentialIdsDistinct
<1>2. ASSUME NEW c \in Clients, Execute(c) PROVE SequentialIdsDistinct'
  <2>1. its'[c] = <<>> /\ rows' = rows
        /\ \A d \in Clients \ {c} : its'[d] = its[d] /\ before'[d] = before[d]
    BY <1>2 DEF Execute, TypeOK
  <2> QED
    BY <2>1 DEF SequentialIdsDistinct
<1>3. ASSUME NEW c \in Clients, Walk(c) PROVE SequentialIdsDistinct'
  <2>1. rows' = rows /\ before' = before /\ \A d \in Clients \ {c} : its'[d] = its[d]
    BY <1>3 DEF Walk, TypeOK
  <2>2. ASSUME NEW t \in Seq(Node), NEW new \in Seq(Row),
               NodeRows(t, pos[c], n[c], new), its' = [its EXCEPT ![c] = @ \o new],
               pos[c] > 1 => IsNew(t[pos[c]].id),
               NEW i \in DOMAIN its'[c], its'[c][i].p = "_parent_"
        PROVE  ~Seen(c, its'[c][i].s)
    <3> DEFINE m == Len(its[c])
    <3>1. /\ its[c] \in Seq(Row) /\ its'[c] = its[c] \o new
          /\ pos[c] = 1 \/ pos[c] > 1
      BY SMTT(30), <2>2 DEF TypeOK
    <3>2. /\ its'[c] \in Seq(Row) /\ Len(its'[c]) = m + Len(new)
          /\ \A j \in 1..(m + Len(new)) : its'[c][j] = IF j <= m THEN its[c][j] ELSE new[j - m]
      BY <3>1, <2>2, ConcatProperties
    <3>3. m \in Nat /\ DOMAIN its[c] = 1..m /\ Len(new) \in Nat /\ DOMAIN new = 1..Len(new)
      BY <3>1
    <3> HIDE DEF m
    <3>4. i \in 1..(m + Len(new))
      BY <2>2, <3>2
    <3>5. CASE i <= m
      BY <3>5, <3>2, <3>3, <3>4, <2>2 DEF SequentialIdsDistinct
    <3>6. CASE ~(i <= m)
      <4>1. i - m \in DOMAIN new /\ its'[c][i] = new[i - m] /\ i - m \in Nat
        BY <3>6, <3>2, <3>3, <3>4
      <4>2. new[i - m].p = "_parent_" /\ "_parent_" \notin Preds
        BY <4>1, <2>2, Constants
      <4>3. pos[c] > 1 /\ ~(i - m > 2)
        BY <4>1, <4>2, <3>1, <2>2 DEF NodeRows
      <4>4. i - m = 2
        BY <4>1, <4>2, <4>3, <3>3, <2>2 DEF NodeRows
      <4>5. its'[c][i].s = t[pos[c]].id
        BY <4>1, <4>3, <4>4, <2>2 DEF NodeRows
      <4> QED
        BY <4>3, <4>5, <2>2 DEF IsNew, RowsIsNew
    <3> QED
      BY <3>5, <3>6
  <2>3. ASSUME NEW i \in DOMAIN its'[c], its'[c][i].p = "_parent_"
        PROVE  ~Seen(c, its'[c][i].s)
    <3>1. \/ its' = its
          \/ \E t \in Seq(Node), new \in Seq(Row) :
               /\ NodeRows(t, pos[c], n[c], new) /\ its' = [its EXCEPT ![c] = @ \o new]
               /\ pos[c] > 1 => IsNew(t[pos[c]].id)
      BY <1>3 DEF Walk
    <3>2. CASE its' = its
      BY <3>2, <2>3 DEF SequentialIdsDistinct
    <3> QED
      BY <3>1, <3>2, <2>2, <2>3
  <2> QED
    BY <2>1, <2>3 DEF SequentialIdsDistinct
<1>4. ASSUME NEW c \in Clients, Redraw(c) \/ Build(c) \/ Notify(c) \/ FatalChildId(c)
      PROVE  SequentialIdsDistinct'
  BY <1>1, <1>4 DEF Redraw, Build, Notify, FatalChildId, client, Return, outcome
<1>5. ASSUME NEW c \in Clients, Write(c) PROVE SequentialIdsDistinct'
  <2>1. its' = its /\ before' = before /\ pc[c] = "commit"
    BY <1>5 DEF Write
  <2>2. \A r \in rows' : r \in rows \/ r.by = n[c]
    <3>1. \A r \in ToSet(its[c]) : r.by = n[c]
      BY DEF ToSet, BatchOK, Batch
    <3> QED
      BY <1>5, <3>1 DEF Write
  <2>3. reply[n[c]] = "none"
    BY <2>1 DEF CallOK, ExecOK
  <2>4. \A d \in Clients : n[c] \notin before[d]
    BY <2>3 DEF ExecOK
  <2> QED
    BY <2>1, <2>2, <2>4 DEF SequentialIdsDistinct
<1>6. CASE UNCHANGED vars
  BY <1>1, <1>6 DEF vars, client
<1> QED
  BY <1>2, <1>3, <1>4, <1>5, <1>6, StepKinds

\* Over every store but rethinkdb, whose IsNew does not look at what it read,
\* no execution gives a new entity an id that has rows of an execution that
\* had returned before it started.
THEOREM IdsStayDistinct ==
  ASSUME Driver # "rethinkdb"
  PROVE  Spec => []SequentialIdsDistinct
<1>1. Init => SequentialIdsDistinct
  BY DEF Init, SequentialIdsDistinct
<1>2. TypeOK /\ CallOK /\ ExecOK /\ BatchOK /\ SequentialIdsDistinct /\ [Next]_vars
        => SequentialIdsDistinct'
  BY IdsStep
<1> QED
  BY <1>1, <1>2, CallsCorrect, ExecsCorrect, BatchesCorrect, PTL DEF Spec

-----------------------------------------------------------------------------
(* The refinement of EntityStore. *)

\* The first m instructions of an execution.
First(s, m) == {s[i] : i \in 1..m}

\* They hang together ...
LEMMA FirstArePart ==
  ASSUME NEW s \in Seq(Row), NEW x, Batch(s, x), NEW m \in 0..Len(s)
  PROVE  Store!Part(First(s, m))
<1> DEFINE R == First(s, m)
<1>1. Len(s) \in Nat /\ m \in Nat /\ 1..m \subseteq DOMAIN s
  OBVIOUS
<1>2. CASE m = 0
  BY <1>2 DEF Store!Part, First
<1>3. CASE m > 0
  <2>1. 1 \in 1..m /\ s[1] \in R
    BY <1>1, <1>3 DEF First
  <2>2. \A r \in R : \E i \in 1..m : r = s[i]
    BY DEF First
  <2>3. \A i \in 1..m : s[i] \in R /\ i \in DOMAIN s
    BY <1>1 DEF First
  <2> HIDE DEF R
  <2>4. \A r \in R : r.src # None /\ r.ts = s[1].ts
    BY <2>1, <2>2, <2>3 DEF Batch
  <2>5. ASSUME NEW r \in R
        PROVE  r.s = s[1].s \/ \E q \in R : q.p = "_child_" /\ q.o = r.s
    <3>1. PICK i \in 1..m : r = s[i]
      BY <2>2
    <3>2. \A j \in 1..i : j \in 1..m
      BY <1>1, <3>1
    <3>3. i \in DOMAIN s
      BY <2>3
    <3> QED
      BY <3>1, <3>2, <3>3, <2>3 DEF Batch, Hangs
  <2>6. Store!HangTogether(R)
    <3>1. s[1].s \in {r.s : r \in R}
      BY <2>1
    <3> QED
      BY <2>5, <3>1 DEF Store!HangTogether
  <2> QED
    BY <2>4, <2>6 DEF Store!Part, R
<1> QED
  BY <1>1, <1>2, <1>3

\* ... and all of them are whole.
LEMMA AllAreWhole ==
  ASSUME NEW s \in Seq(Row), NEW x, Batch(s, x), s # <<>>
  PROVE  Store!Whole(ToSet(s))
<1> DEFINE R == ToSet(s)
<1>1. R = First(s, Len(s)) /\ Len(s) \in 0..Len(s) /\ DOMAIN s = 1..Len(s) /\ Len(s) > 0
  BY DEF ToSet, First
<1>2. Store!Part(R) /\ R # {}
  <2>1. s[1] \in R
    BY <1>1 DEF ToSet
  <2> QED
    BY <1>1, <2>1, FirstArePart
<1>3. \A r \in R : \E i \in DOMAIN s : r = s[i]
  BY DEF ToSet
<1>4. \A i \in DOMAIN s : s[i] \in R
  BY DEF ToSet
<1> HIDE DEF R
<1>5. \A r \in R : r.p = "_child_" => \E q \in R : q.p = "_parent_" /\ Store!Back(q, r)
  <2> SUFFICES ASSUME NEW r \in R, r.p = "_child_"
               PROVE  \E q \in R : q.p = "_parent_" /\ Store!Back(q, r)
    OBVIOUS
  <2>1. PICK i \in DOMAIN s : r = s[i]
    BY <1>3
  <2>2. PICK j \in DOMAIN s : s[j].p = "_parent_" /\ Store!Back(s[j], s[i])
    BY <2>1 DEF Batch, Paired
  <2> QED
    BY <1>4, <2>1, <2>2
<1>6. \A r \in R : r.p = "_parent_" => \E q \in R : q.p = "_child_" /\ Store!Back(q, r)
  <2> SUFFICES ASSUME NEW r \in R, r.p = "_parent_"
               PROVE  \E q \in R : q.p = "_child_" /\ Store!Back(q, r)
    OBVIOUS
  <2>1. PICK i \in DOMAIN s : r = s[i]
    BY <1>3
  <2>2. PICK j \in DOMAIN s : s[j].p = "_child_" /\ Store!Back(s[j], s[i])
    BY <2>1 DEF Batch, Paired
  <2> QED
    BY <1>4, <2>1, <2>2
<1> QED
  BY <1>2, <1>5, <1>6 DEF Store!Whole, R

\* What the store holds of an execution when a step of its commit is done.
LEMMA WriteOwn ==
  ASSUME Driver \in {"leveldb", "sqlstore"},
         TypeOK, CallOK, ExecOK, BatchOK, StoreOK, NEW c \in Clients,
         CommitBatch(c) \/ CommitBatchFails(c) \/ InsertRow(c) \/ InsertRowFails(c)
  PROVE  /\ Driver = "leveldb" => Own(c) = {}
         /\ \/ Own(c)' = ToSet(its[c]) /\ (Driver = "leveldb" => reply'[n[c]] # "error")
            \/ /\ \E m \in 0..Len(its[c]) :
                    Own(c)' = First(its[c], m) /\ (Driver = "leveldb" => m = 0)
               /\ pc'[c] = "idle" => reply'[n[c]] = "error"
<1>0. /\ pc[c] = "commit" /\ n' = n /\ its' = its
      /\ Reports /\ (Driver = "leveldb" => Driver \in BatchDrivers /\ Driver \notin RowDrivers)
      /\ (Driver = "sqlstore" => Driver \notin BatchDrivers)
  BY DEF CommitBatch, CommitBatchFails, InsertRow, InsertRowFails, Committing, Running,
         CommitFailed, Committed, Return, outcome, Reports, BatchDrivers, RowDrivers
<1>1. /\ n[c] \in Execs
      /\ its[c] \in Seq(Row) /\ DOMAIN its[c] = 1..Len(its[c]) /\ Len(its[c]) \in Nat
      /\ at[c] \in Nat /\ at[c] < Len(its[c])
      /\ \A i \in DOMAIN its[c] : its[c][i].by = n[c]
      /\ Own(c) = First(its[c], at[c])
      /\ Driver = "leveldb" => at[c] = 0
  <2>1. n[c] \in 0..MaxExecs /\ its[c] \in Seq(Row) /\ at[c] \in Nat
    BY DEF TypeOK
  <2>2. n[c] > 0 /\ at[c] < Len(its[c])
    BY <1>0 DEF CallOK
  <2>3. \A i \in DOMAIN its[c] : its[c][i].by = n[c]
    BY DEF BatchOK, Batch
  <2>4. /\ Own(c) = First(its[c], at[c])
        /\ Driver = "leveldb" => at[c] = 0
    BY <1>0 DEF StoreOK, StoreOf, First
  <2>5. n[c] \in Execs
    BY <2>1, <2>2, Constants DEF Execs
  <2> QED
    BY <2>1, <2>2, <2>3, <2>4, <2>5
<1>2. Driver = "leveldb" => Own(c) = {}
  BY <1>1 DEF First
<1>3. Committed(c) => reply'[n[c]] # "error"
  <2>1. reply[n[c]] = "none" /\ reply \in [Execs -> {"none", "ok", "error"}]
    BY <1>0 DEF ExecOK, CallOK, TypeOK
  <2>2. ASSUME Committed(c) PROVE reply' = [reply EXCEPT ![n[c]] = "ok"] \/ reply' = reply
    BY <2>2 DEF Committed, Return, outcome
  <2> QED
    BY <1>1, <2>1, <2>2
<1>4. CommitFailed(c) => pc'[c] = "idle" /\ reply'[n[c]] = "error"
  BY <1>0, <1>1 DEF CommitFailed, Return, TypeOK
<1>5. First(its[c], at[c]) \cup {its[c][at[c] + 1]} = First(its[c], at[c] + 1)
  <2>1. 1..(at[c] + 1) = 1..at[c] \cup {at[c] + 1}
    BY <1>1
  <2> QED
    BY <2>1 DEF First
<1>6. First(its[c], at[c]) \subseteq ToSet(its[c])
  BY <1>1 DEF First, ToSet
<1>7. CASE CommitBatch(c)
  <2>1. rows' = rows \cup ToSet(its[c]) /\ Committed(c) /\ Driver \in BatchDrivers
    BY <1>7 DEF CommitBatch
  <2>2. \A r \in ToSet(its[c]) : r.by = n[c]
    BY <1>1 DEF ToSet
  <2>3. Own(c)' = ToSet(its[c])
    BY <2>1, <2>2, <1>0, <1>1, <1>6 DEF Own
  <2>4. reply'[n[c]] # "error"
    BY <2>1, <1>3
  <2> QED
    BY <1>2, <2>3, <2>4
<1>8. CASE CommitBatchFails(c)
  <2>1. Driver = "leveldb" /\ CommitFailed(c)
    BY <1>0, <1>8 DEF CommitBatchFails
  <2>2. rows' = rows
    BY <1>8, <2>1 DEF CommitBatchFails, Surviving
  <2>3. Own(c)' = First(its[c], 0) /\ 0 \in 0..Len(its[c])
    BY <2>1, <2>2, <1>0, <1>1 DEF Own
  <2> QED
    BY <1>2, <1>4, <2>1, <2>3
<1>9. CASE InsertRow(c)
  <2>1. rows' = rows \cup {its[c][at[c] + 1]} /\ Driver # "leveldb"
    BY <1>0, <1>9 DEF InsertRow
  <2>2. its[c][at[c] + 1].by = n[c]
    BY <1>1
  <2>3. Own(c)' = First(its[c], at[c] + 1) /\ at[c] + 1 \in 0..Len(its[c])
    BY <2>1, <2>2, <1>0, <1>1, <1>5 DEF Own
  <2>4. CASE at[c] + 1 < Len(its[c])
    <3>1. pc' = pc
      BY <1>9, <2>4 DEF InsertRow
    <3> QED
      BY <3>1, <1>0, <2>1, <2>3
  <2>5. CASE ~(at[c] + 1 < Len(its[c]))
    <3>1. at[c] + 1 = Len(its[c])
      BY <2>5, <1>1
    <3>2. Own(c)' = ToSet(its[c])
      BY <3>1, <2>3, <1>1 DEF First, ToSet
    <3> QED
      BY <3>2, <2>1
  <2> QED
    BY <2>4, <2>5
<1>10. CASE InsertRowFails(c)
  <2>1. CommitFailed(c) /\ Driver # "leveldb"
    BY <1>0, <1>10 DEF InsertRowFails
  <2>2. its[c][at[c] + 1].by = n[c]
    BY <1>1
  <2>3. rows' = rows \/ rows' = rows \cup {its[c][at[c] + 1]}
    BY <1>10 DEF InsertRowFails
  <2>4. \E m \in {at[c], at[c] + 1} : Own(c)' = First(its[c], m)
    BY <2>2, <2>3, <1>0, <1>1, <1>5 DEF Own
  <2>5. at[c] \in 0..Len(its[c]) /\ at[c] + 1 \in 0..Len(its[c])
    BY <1>1
  <2> QED
    BY <2>1, <2>4, <2>5, <1>4
<1> QED
  BY <1>7, <1>8, <1>9, <1>10

\* The status of each execution, as EntityStore sees it.
Statuses == [x \in Execs |-> Status(x)]

\* A step of an execution under way is an Advance.
LEMMA SimulatesAdvance ==
  ASSUME TypeOK, CallOK, ExecOK, NEW c \in Clients, n[c] \in Execs, pc[c] # "idle",
         UNCHANGED <<n, started>>, Answers(c),
         rows \subseteq rows', \A r \in rows' : r \in rows \/ r.by = n[c],
         Store!Part(Own(c)'), pc'[c] = "idle" /\ reply'[n[c]] = "ok" => Store!Whole(Own(c)'),
         Driver = "leveldb" /\ Own(c)' # {} =>
           /\ Store!Whole(Own(c)') /\ Own(c) \in {{}, Own(c)'}
           /\ reply'[n[c]] # "error"
  PROVE  Store!Next
<1> DEFINE x == n[c]
<1>1. /\ reply \in [Execs -> {"none", "ok", "error"}] /\ reply[x] = "none" /\ x <= started
      /\ x > 0
  BY Constants DEF TypeOK, ExecOK, Execs
<1>2. \A y \in Execs : y # x => reply'[y] = reply[y]
  BY <1>1 DEF Answers
<1>3. reply'[x] \in {"none", "ok", "error"} /\ (reply'[x] = "none" <=> pc'[c] # "idle")
  BY <1>1 DEF Answers
<1>4. Status(x) = "open" /\ \A y \in Execs : y # x => Status(y)' = Status(y)
  BY <1>1, <1>2 DEF Status
<1>5. Status(x)' = IF pc'[c] = "idle" THEN reply'[x] ELSE "open"
  BY <1>1, <1>3 DEF Status
<1>6. Status(x)' \in {"open", "ok", "error"}
  BY <1>3, <1>5
<1>7. Statuses' = [Statuses EXCEPT ![x] = Status(x)'] /\ Statuses'[x] = Status(x)'
  BY <1>4 DEF Statuses
<1>8. Own(c)' = Store!By(x, rows') /\ Own(c) = Store!By(x, rows)
  BY DEF Own, Store!By
<1>9. rows' \ rows \subseteq Store!By(x, rows')
  BY DEF Store!By
<1>10. Statuses[x] = "open"
  BY <1>4 DEF Statuses
<1>11. Statuses'[x] = "ok" => Store!Whole(Store!By(x, rows'))
  BY <1>5, <1>7, <1>8
<1>12. (Driver = "leveldb") /\ Store!By(x, rows') # {} =>
         /\ Store!Whole(Store!By(x, rows'))
         /\ Store!By(x, rows) \in {{}, Store!By(x, rows')}
         /\ Statuses'[x] # "error"
  BY <1>5, <1>7, <1>8
<1>13. Store!Advance(x)
  BY <1>6, <1>7, <1>8, <1>9, <1>10, <1>11, <1>12 DEF Store!Advance, Statuses
<1> QED
  BY <1>13 DEF Store!Next

\* Every step of a client is one of EntityStore, or a stutter.
LEMMA SimulatesStep ==
  ASSUME Driver \in {"leveldb", "sqlstore"},
         TypeOK, CallOK, ExecOK, BatchOK, StoreOK, [Next]_vars
  PROVE  [Store!Next]_(Store!vars)
<1>1. ASSUME UNCHANGED <<started, reply, rows>> PROVE UNCHANGED Store!vars
  <2>1. \A x \in Execs : Status(x)' = Status(x)
    BY <1>1 DEF Status
  <2> QED
    BY <1>1, <2>1 DEF Store!vars
<1>2. ASSUME NEW c \in Clients, Execute(c) PROVE Store!Next
  <2>0. started \in Nat /\ started + 1 \in Execs
    BY <1>2, Constants DEF Execute, TypeOK, Execs
  <2> PICK x \in Execs : x = started + 1
    BY <2>0
  <2>1. /\ x \in Nat /\ x = started + 1 /\ started \in Nat /\ started' = x /\ reply' = reply /\ rows' = rows
    BY <1>2, <2>0 DEF Execute, Execs
  <2>2. reply[x] = "none" /\ ~(x <= started)
    BY <2>1 DEF ExecOK
  <2>3. Status(x) = "none" /\ Status(x)' = "open"
    BY <2>1, <2>2 DEF Status
  <2>4. \A y \in Execs : y # x => Status(y)' = Status(y)
    <3> SUFFICES ASSUME NEW y \in Execs, y # x PROVE y <= x <=> y <= started
      BY <2>1 DEF Status
    <3> QED
      BY <2>1 DEF Execs
  <2>5. Statuses' = [Statuses EXCEPT ![x] = "open"] /\ Statuses[x] = "none"
    BY <2>1, <2>3, <2>4 DEF Statuses
  <2>6. Store!Begin(x)
    BY <2>1, <2>5 DEF Store!Begin, Statuses
  <2> QED
    BY <2>1, <2>6 DEF Store!Next
<1>3. ASSUME NEW c \in Clients, Walk(c) \/ Redraw(c) PROVE Store!Next
  <2>1. n[c] \in Execs /\ pc[c] # "idle" /\ UNCHANGED <<n, started>> /\ Answers(c)
    BY <1>3, StepAnswers
  <2>2. rows' = rows /\ pc[c] = "visit"
    BY <1>3 DEF Walk, Redraw
  <2>3. Own(c)' = {}
    <3>1. Own(c) = {}
      BY <2>2 DEF StoreOK, StoreOf
    <3>2. rows' = rows /\ n' = n
      BY <2>1, <2>2
    <3> QED
      BY <3>1, <3>2 DEF Own
  <2>4. pc'[c] = "idle" => reply'[n[c]] = "error"
    BY <1>3, <2>1, <2>2 DEF Walk, Redraw, GivesUp, TypeOK
  <2>5. Store!Part({})
    BY DEF Store!Part
  <2> QED
    BY <2>1, <2>2, <2>3, <2>4, <2>5, SimulatesAdvance
<1>4. ASSUME NEW c \in Clients,
             CommitBatch(c) \/ CommitBatchFails(c) \/ InsertRow(c) \/ InsertRowFails(c)
      PROVE  Store!Next
  <2>1. Write(c)
    BY <1>4, WriteSteps
  <2>2. n[c] \in Execs /\ pc[c] # "idle" /\ UNCHANGED <<n, started>> /\ Answers(c)
    BY <2>1, StepAnswers
  <2>3. rows \subseteq rows' /\ \A r \in rows' : r \in rows \/ r.by = n[c]
    <3>1. \A r \in ToSet(its[c]) : r.by = n[c]
      BY DEF ToSet, BatchOK, Batch
    <3> QED
      BY <2>1, <3>1 DEF Write
  <2>4. its[c] \in Seq(Row) /\ Batch(its[c], n[c]) /\ its[c] # <<>>
    BY <2>1 DEF Write, TypeOK, CallOK, BatchOK
  <2>5. Store!Whole(ToSet(its[c])) /\ Store!Part(ToSet(its[c]))
    BY <2>4, AllAreWhole DEF Store!Whole
  <2>6. \A m \in 0..Len(its[c]) : Store!Part(First(its[c], m))
    BY <2>4, FirstArePart
  <2>7. First(its[c], 0) = {}
    BY DEF First
  <2>8. /\ Driver = "leveldb" => Own(c) = {}
        /\ \/ Own(c)' = ToSet(its[c]) /\ (Driver = "leveldb" => reply'[n[c]] # "error")
           \/ /\ \E m \in 0..Len(its[c]) :
                   Own(c)' = First(its[c], m) /\ (Driver = "leveldb" => m = 0)
              /\ pc'[c] = "idle" => reply'[n[c]] = "error"
    BY <1>4, WriteOwn
  <2>9. /\ Store!Part(Own(c)')
        /\ pc'[c] = "idle" /\ reply'[n[c]] = "ok" => Store!Whole(Own(c)')
        /\ Driver = "leveldb" /\ Own(c)' # {} =>
             /\ Store!Whole(Own(c)') /\ Own(c) \in {{}, Own(c)'}
             /\ reply'[n[c]] # "error"
    BY <2>5, <2>6, <2>7, <2>8
  <2> QED
    BY <2>2, <2>3, <2>9, SimulatesAdvance
<1>5. ASSUME NEW c \in Clients, Notify(c) PROVE Store!Next
  <2>1. n[c] \in Execs /\ pc[c] # "idle" /\ UNCHANGED <<n, started>> /\ Answers(c)
    BY <1>5, StepAnswers
  <2>2. rows' = rows /\ pc[c] = "notify"
    BY <1>5 DEF Notify, Running
  <2>3. its[c] \in Seq(Row) /\ Batch(its[c], n[c]) /\ its[c] # <<>>
    BY <2>2 DEF TypeOK, CallOK, BatchOK
  <2>4. Reports
    BY DEF Reports
  <2>5. Own(c)' = Own(c) /\ Own(c) = ToSet(its[c])
    <3>1. \A r \in ToSet(its[c]) : r.by = n[c]
      BY <2>3 DEF ToSet, Batch
    <3>2. ToSet(its[c]) \subseteq rows /\ Own(c) \subseteq ToSet(its[c])
      BY <2>2, <2>4 DEF StoreOK, StoreOf
    <3> QED
      BY <3>1, <3>2, <2>1, <2>2 DEF Own
  <2>6. Store!Whole(Own(c)') /\ Store!Part(Own(c)')
    BY <2>3, <2>5, AllAreWhole DEF Store!Whole
  <2>7. reply'[n[c]] # "error"
    <3>1. reply[n[c]] = "none" /\ reply \in [Execs -> {"none", "ok", "error"}]
      BY <2>1, <2>2 DEF ExecOK, CallOK, TypeOK
    <3>2. reply' = [reply EXCEPT ![n[c]] = "ok"] \/ reply' = reply
      BY <1>5 DEF Notify, Return, outcome
    <3> QED
      BY <2>1, <3>1, <3>2
  <2> QED
    BY <2>1, <2>2, <2>5, <2>6, <2>7, SimulatesAdvance
<1>6. ASSUME NEW c \in Clients, Build(c) \/ FatalChildId(c) PROVE UNCHANGED Store!vars
  BY <1>1, <1>6 DEF Build, FatalChildId, client
<1>7. CASE UNCHANGED vars
  BY <1>1, <1>7 DEF vars
<1>8. ASSUME NEW c \in Clients, VisitRoot(c) \/ VisitChild(c) \/ DrawRejected(c)
      PROVE  Store!Next
  BY <1>3, <1>8, WalkSteps, RedrawSteps
<1>9. ASSUME NEW c \in Clients,
             NewUpdate(c) \/ SetSource(c) \/ AddChild(c) \/ Set(c) \/ SetCommitTs(c)
      PROVE  UNCHANGED Store!vars
  BY <1>6, <1>9, BuildSteps
<1> QED
  BY <1>2, <1>4, <1>5, <1>6, <1>7, <1>8, <1>9 DEF Next, Step, Done

\* Over leveldb and over SQL, Execute implements the abstract store: at every
\* moment the rows an execution has stored have an author and one timestamp
\* and hang on one entity, they are whole when it answers nil, and leveldb
\* has all or none of them.
THEOREM ExecuteImplementsStore ==
  ASSUME Driver \in {"leveldb", "sqlstore"}
  PROVE  Spec => StoreImplemented
<1>1. Init => Store!Init
  BY DEF Init, Store!Init, Status, Execs
<1>2. TypeOK /\ CallOK /\ ExecOK /\ BatchOK /\ StoreOK /\ [Next]_vars
        => [Store!Next]_(Store!vars)
  BY SimulatesStep
<1> QED
  BY <1>1, <1>2, CallsCorrect, ExecsCorrect, BatchesCorrect, StoreCorrect, PTL
     DEF Spec, StoreImplemented, Store!Spec

=============================================================================
