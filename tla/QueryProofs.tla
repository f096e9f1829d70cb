----------------------------- MODULE QueryProofs -----------------------------
(***************************************************************************)
(* Proofs about Query: the goroutines of a query form a tree, each counts   *)
(* the children it still has to hear from, and so a query that returns      *)
(* leaves behind, unfinished or with an error nobody heard of, only what is *)
(* below an entity that was discarded.  And what it returns is sandwiched:  *)
(* what goroutines have read, placed and heard leaves nothing out that was  *)
(* there all along, and lets nothing in that is not there now.  Until it    *)
(* returns somebody can go on.                                              *)
(***************************************************************************)
EXTENDS Query, SequenceTheorems, FiniteSetTheorems, WellFoundedInduction, TLAPS

\* Every entity id a goroutine can have.
Ids == {Root} \cup {r.o : r \in UNION (Stores \cup Batches)}

QueryNodes ==
  [parent : Nat, kind : Kinds \cup {None}, filterOut : SUBSET Filters,
   maxDepth : 0..MaxLevel, getDeleted : BOOLEAN]

Tasks ==
  [q : 0..Len(query), level : Nat, max : 0..MaxLevel, del : BOOLEAN,
   pc : {"get", "wait", "send", "done"}, wait : Nat,
   out : SUBSET Seq(Ids)]

\* The children of the goroutine of `path` that have not been heard.
Pending(path) ==
  {o \in Ids : Append(path, o) \in DOMAIN tasks /\ tasks[Append(path, o)].pc # "done"}

----------------------------------------------------------------------------
(* The inductive invariant. *)

Shape ==
  /\ phase \in {"build", "run", "returned", "panicked"}
  /\ query \in Seq(QueryNodes)
  /\ Len(query) \in 1..MaxNodes
  /\ \A k \in DOMAIN query : query[k].parent \in 0..(k-1)
  /\ rows \subseteq UNION (Stores \cup Batches)
  /\ IsFiniteSet(rows)
  /\ batches \subseteq Batches
  /\ before \subseteq rows \/ phase = "build"
  /\ tasks \in [DOMAIN tasks -> Tasks]

\* The goroutines form a tree below that of the root entity: each was started
\* by one that has read its rows.
Tree ==
  /\ phase = "build" => DOMAIN tasks = {}
  /\ phase # "build" => <<Root>> \in DOMAIN tasks
  /\ \A path \in DOMAIN tasks :
       /\ path \in Seq(Ids)
       /\ Len(path) = 1 => path = <<Root>>
       /\ Len(path) # 1 => /\ Len(path) > 1
                           /\ Front(path) \in DOMAIN tasks
                           /\ tasks[Front(path)].pc # "get"

\* What a goroutine still waits for is what it started and has not heard, and
\* it has a result of its own by then.
Waiting(path) ==
  LET t == tasks[path]
  IN /\ t.pc = "wait" <=> t.wait > 0
     /\ t.pc = "wait" => /\ IsFiniteSet(Pending(path))
                         /\ t.wait = Cardinality(Pending(path))
                         /\ path \in t.out /\ <<>> \notin t.out

\* A goroutine with a result that is neither empty nor an error has heard all
\* its children; an error of a child is never taken.
Answered(path) ==
  LET t == tasks[path]
  IN /\ <<>> \in t.out => t.out = Err
     /\ t.pc \in {"send", "done"} /\ t.out \notin {{}, Err} => Pending(path) = {}
     /\ t.pc = "done" /\ Len(path) > 1 => t.out # Err

\* Run returns what the root's goroutine hands it.
Returned ==
  phase = "returned" => tasks[<<Root>>].pc = "done" /\ result = tasks[<<Root>>].out

IInv ==
  /\ Shape
  /\ Tree
  /\ \A path \in DOMAIN tasks : Waiting(path) /\ Answered(path)
  /\ Returned

----------------------------------------------------------------------------
(* Paths. *)

\* A path is its front and its last entity.
LEMMA PathSplits ==
  ASSUME NEW S, NEW path \in Seq(S), Len(path) > 1
  PROVE  /\ Front(path) \in Seq(S)
         /\ Len(Front(path)) = Len(path) - 1
         /\ \A i \in 1..(Len(path) - 1) : Front(path)[i] = path[i]
         /\ Last(path) \in S
         /\ Append(Front(path), Last(path)) = path
<1> PICK n \in Nat : n = Len(path)
  BY LenProperties
<1>1. n > 1 /\ \A i \in 1..n : path[i] \in S
  BY ElementOfSeq
<1>2. /\ Front(path) \in Seq(S)
      /\ Len(Front(path)) = n - 1
      /\ \A i \in 1..(n - 1) : Front(path)[i] = path[i]
  <2>1. /\ SubSeq(path, 1, n - 1) \in Seq(S)
        /\ Len(SubSeq(path, 1, n - 1)) = IF 1 <= n - 1 THEN (n - 1) - 1 + 1 ELSE 0
        /\ \A i \in 1..((n - 1) - 1 + 1) : SubSeq(path, 1, n - 1)[i] = path[1 + i - 1]
    BY <1>1, SubSeqProperties
  <2> QED
    BY <1>1, <2>1 DEF Front
<1>3. Last(path) = path[n] /\ Last(path) \in S
  BY <1>1 DEF Last
<1>4. /\ Append(Front(path), Last(path)) \in Seq(S)
      /\ Len(Append(Front(path), Last(path))) = n
      /\ \A i \in 1..(n - 1) : Append(Front(path), Last(path))[i] = path[i]
      /\ Append(Front(path), Last(path))[n] = path[n]
  <2>1. /\ Append(Front(path), Last(path)) \in Seq(S)
        /\ Len(Append(Front(path), Last(path))) = Len(Front(path)) + 1
        /\ \A i \in 1..Len(Front(path)) :
              Append(Front(path), Last(path))[i] = Front(path)[i]
        /\ Append(Front(path), Last(path))[Len(Front(path)) + 1] = Last(path)
    BY <1>2, <1>3, AppendProperties
  <2> QED
    BY <1>1, <1>2, <1>3, <2>1
<1>5. Append(Front(path), Last(path)) = path
  <2>1. \A i \in 1..n : Append(Front(path), Last(path))[i] = path[i]
    BY <1>4
  <2> QED
    BY <1>4, <2>1, SeqEqual
<1> QED
  BY <1>2, <1>3, <1>5

\* A child's path is its parent's with one entity more.
LEMMA ChildPath ==
  ASSUME NEW S, NEW path \in Seq(S), NEW o \in S
  PROVE  /\ Append(path, o) \in Seq(S)
         /\ Len(Append(path, o)) = Len(path) + 1
         /\ Front(Append(path, o)) = path
         /\ Last(Append(path, o)) = o
<1> PICK n \in Nat : n = Len(path)
  BY LenProperties
<1> PICK c \in Seq(S) : c = Append(path, o)
  BY AppendProperties
<1>1. /\ Len(c) = n + 1
      /\ \A i \in 1..n : c[i] = path[i]
      /\ c[n + 1] = o
  BY AppendProperties
<1>2. Last(c) = o
  BY <1>1 DEF Last
<1>3. \A i \in 1..(n + 1) : c[i] \in S
  BY <1>1, ElementOfSeq
<1>4. /\ SubSeq(c, 1, n) \in Seq(S)
      /\ Len(SubSeq(c, 1, n)) = IF 1 <= n THEN n - 1 + 1 ELSE 0
      /\ \A i \in 1..(n - 1 + 1) : SubSeq(c, 1, n)[i] = c[1 + i - 1]
  <2>1. \A i \in 1..n : c[i] \in S
    BY <1>3
  <2> QED
    BY <2>1, SubSeqProperties
<1>5. SubSeq(c, 1, n) = path
  <2>1. Len(SubSeq(c, 1, n)) = n
    BY <1>4
  <2>2. \A i \in 1..n : SubSeq(c, 1, n)[i] = path[i]
    BY <1>1, <1>4
  <2> QED
    BY <1>4, <2>1, <2>2, SeqEqual
<1>6. Front(c) = path
  BY <1>1, <1>5 DEF Front
<1> QED
  BY <1>1, <1>2, <1>6

----------------------------------------------------------------------------
(* Goroutines. *)

\* What the operators on a goroutine leave it with.
LEMMA AnswersGives ==
  ASSUME NEW t \in Tasks, NEW out \in SUBSET Seq(Ids)
  PROVE  /\ Answers(t, out) \in Tasks
         /\ Answers(t, out).pc = "send"
         /\ Answers(t, out).wait = t.wait
         /\ Answers(t, out).out = out
BY DEF Answers, Tasks

LEMMA DoneGives ==
  ASSUME NEW t \in Tasks
  PROVE  /\ Done(t) \in Tasks
         /\ Done(t).pc = "done"
         /\ Done(t).wait = t.wait
         /\ Done(t).out = t.out
BY DEF Done, Tasks

Changed(t, wait, out, next) == [t EXCEPT !.wait = wait, !.out = out, !.pc = next]

LEMMA ChangedGives ==
  ASSUME NEW t \in Tasks, NEW wait \in Nat, NEW out \in SUBSET Seq(Ids),
         NEW next \in {"wait", "send"}
  PROVE  /\ Changed(t, wait, out, next) \in Tasks
         /\ Changed(t, wait, out, next).pc = next
         /\ Changed(t, wait, out, next).wait = wait
         /\ Changed(t, wait, out, next).out = out
BY DEF Changed, Tasks

LEMMA HearsGives ==
  ASSUME NEW t \in Tasks, t.wait > 0, NEW out \in SUBSET Seq(Ids)
  PROVE  /\ Hears(t, out) \in Tasks
         /\ Hears(t, out).pc = IF t.wait = 1 THEN "send" ELSE "wait"
         /\ Hears(t, out).wait = t.wait - 1
         /\ Hears(t, out).out = t.out \cup out
<1>1. t.wait \in Nat /\ t.out \in SUBSET Seq(Ids)
  BY DEF Tasks
<1>2. PICK wait \in Nat : wait = t.wait - 1
  BY <1>1
<1>3. PICK both \in SUBSET Seq(Ids) : both = t.out \cup out
  BY <1>1
<1>4. PICK next \in {"wait", "send"} : next = IF t.wait = 1 THEN "send" ELSE "wait"
  OBVIOUS
<1>5. Hears(t, out) = Changed(t, wait, both, next)
  BY <1>2, <1>3, <1>4 DEF Hears, Changed
<1> QED
  BY <1>2, <1>3, <1>4, <1>5, ChangedGives

With(t, out) == [t EXCEPT !.out = out]

LEMMA WithGives ==
  ASSUME NEW t \in Tasks, NEW out \in SUBSET Seq(Ids)
  PROVE  With(t, out) \in Tasks /\ With(t, out).out = out
BY DEF With, Tasks

LEMMA WaitsGives ==
  ASSUME NEW t \in Tasks, NEW kids \in Nat
  PROVE  /\ Waits(t, kids) \in Tasks
         /\ Waits(t, kids).pc = IF kids = 0 THEN "send" ELSE "wait"
         /\ Waits(t, kids).wait = kids
         /\ Waits(t, kids).out = t.out
<1>1. PICK next \in {"wait", "send"} : next = IF kids = 0 THEN "send" ELSE "wait"
  OBVIOUS
<1>2. PICK out \in SUBSET Seq(Ids) : out = t.out
  BY DEF Tasks
<1>3. Waits(t, kids) = Changed(t, kids, out, next)
  BY <1>1, <1>2 DEF Waits, Changed, Tasks
<1> QED
  BY <1>1, <1>2, <1>3, ChangedGives

\* A link is followed to a goroutine that has read nothing yet.
LEMMA ChildTaskGives ==
  ASSUME Shape, NEW t \in Tasks, NEW kind
  PROVE  /\ ChildTask(t, kind) \in Tasks
         /\ ChildTask(t, kind).pc = "get"
         /\ ChildTask(t, kind).wait = 0
         /\ ChildTask(t, kind).out = {}
<1>0. Len(query) \in Nat /\ DOMAIN query = 1..Len(query)
  BY LenProperties DEF Shape
<1>1. CASE Collected(t.q, kind) # {}
  <2>1. PICK k \in Collected(t.q, kind) :
           ChildTask(t, kind) = Task(k, 0, query[k].maxDepth, t.del)
    BY <1>1 DEF ChildTask
  <2>2. k \in 1..Len(query)
    BY <1>0, <2>1 DEF Collected
  <2>3. query[k] \in QueryNodes
    BY <2>2, ElementOfSeq DEF Shape
  <2>4. query[k].maxDepth \in 0..MaxLevel
    BY <2>3 DEF QueryNodes
  <2> QED
    BY <1>0, <2>1, <2>2, <2>4 DEF Task, Tasks
<1>2. CASE Collected(t.q, kind) = {}
  <2>1. ChildTask(t, kind) = Task(0, t.level + 1, t.max, t.del)
    BY <1>2 DEF ChildTask
  <2> QED
    BY <1>0, <2>1 DEF Task, Tasks
<1> QED
  BY <1>1, <1>2

----------------------------------------------------------------------------
(* Starting goroutines. *)

\* The entities for which goroutines are started on the rows `seen`.
Kids(t, seen) == {r.o : r \in {r \in seen : Follows(t, r)}}

\* The goroutine of `path` goes on as t2, with new ones for its children beside
\* the old ones.
Started(path, seen, t2) ==
  /\ Kids(tasks[path], seen) \subseteq Ids
  /\ DOMAIN tasks' = DOMAIN tasks
                       \cup {Append(path, o) : o \in Kids(tasks[path], seen)}
  /\ tasks' \in [DOMAIN tasks' -> Tasks']
  /\ tasks'[path] = t2
  /\ \A p \in DOMAIN tasks : p # path => tasks'[p] = tasks[p]
  /\ \A o \in Kids(tasks[path], seen) :
       /\ Append(path, o) \notin DOMAIN tasks
       /\ tasks'[Append(path, o)].pc = "get"
       /\ tasks'[Append(path, o)].wait = 0
       /\ tasks'[Append(path, o)].out = {}

LEMMA ContinueGives ==
  ASSUME IInv, NEW path \in DOMAIN tasks, tasks[path].pc = "get",
         NEW seen \in SUBSET rows, NEW t2 \in Tasks,
         Continue(path, tasks[path], seen, t2), UNCHANGED query
  PROVE  Started(path, seen, t2)
<1> PICK t \in Tasks : t = tasks[path]
  BY DEF IInv, Shape
<1> PICK links : links = {r \in seen : Follows(t, r)}
  OBVIOUS
<1> PICK kids : kids = Kids(t, seen)
  OBVIOUS
<1>1. kids = {r.o : r \in links}
  BY DEF Kids
<1>2. kids \subseteq Ids
  BY <1>1 DEF Ids, IInv, Shape
<1> PICK new : new = Spawned(path, t, seen)
  OBVIOUS
<1>3. new = [c \in {Append(path, r.o) : r \in links} |->
               ChildTask(t, (CHOOSE r \in links : r.o = Last(c)).p)]
  BY DEF Spawned
<1>4. DOMAIN new = {Append(path, o) : o \in kids}
  BY <1>1, <1>3
<1>5. \A c \in DOMAIN new : /\ new[c] \in Tasks
                            /\ new[c].pc = "get" /\ new[c].wait = 0 /\ new[c].out = {}
  <2> TAKE c \in DOMAIN new
  <2>1. PICK kind : new[c] = ChildTask(t, kind)
    BY <1>3
  <2>2. Shape
    BY DEF IInv
  <2>3. /\ ChildTask(t, kind) \in Tasks
        /\ ChildTask(t, kind).pc = "get"
        /\ ChildTask(t, kind).wait = 0
        /\ ChildTask(t, kind).out = {}
    BY <2>2, ChildTaskGives
  <2> QED
    BY <2>1, <2>3
<1>6. \A c \in DOMAIN new : c \notin DOMAIN tasks
  <2> TAKE c \in DOMAIN new
  <2>1. PICK o \in kids : c = Append(path, o)
    BY <1>4
  <2>2. path \in Seq(Ids) /\ Len(path) \in Nat /\ Len(path) >= 1
    <3>1. path \in Seq(Ids) /\ (Len(path) # 1 => Len(path) > 1)
      BY DEF IInv, Tree
    <3> QED
      BY <3>1, LenProperties
  <2>3. Front(c) = path /\ Len(c) = Len(path) + 1
    BY <1>2, <2>1, <2>2, ChildPath
  <2> QED
    BY <2>2, <2>3 DEF IInv, Tree
<1>7. tasks' = [p \in {path} \cup DOMAIN new \cup DOMAIN tasks |->
                  IF p = path THEN t2 ELSE IF p \in DOMAIN new THEN new[p] ELSE tasks[p]]
  BY DEF Continue
<1>8. tasks \in [DOMAIN tasks -> Tasks] /\ Tasks' = Tasks
  BY DEF IInv, Shape, Tasks
<1>9. DOMAIN tasks' = DOMAIN tasks \cup DOMAIN new
  BY <1>7
<1>10. tasks'[path] = t2
  BY <1>7
<1>11. \A p \in DOMAIN tasks : p # path => tasks'[p] = tasks[p]
  BY <1>6, <1>7
<1>12. \A p \in DOMAIN new : tasks'[p] = new[p]
  BY <1>6, <1>7
<1>13. tasks' \in [DOMAIN tasks' -> Tasks]
  BY <1>5, <1>7, <1>8
<1>14. ASSUME NEW o \in kids
       PROVE  /\ Append(path, o) \notin DOMAIN tasks
              /\ tasks'[Append(path, o)].pc = "get"
              /\ tasks'[Append(path, o)].wait = 0
              /\ tasks'[Append(path, o)].out = {}
  <2>1. PICK c \in DOMAIN new : c = Append(path, o)
    BY <1>4
  <2>2. c \notin DOMAIN tasks /\ tasks'[c] = new[c]
    BY <1>6, <1>12
  <2>3. new[c].pc = "get" /\ new[c].wait = 0 /\ new[c].out = {}
    BY <1>5
  <2> QED
    BY <2>1, <2>2, <2>3
<1>15. DOMAIN tasks' = DOMAIN tasks \cup {Append(path, o) : o \in kids}
  BY <1>4, <1>9
<1>16. tasks' \in [DOMAIN tasks' -> Tasks']
  BY <1>8, <1>13
<1>17. kids = Kids(tasks[path], seen)
  OBVIOUS
<1> QED
  BY <1>2, <1>10, <1>11, <1>14, <1>15, <1>16, <1>17 DEF Started

\* What it waits for is what it started; the others wait for what they did.
LEMMA ContinuePending ==
  ASSUME IInv, NEW path \in DOMAIN tasks, tasks[path].pc = "get",
         NEW seen \in SUBSET rows, NEW t2 \in Tasks, t2.pc # "done",
         Continue(path, tasks[path], seen, t2), UNCHANGED query
  PROVE  /\ Pending(path)' = Kids(tasks[path], seen)
         /\ \A p \in DOMAIN tasks : p # path => Pending(p)' = Pending(p)
<1> PICK kids : kids = Kids(tasks[path], seen)
  OBVIOUS
<1>1. /\ kids \subseteq Ids
      /\ DOMAIN tasks' = DOMAIN tasks \cup {Append(path, o) : o \in kids}
      /\ tasks'[path] = t2
      /\ \A p \in DOMAIN tasks : p # path => tasks'[p] = tasks[p]
      /\ \A o \in kids : tasks'[Append(path, o)].pc = "get"
  <2>1. Started(path, seen, t2)
    BY ContinueGives
  <2> QED
    BY <2>1 DEF Started
<1>2. \A p \in DOMAIN tasks : p \in Seq(Ids)
  BY DEF IInv, Tree
<1>3. ASSUME NEW p \in DOMAIN tasks, NEW o \in Ids
      PROVE  /\ Append(p, o) \in Seq(Ids)
             /\ Front(Append(p, o)) = p
             /\ Last(Append(p, o)) = o
             /\ Len(Append(p, o)) # 1
  <2>0. p \in Seq(Ids) /\ Len(p) \in Nat
    BY <1>2, LenProperties
  <2>1. Len(p) >= 1 /\ Len(Append(p, o)) = Len(p) + 1
    BY <2>0, ChildPath DEF IInv, Tree
  <2> QED
    BY <1>2, <2>1, ChildPath
<1>4. ASSUME NEW o \in Ids
      PROVE  o \in Pending(path)' <=> o \in kids
  <2>1. Append(path, o) \notin DOMAIN tasks
    BY <1>3 DEF IInv, Tree
  <2>2. Append(path, o) \in DOMAIN tasks' <=> o \in kids
    BY <1>1, <1>3, <2>1
  <2> QED
    BY <1>1, <2>2 DEF Pending, Ids
<1>5. ASSUME NEW p \in DOMAIN tasks, p # path, NEW o \in Ids
      PROVE  o \in Pending(p)' <=> o \in Pending(p)
  <2>1. Append(p, o) \in DOMAIN tasks' <=> Append(p, o) \in DOMAIN tasks
    BY <1>1, <1>3, <1>5
  <2>2. Append(p, o) \in DOMAIN tasks =>
           (tasks'[Append(p, o)].pc # "done" <=> tasks[Append(p, o)].pc # "done")
    BY <1>1
  <2> QED
    BY <2>1, <2>2 DEF Pending, Ids
<1>6. Pending(path)' \subseteq Ids /\ \A p : Pending(p)' \subseteq Ids /\ Pending(p) \subseteq Ids
  BY DEF Pending, Ids
<1> QED
  BY <1>1, <1>4, <1>5, <1>6

----------------------------------------------------------------------------
(* Every step keeps the invariant. *)

\* What the invariant says of one goroutine, in the parts the steps need.
LEMMA TaskFacts ==
  ASSUME IInv, NEW path \in DOMAIN tasks
  PROVE  /\ tasks[path] \in Tasks
         /\ tasks[path].pc \in {"get", "wait", "send", "done"}
         /\ tasks[path].wait \in Nat
         /\ tasks[path].out \in SUBSET Seq(Ids)
         /\ Waiting(path) /\ Answered(path)
         /\ path \in Seq(Ids) /\ Len(path) \in Nat /\ Len(path) >= 1
         /\ path # <<>>
<1>1. tasks[path] \in Tasks
  BY DEF IInv, Shape
<1>2. path \in Seq(Ids) /\ Len(path) \in Nat
  BY LenProperties DEF IInv, Tree
<1>3. Len(path) >= 1
  <2>1. Len(path) # 1 => Len(path) > 1
    BY DEF IInv, Tree
  <2> QED
    BY <1>2, <2>1
<1>4. path # <<>>
  BY <1>3
<1>5. Waiting(path) /\ Answered(path)
  BY DEF IInv
<1> QED
  BY <1>1, <1>2, <1>3, <1>4, <1>5 DEF Tasks

\* A goroutine that has gone through its rows either hands on what it has, and
\* then it has started nothing or has nothing to hand on, or waits for all it
\* started.
LEMMA GoesOn ==
  ASSUME IInv, phase \in {"run", "returned"},
         NEW path \in DOMAIN tasks, tasks[path].pc = "get",
         NEW seen \in SUBSET rows, NEW t2 \in Tasks,
         Continue(path, tasks[path], seen, t2),
         UNCHANGED <<phase, query, rows, batches, result, before>>,
         \/ /\ t2.pc = "send" /\ t2.wait = 0
            /\ \/ t2.out = {} \/ t2.out = Err
               \/ t2.out = {path} /\ Kids(tasks[path], seen) = {}
         \/ /\ t2.pc = "wait" /\ t2.wait > 0 /\ t2.out = {path}
            /\ IsFiniteSet(Kids(tasks[path], seen))
            /\ t2.wait = Cardinality(Kids(tasks[path], seen))
  PROVE  IInv'
<1> PICK kids : kids = Kids(tasks[path], seen)
  OBVIOUS
<1>0. UNCHANGED query
  OBVIOUS
<1>1. /\ kids \subseteq Ids
      /\ DOMAIN tasks' = DOMAIN tasks \cup {Append(path, o) : o \in kids}
      /\ tasks' \in [DOMAIN tasks' -> Tasks']
      /\ tasks'[path] = t2
      /\ \A p \in DOMAIN tasks : p # path => tasks'[p] = tasks[p]
  <2>1. Started(path, seen, t2)
    BY <1>0, ContinueGives
  <2> QED
    BY <2>1 DEF Started
<1>2. ASSUME NEW o \in kids
      PROVE  /\ Append(path, o) \notin DOMAIN tasks
             /\ tasks'[Append(path, o)].pc = "get"
             /\ tasks'[Append(path, o)].wait = 0
             /\ tasks'[Append(path, o)].out = {}
  <2>1. Started(path, seen, t2)
    BY <1>0, ContinueGives
  <2> QED
    BY <2>1 DEF Started
<1>3. t2.pc # "done" /\ t2.pc # "get" /\ t2.wait \in Nat
  BY DEF Tasks
<1>4. /\ Pending(path)' = kids
      /\ \A p \in DOMAIN tasks : p # path => Pending(p)' = Pending(p)
  <2>1. /\ Pending(path)' = Kids(tasks[path], seen)
        /\ \A p \in DOMAIN tasks : p # path => Pending(p)' = Pending(p)
    BY <1>0, <1>3, ContinuePending
  <2> QED
    BY <2>1
<1>5. path \in Seq(Ids) /\ Len(path) \in Nat /\ Len(path) >= 1 /\ path # <<>>
  BY TaskFacts
<1>6. Shape'
  BY <1>1 DEF IInv, Shape, QueryNodes
<1>7. Tree'
  <2>1. \A p \in DOMAIN tasks : tasks[p].pc # "get" => tasks'[p].pc # "get"
    BY <1>1, <1>3
  <2>2. ASSUME NEW o \in kids
        PROVE  LET c == Append(path, o)
               IN c \in Seq(Ids) /\ Len(c) > 1 /\ Front(c) = path
    BY <1>1, <1>5, <2>2, ChildPath
  <2>3. ASSUME NEW p \in DOMAIN tasks'
        PROVE  /\ p \in Seq(Ids)
               /\ Len(p) = 1 => p = <<Root>>
               /\ Len(p) # 1 => /\ Len(p) > 1
                                /\ Front(p) \in DOMAIN tasks'
                                /\ tasks'[Front(p)].pc # "get"
    <3>1. CASE p \in DOMAIN tasks
      BY <1>1, <2>1, <3>1 DEF IInv, Tree
    <3>2. CASE \E o \in kids : p = Append(path, o)
      <4> PICK o \in kids : p = Append(path, o)
        BY <3>2
      <4>1. p \in Seq(Ids) /\ Len(p) > 1 /\ Front(p) = path
        BY <2>2
      <4> QED
        BY <1>1, <1>3, <4>1
    <3> QED
      BY <1>1, <3>1, <3>2
  <2>4. <<Root>> \in DOMAIN tasks' /\ phase' # "build"
    BY <1>1 DEF IInv, Tree
  <2> QED
    BY <2>3, <2>4 DEF Tree, Ids
<1>8. ASSUME NEW p \in DOMAIN tasks'
      PROVE  Waiting(p)' /\ Answered(p)'
  <2>1. CASE p = path
    <3>1. tasks'[p] = t2 /\ Pending(p)' = kids
      BY <1>1, <1>4, <2>1
    <3>2. Waiting(p)'
      BY <1>3, <1>5, <2>1, <3>1 DEF Waiting
    <3>3. Answered(p)'
      BY <1>3, <1>5, <2>1, <3>1 DEF Answered, Err
    <3> QED
      BY <3>2, <3>3
  <2>2. CASE p \in DOMAIN tasks /\ p # path
    <3>1. tasks'[p] = tasks[p] /\ Pending(p)' = Pending(p) /\ Waiting(p) /\ Answered(p)
      BY <1>1, <1>4, <2>2, TaskFacts
    <3> QED
      BY <3>1 DEF Waiting, Answered, Err
  <2>3. CASE \E o \in kids : p = Append(path, o)
    <3>1. tasks'[p].pc = "get" /\ tasks'[p].wait = 0 /\ tasks'[p].out = {}
      BY <1>2, <2>3
    <3> QED
      BY <3>1 DEF Waiting, Answered
  <2> QED
    BY <1>1, <2>1, <2>2, <2>3
<1>9. Returned'
  <2>1. ASSUME phase' = "returned"
        PROVE  tasks'[<<Root>>].pc = "done" /\ result' = tasks'[<<Root>>].out
    <3>1. phase = "returned" /\ <<Root>> \in DOMAIN tasks
      BY <2>1 DEF IInv, Tree
    <3>2. tasks[<<Root>>].pc = "done" /\ result = tasks[<<Root>>].out
      BY <3>1 DEF IInv, Returned
    <3>3. tasks'[<<Root>>] = tasks[<<Root>>]
      BY <1>1, <3>1, <3>2
    <3> QED
      BY <3>2, <3>3
  <2> QED
    BY <2>1 DEF Returned
<1> QED
  BY <1>6, <1>7, <1>8, <1>9 DEF IInv

\* A step that starts no goroutine keeps the tree ...
LEMMA TreeKept ==
  ASSUME IInv, phase # "build", phase' # "build", DOMAIN tasks' = DOMAIN tasks,
         \A p \in DOMAIN tasks : tasks[p].pc # "get" => tasks'[p].pc # "get"
  PROVE  Tree'
<1>1. <<Root>> \in DOMAIN tasks'
  BY DEF IInv, Tree
<1>2. ASSUME NEW p \in DOMAIN tasks'
      PROVE  /\ p \in Seq(Ids)
             /\ Len(p) = 1 => p = <<Root>>
             /\ Len(p) # 1 => /\ Len(p) > 1
                              /\ Front(p) \in DOMAIN tasks'
                              /\ tasks'[Front(p)].pc # "get"
  BY DEF IInv, Tree
<1> QED
  BY <1>1, <1>2 DEF Tree, Ids

\* ... and a step that hears from no child leaves everybody waiting for the
\* same children.
LEMMA PendingKept ==
  ASSUME IInv, DOMAIN tasks' = DOMAIN tasks,
         \A p \in DOMAIN tasks :
            Len(p) > 1 => (tasks'[p].pc = "done" <=> tasks[p].pc = "done")
  PROVE  \A p \in DOMAIN tasks : Pending(p)' = Pending(p)
<1> TAKE p \in DOMAIN tasks
<1>1. ASSUME NEW o \in Ids
      PROVE  o \in Pending(p)' <=> o \in Pending(p)
  <2>1. p \in Seq(Ids) /\ Len(p) \in Nat /\ Len(p) >= 1
    BY TaskFacts
  <2>2. Len(Append(p, o)) = Len(p) + 1
    BY <2>1, ChildPath
  <2>3. Len(Append(p, o)) > 1
    BY <2>1, <2>2
  <2> QED
    BY <2>3 DEF Pending, Ids
<1>2. Pending(p)' \subseteq Ids /\ Pending(p) \subseteq Ids
  BY DEF Pending, Ids
<1> QED
  BY <1>1, <1>2

\* GetEntity: whatever rows the goroutine went through, it GoesOn.
LEMMA GetEntityKeeps ==
  ASSUME IInv, NEW path \in DOMAIN tasks, GetEntity(path)
  PROVE  IInv'
<1> PICK t : t = tasks[path]
  OBVIOUS
<1> PICK its : its = {r \in rows : r.s = Last(path)}
  OBVIOUS
<1> PICK stops : stops = {r \in its : Discards(t, r) \/ Breaks(t, r)}
  OBVIOUS
<1> PICK kids : kids = {r.o : r \in {r \in its : Follows(t, r)}}
  OBVIOUS
<1>1. /\ phase \in {"run", "returned"}
      /\ t.pc = "get"
      /\ UNCHANGED <<phase, query, rows, batches, result, before>>
  BY DEF GetEntity, Alive
<1>2. \/ /\ its = {}
         /\ Continue(path, t, {}, Answers(t, {}))
      \/ /\ its # {} /\ stops = {}
         /\ Continue(path, t, its, Waits([t EXCEPT !.out = {path}], Cardinality(kids)))
      \/ \E stop \in stops : \E seen \in RowsSeen(its, stops, stop) :
           Continue(path, t, seen, Answers(t, IF Breaks(t, stop) THEN Err ELSE {}))
  BY DEF GetEntity
<1>3. /\ t \in Tasks /\ t.wait \in Nat /\ path \in Seq(Ids) /\ Waiting(path)
      /\ \A k \in Seq(Ids) : {k} \in SUBSET Seq(Ids)
  BY TaskFacts
<1>4. t.wait = 0
  BY <1>1, <1>3 DEF Waiting
<1>5. {} \in SUBSET Seq(Ids) /\ Err \in SUBSET Seq(Ids) /\ {path} \in SUBSET Seq(Ids)
  BY <1>3, EmptySeq DEF Err
<1>6. CASE its = {} /\ Continue(path, t, {}, Answers(t, {}))
  <2>1. PICK t2 \in Tasks : /\ t2 = Answers(t, {})
                            /\ t2.pc = "send" /\ t2.wait = 0 /\ t2.out = {}
    BY <1>3, <1>4, <1>5, AnswersGives
  <2>2. {} \in SUBSET rows /\ Continue(path, tasks[path], {}, t2)
    BY <1>6, <2>1
  <2> QED
    BY <1>1, <2>1, <2>2, GoesOn
<1>7. CASE /\ its # {}
           /\ Continue(path, t, its, Waits([t EXCEPT !.out = {path}], Cardinality(kids)))
  <2>1. its \in SUBSET rows /\ kids = Kids(tasks[path], its)
    BY DEF Kids
  <2>2. IsFiniteSet(kids)
    <3> DEFINE links == {r \in its : Follows(t, r)}
    <3>1. IsFiniteSet(links)
      BY <2>1, FS_Subset DEF IInv, Shape
    <3>2. [r \in links |-> r.o] \in Surjection(links, kids)
      BY DEF Surjection
    <3> QED
      BY <3>1, <3>2, FS_Surjection
  <2>3. PICK n \in Nat : n = Cardinality(kids) /\ (n = 0 <=> kids = {})
    BY <2>2, FS_CardinalityType, FS_EmptySet
  <2>4. PICK out \in SUBSET Seq(Ids) : out = {path}
    BY <1>5
  <2>5. PICK t1 \in Tasks : t1 = With(t, out) /\ t1.out = out
    BY <1>3, WithGives
  <2> PICK t2 : t2 = Waits(t1, n)
    OBVIOUS
  <2>6. /\ t2 \in Tasks /\ t2.wait = n /\ t2.out = out
        /\ t2.pc = IF n = 0 THEN "send" ELSE "wait"
    BY <2>5, WaitsGives
  <2>7. Continue(path, tasks[path], its, t2)
    BY <1>7, <2>3, <2>4, <2>5 DEF With
  <2>8. \/ /\ t2.pc = "send" /\ t2.wait = 0
           /\ t2.out = {path} /\ Kids(tasks[path], its) = {}
        \/ /\ t2.pc = "wait" /\ t2.wait > 0 /\ t2.out = {path}
           /\ IsFiniteSet(Kids(tasks[path], its))
           /\ t2.wait = Cardinality(Kids(tasks[path], its))
    <3>1. CASE n = 0
      BY <2>1, <2>3, <2>4, <2>6, <3>1
    <3>2. CASE n > 0
      <4>1. t2.pc = "wait" /\ t2.wait > 0 /\ t2.out = {path}
        BY <2>4, <2>6, <3>2
      <4>2. /\ IsFiniteSet(Kids(tasks[path], its))
            /\ t2.wait = Cardinality(Kids(tasks[path], its))
        BY <2>1, <2>2, <2>3, <2>6
      <4> QED
        BY <4>1, <4>2
    <3> QED
      BY <3>1, <3>2
  <2>9. tasks[path].pc = "get"
    BY <1>1
  <2> QED
    BY <1>1, <2>1, <2>6, <2>7, <2>8, <2>9, GoesOn
<1>8. CASE \E stop \in stops : \E seen \in RowsSeen(its, stops, stop) :
             Continue(path, t, seen, Answers(t, IF Breaks(t, stop) THEN Err ELSE {}))
  <2> PICK stop \in stops : \E seen \in RowsSeen(its, stops, stop) :
           Continue(path, t, seen, Answers(t, IF Breaks(t, stop) THEN Err ELSE {}))
    BY <1>8
  <2>1. PICK seen \in RowsSeen(its, stops, stop) :
           Continue(path, t, seen, Answers(t, IF Breaks(t, stop) THEN Err ELSE {}))
    OBVIOUS
  <2>2. seen \in SUBSET rows
    BY <2>1 DEF RowsSeen
  <2>3. PICK out \in SUBSET Seq(Ids) : /\ out = IF Breaks(t, stop) THEN Err ELSE {}
                                       /\ out = {} \/ out = Err
    BY <1>5
  <2>4. PICK t2 \in Tasks : /\ t2 = Answers(t, out)
                            /\ t2.pc = "send" /\ t2.wait = 0 /\ t2.out = out
    BY <1>3, <1>4, AnswersGives
  <2>5. Continue(path, tasks[path], seen, t2)
    BY <2>1, <2>3, <2>4
  <2>6. tasks[path].pc = "get"
    BY <1>1
  <2> QED
    BY <1>1, <2>2, <2>3, <2>4, <2>5, <2>6, GoesOn
<1> QED
  BY <1>2, <1>6, <1>7, <1>8

\* GetEntity fails: the goroutine hands on an error and has started nothing.
LEMMA GetEntityFailsKeeps ==
  ASSUME IInv, NEW path \in DOMAIN tasks, GetEntityFails(path)
  PROVE  IInv'
<1>1. /\ phase \in {"run", "returned"} /\ tasks[path].pc = "get"
      /\ tasks' = [tasks EXCEPT ![path] = Answers(tasks[path], Err)]
      /\ UNCHANGED <<phase, query, rows, batches, result, before>>
  BY DEF GetEntityFails, Alive
<1>2. tasks[path] \in Tasks /\ Waiting(path) /\ path \in Seq(Ids) /\ tasks[path].wait \in Nat
  BY TaskFacts
<1>3. Err \in SUBSET Seq(Ids)
  BY EmptySeq DEF Err
<1>4. PICK t2 \in Tasks : /\ t2 = Answers(tasks[path], Err)
                          /\ t2.pc = "send" /\ t2.wait = 0 /\ t2.out = Err
  BY <1>1, <1>2, <1>3, AnswersGives DEF Waiting
<1>5. /\ DOMAIN tasks' = DOMAIN tasks /\ tasks'[path] = t2
      /\ \A p \in DOMAIN tasks : p # path => tasks'[p] = tasks[p]
  BY <1>1, <1>4
<1>6. \A p \in DOMAIN tasks : Pending(p)' = Pending(p)
  BY <1>1, <1>4, <1>5, PendingKept
<1>7. Shape'
  <2>1. tasks' \in [DOMAIN tasks' -> Tasks]
    BY <1>1, <1>4 DEF IInv, Shape
  <2>2. Tasks' = Tasks
    BY <1>1 DEF Tasks, Ids
  <2> QED
    BY <1>1, <2>1, <2>2 DEF IInv, Shape, QueryNodes
<1>8. Tree'
  BY <1>1, <1>4, <1>5, TreeKept
<1>9. ASSUME NEW p \in DOMAIN tasks' PROVE Waiting(p)' /\ Answered(p)'
  <2>1. CASE p = path
    BY <1>4, <1>5, <2>1 DEF Waiting, Answered, Err
  <2>2. CASE p # path
    <3>1. tasks'[p] = tasks[p] /\ Pending(p)' = Pending(p) /\ Waiting(p) /\ Answered(p)
      BY <1>5, <1>6, <2>2, TaskFacts
    <3> QED
      BY <3>1 DEF Waiting, Answered, Err
  <2> QED
    BY <2>1, <2>2
<1>10. Returned'
  <2>1. phase = "returned" => tasks[<<Root>>].pc = "done" /\ result = tasks[<<Root>>].out
    BY DEF IInv, Returned
  <2>2. phase = "returned" => tasks'[<<Root>>] = tasks[<<Root>>]
    BY <1>1, <1>5, <2>1 DEF IInv, Tree
  <2> QED
    BY <1>1, <2>1, <2>2 DEF Returned
<1> QED
  BY <1>7, <1>8, <1>9, <1>10 DEF IInv

\* Run hears the root's goroutine.
LEMMA ReturnResultKeeps ==
  ASSUME IInv, ReturnResult
  PROVE  IInv'
<1> PICK root : root = <<Root>>
  OBVIOUS
<1>1. /\ phase = "run" /\ phase' = "returned" /\ tasks[root].pc = "send"
      /\ tasks' = [tasks EXCEPT ![root] = Done(tasks[root])]
      /\ result' = tasks[root].out
      /\ UNCHANGED <<query, rows, batches, before>>
  BY DEF ReturnResult
<1>2. root \in DOMAIN tasks /\ Len(root) = 1
  BY <1>1 DEF IInv, Tree
<1>3. /\ tasks[root] \in Tasks /\ Waiting(root) /\ Answered(root)
  BY <1>2, TaskFacts
<1>4. PICK t2 \in Tasks : /\ t2 = Done(tasks[root]) /\ t2.pc = "done"
                          /\ t2.wait = tasks[root].wait /\ t2.out = tasks[root].out
  BY <1>3, DoneGives
<1>5. /\ DOMAIN tasks' = DOMAIN tasks /\ tasks'[root] = t2
      /\ \A p \in DOMAIN tasks : p # root => tasks'[p] = tasks[p]
  BY <1>1, <1>2, <1>4
<1>6. \A p \in DOMAIN tasks : Pending(p)' = Pending(p)
  <2>1. ASSUME NEW p \in DOMAIN tasks, Len(p) > 1
        PROVE  tasks'[p].pc = "done" <=> tasks[p].pc = "done"
    <3>1. p # root
      BY <1>2, <2>1
    <3> QED
      BY <1>5, <3>1
  <2> QED
    BY <1>5, <2>1, PendingKept
<1>7. Shape'
  <2>1. tasks' \in [DOMAIN tasks' -> Tasks]
    BY <1>1, <1>4 DEF IInv, Shape
  <2>2. Tasks' = Tasks
    BY <1>1 DEF Tasks, Ids
  <2> QED
    BY <1>1, <2>1, <2>2 DEF IInv, Shape, QueryNodes
<1>8. Tree'
  BY <1>1, <1>4, <1>5, TreeKept
<1>9. ASSUME NEW p \in DOMAIN tasks' PROVE Waiting(p)' /\ Answered(p)'
  <2>1. CASE p = root
    <3>1. tasks'[p] = t2 /\ Pending(p)' = Pending(p) /\ Waiting(p) /\ Answered(p)
      BY <1>2, <1>3, <1>5, <1>6, <2>1
    <3> QED
      BY <1>1, <1>2, <1>4, <2>1, <3>1 DEF Waiting, Answered, Err
  <2>2. CASE p # root
    <3>1. tasks'[p] = tasks[p] /\ Pending(p)' = Pending(p) /\ Waiting(p) /\ Answered(p)
      BY <1>5, <1>6, <2>2, TaskFacts
    <3> QED
      BY <3>1 DEF Waiting, Answered, Err
  <2> QED
    BY <2>1, <2>2
<1>10. Returned'
  BY <1>1, <1>4, <1>5 DEF Returned
<1> QED
  BY <1>7, <1>8, <1>9, <1>10 DEF IInv

\* A parent that hears a child waits for one child less, and nobody else does.
LEMMA DeliverPending ==
  ASSUME IInv, NEW path \in DOMAIN tasks, Len(path) > 1, tasks[path].pc # "done",
         DOMAIN tasks' = DOMAIN tasks, tasks'[path].pc = "done",
         \A p \in DOMAIN tasks : p # path => (tasks'[p].pc = "done" <=> tasks[p].pc = "done")
  PROVE  /\ Last(path) \in Pending(Front(path))
         /\ Pending(Front(path))' = Pending(Front(path)) \ {Last(path)}
         /\ \A p \in DOMAIN tasks : p # Front(path) => Pending(p)' = Pending(p)
<1>1. /\ path \in Seq(Ids) /\ Front(path) \in Seq(Ids) /\ Last(path) \in Ids
      /\ Append(Front(path), Last(path)) = path
  <2>1. path \in Seq(Ids)
    BY TaskFacts
  <2> QED
    BY <2>1, PathSplits
<1>2. Last(path) \in Pending(Front(path))
  BY <1>1 DEF Pending
<1>3. ASSUME NEW p \in Seq(Ids), NEW o \in Ids
      PROVE  /\ Append(p, o) # path => (o \in Pending(p)' <=> o \in Pending(p))
             /\ Append(p, o) = path => p = Front(path) /\ o = Last(path)
             /\ Append(p, o) = path => o \notin Pending(p)'
  <2>1. Append(p, o) # path => (o \in Pending(p)' <=> o \in Pending(p))
    <3>1. CASE Append(p, o) \in DOMAIN tasks
      BY <3>1 DEF Pending, Ids
    <3>2. CASE Append(p, o) \notin DOMAIN tasks
      BY <3>2 DEF Pending, Ids
    <3> QED
      BY <3>1, <3>2
  <2>2. Append(p, o) = path => p = Front(path) /\ o = Last(path)
    <3>1. Front(Append(p, o)) = p /\ Last(Append(p, o)) = o
      BY ChildPath
    <3> QED
      BY <3>1
  <2>3. Append(p, o) = path => o \notin Pending(p)'
    BY DEF Pending
  <2> QED
    BY <2>1, <2>2, <2>3
<1>4. \A p : Pending(p)' \subseteq Ids /\ Pending(p) \subseteq Ids
  BY DEF Pending, Ids
<1>5. Pending(Front(path))' = Pending(Front(path)) \ {Last(path)}
  BY <1>1, <1>3, <1>4
<1>6. ASSUME NEW p \in DOMAIN tasks, p # Front(path)
      PROVE  Pending(p)' = Pending(p)
  <2>1. p \in Seq(Ids)
    BY TaskFacts
  <2>2. \A o \in Ids : o \in Pending(p)' <=> o \in Pending(p)
    BY <1>3, <1>6, <2>1
  <2> QED
    BY <1>4, <2>2
<1> QED
  BY <1>2, <1>5, <1>6

\* A parent hears a child's result.
LEMMA DeliverResultKeeps ==
  ASSUME IInv, NEW path \in DOMAIN tasks, DeliverResult(path)
  PROVE  IInv'
<1> PICK up : up = Front(path)
  OBVIOUS
<1> PICK out : out = tasks[path].out
  OBVIOUS
<1>1. /\ phase \in {"run", "returned"} /\ Len(path) > 1
      /\ tasks[path].pc = "send" /\ tasks[up].pc = "wait" /\ out # Err
      /\ tasks' = [tasks EXCEPT ![path] = Done(@), ![up] = Hears(@, out)]
      /\ UNCHANGED <<phase, query, rows, batches, result, before>>
  BY DEF DeliverResult, Meet, Alive
<1>0. Len(path) # 1
  <2>1. PICK m \in Nat : m = Len(path)
    BY TaskFacts
  <2>2. m > 1
    BY <2>1 DEF DeliverResult, Meet
  <2>3. m # 1
    BY <2>2
  <2> QED
    BY <2>1, <2>3
<1>2. up \in DOMAIN tasks /\ up # path
  <2>3. up \in DOMAIN tasks
    BY <1>0 DEF IInv, Tree
  <2> QED
    BY <1>1, <2>3
<1>3. /\ tasks[path] \in Tasks /\ Waiting(path) /\ Answered(path)
      /\ out \in SUBSET Seq(Ids) /\ path \in Seq(Ids) /\ Len(path) \in Nat
  BY TaskFacts
<1>4. /\ tasks[up] \in Tasks /\ Waiting(up) /\ Answered(up) /\ tasks[up].wait \in Nat
      /\ tasks[up].wait > 0
  BY <1>1, <1>2, TaskFacts DEF Waiting
<1>5. PICK t2 \in Tasks : /\ t2 = Done(tasks[path]) /\ t2.pc = "done"
                          /\ t2.wait = tasks[path].wait /\ t2.out = out
  BY <1>3, DoneGives
<1>6. PICK u2 \in Tasks : /\ u2 = Hears(tasks[up], out)
                          /\ u2.pc = IF tasks[up].wait = 1 THEN "send" ELSE "wait"
                          /\ u2.wait = tasks[up].wait - 1
                          /\ u2.out = tasks[up].out \cup out
  BY <1>3, <1>4, HearsGives
<1>7. /\ DOMAIN tasks' = DOMAIN tasks /\ tasks'[path] = t2 /\ tasks'[up] = u2
      /\ \A p \in DOMAIN tasks : p # path /\ p # up => tasks'[p] = tasks[p]
  BY <1>1, <1>2, <1>5, <1>6
<1>8. u2.pc # "get" /\ u2.pc # "done"
  BY <1>6
<1>9. /\ Last(path) \in Pending(up)
      /\ Pending(up)' = Pending(up) \ {Last(path)}
      /\ \A p \in DOMAIN tasks : p # up => Pending(p)' = Pending(p)
  <2>1. \A p \in DOMAIN tasks :
           p # path => (tasks'[p].pc = "done" <=> tasks[p].pc = "done")
    BY <1>1, <1>7, <1>8
  <2> QED
    BY <1>1, <1>5, <1>7, <2>1, DeliverPending
<1>10. Shape'
  <2>1. tasks' \in [DOMAIN tasks' -> Tasks]
    BY <1>1, <1>5, <1>6 DEF IInv, Shape
  <2>2. Tasks' = Tasks
    BY <1>1 DEF Tasks, Ids
  <2> QED
    BY <1>1, <2>1, <2>2 DEF IInv, Shape, QueryNodes
<1>11. Tree'
  <2>1. \A p \in DOMAIN tasks : tasks[p].pc # "get" => tasks'[p].pc # "get"
    BY <1>5, <1>7, <1>8
  <2> QED
    BY <1>1, <1>7, <2>1, TreeKept
<1>12. ASSUME NEW p \in DOMAIN tasks' PROVE Waiting(p)' /\ Answered(p)'
  <2>1. CASE p = path
    <3>1. tasks'[p] = t2 /\ Pending(p)' = Pending(p)
      BY <1>2, <1>7, <1>9, <2>1
    <3> QED
      BY <1>1, <1>3, <1>5, <2>1, <3>1 DEF Waiting, Answered, Err
  <2>2. CASE p = up
    <3>1. /\ tasks'[p] = u2 /\ Pending(p)' = Pending(up) \ {Last(path)}
          /\ tasks[up].wait = Cardinality(Pending(up)) /\ IsFiniteSet(Pending(up))
          /\ up \in tasks[up].out /\ <<>> \notin tasks[up].out
      BY <1>1, <1>4, <1>7, <1>9, <2>2 DEF Waiting
    <3>2. PICK left : left = Pending(p)'
      OBVIOUS
    <3>3. IsFiniteSet(left) /\ Cardinality(left) = tasks[up].wait - 1
      <4> PICK S, k : S = Pending(up) /\ k = Last(path)
        OBVIOUS
      <4>1. k \in S /\ left = S \ {k} /\ IsFiniteSet(S) /\ tasks[up].wait = Cardinality(S)
        BY <1>9, <3>1, <3>2
      <4>2. IsFiniteSet(S \ {k}) /\ Cardinality(S \ {k}) = Cardinality(S) - 1
        BY <4>1, FS_RemoveElement
      <4> QED
        BY <4>1, <4>2
    <3>4. p \in u2.out /\ <<>> \notin u2.out
      BY <1>1, <1>3, <1>6, <2>2, <3>1 DEF Answered
    <3>5. u2.wait = 0 => left = {}
      BY <1>6, <3>3, FS_EmptySet
    <3>6. u2.pc = "wait" <=> u2.wait > 0
      BY <1>4, <1>6
    <3>7. u2.pc = "send" => u2.wait = 0
      BY <1>4, <1>6
    <3>8. Waiting(p)'
      BY <1>6, <3>1, <3>2, <3>3, <3>4, <3>6 DEF Waiting
    <3>9. Answered(p)'
      BY <1>8, <3>1, <3>2, <3>4, <3>5, <3>7 DEF Answered
    <3> QED
      BY <3>8, <3>9
  <2>3. CASE p # path /\ p # up
    <3>1. tasks'[p] = tasks[p] /\ Pending(p)' = Pending(p) /\ Waiting(p) /\ Answered(p)
      BY <1>7, <1>9, <2>3, TaskFacts
    <3> QED
      BY <3>1 DEF Waiting, Answered, Err
  <2> QED
    BY <2>1, <2>2, <2>3
<1>13. Returned'
  <2> PICK root : root = <<Root>>
    OBVIOUS
  <2>1. root # path
    <3>1. Len(root) = 1
      OBVIOUS
    <3> QED
      BY <1>0, <3>1
  <2>2. phase = "returned" => /\ root \in DOMAIN tasks
                              /\ tasks[root].pc = "done" /\ result = tasks[root].out
    BY DEF IInv, Tree, Returned
  <2>3. phase = "returned" => tasks'[root] = tasks[root]
    BY <1>1, <1>7, <2>1, <2>2
  <2> QED
    BY <1>1, <2>2, <2>3 DEF Returned
<1> QED
  BY <1>10, <1>11, <1>12, <1>13 DEF IInv

\* A step that leaves the goroutines alone.
LEMMA TasksKept ==
  ASSUME IInv, UNCHANGED <<tasks, result>>, Shape', phase # "build", phase' # "build",
         phase' = "returned" => phase = "returned"
  PROVE  IInv'
<1>1. Tree'
  BY TreeKept
<1>2. \A p \in DOMAIN tasks : Pending(p)' = Pending(p)
  BY PendingKept
<1>3. ASSUME NEW p \in DOMAIN tasks' PROVE Waiting(p)' /\ Answered(p)'
  <2>1. tasks'[p] = tasks[p] /\ Pending(p)' = Pending(p) /\ Waiting(p) /\ Answered(p)
    BY <1>2, TaskFacts
  <2> QED
    BY <2>1 DEF Waiting, Answered, Err
<1>4. Returned'
  BY DEF IInv, Returned
<1> QED
  BY <1>1, <1>3, <1>4 DEF IInv

\* A parent hears an error, which is the end of the process.
LEMMA DeliverErrorKeeps ==
  ASSUME IInv, NEW path \in DOMAIN tasks, DeliverError(path)
  PROVE  IInv'
<1>1. /\ phase # "build" /\ phase' = "panicked"
      /\ UNCHANGED <<query, rows, batches, tasks, result, before>>
  BY DEF DeliverError, Meet, Alive
<1>2. Tasks' = Tasks
  BY <1>1 DEF Tasks, Ids
<1>3. Shape'
  BY <1>1, <1>2 DEF IInv, Shape, QueryNodes
<1> QED
  BY <1>1, <1>3, TasksKept

\* Other clients only add rows.
LEMMA CommitKeeps ==
  ASSUME IInv, Commit
  PROVE  IInv'
<1>1. /\ phase # "build" /\ UNCHANGED <<phase, query, tasks, result, before>>
  BY DEF Commit, Alive
<1>2. PICK b \in batches : rows' = rows \cup b /\ batches' = batches \ {b}
  BY DEF Commit
<1>3. b \in Batches /\ IsFiniteSet(b)
  BY <1>2, QueryConstants DEF IInv, Shape
<1>4. IsFiniteSet(rows')
  BY <1>2, <1>3, FS_Union DEF IInv, Shape
<1>5. rows' \subseteq UNION (Stores \cup Batches)
  BY <1>2, <1>3 DEF IInv, Shape
<1>6. Tasks' = Tasks
  BY <1>1 DEF Tasks, Ids
<1>7. Shape'
  BY <1>1, <1>2, <1>4, <1>5, <1>6 DEF IInv, Shape, QueryNodes
<1> QED
  BY <1>1, <1>7, TasksKept

\* Building the tree: no goroutine exists yet.
LEMMA BuildKeeps ==
  ASSUME IInv, Build
  PROVE  IInv'
<1> PICK k \in DOMAIN query :
      \/ \E kind \in Kinds : Collect(k, kind)
      \/ \E level \in 0..MaxLevel : UptoDepth(k, level)
      \/ AllowDeleted(k)
      \/ \E p \in Filters : FilterOut(k, p)
  BY DEF Build
<1>1. /\ phase = "build"
      /\ UNCHANGED <<phase, rows, batches, tasks, result, before>>
  BY DEF Collect, UptoDepth, AllowDeleted, FilterOut, Building
<1>2. /\ query \in Seq(QueryNodes) /\ Len(query) \in 1..MaxNodes /\ Len(query) \in Nat
      /\ DOMAIN query = 1..Len(query)
      /\ \A j \in DOMAIN query : query[j].parent \in 0..(j-1)
  BY LenProperties DEF IInv, Shape
<1>3. query[k] \in QueryNodes
  BY <1>2, ElementOfSeq
<1> DEFINE Good == /\ query' \in Seq(QueryNodes) /\ Len(query') \in 1..MaxNodes
                   /\ \A j \in DOMAIN query' : query'[j].parent \in 0..(j-1)
<1>4. Good
  <2>1. ASSUME NEW kind \in Kinds, Collect(k, kind)
        PROVE  Good
    <3> PICK node : node = QueryNode(k, kind, query[k].getDeleted)
      OBVIOUS
    <3>1. node \in QueryNodes /\ node.parent = k
      BY <1>2, <1>3, QueryConstants DEF QueryNode, QueryNodes
    <3>2. query' = Append(query, node) /\ Len(query) < MaxNodes
      BY <2>1 DEF Collect
    <3>3. /\ query' \in Seq(QueryNodes) /\ Len(query') = Len(query) + 1
          /\ \A j \in 1..Len(query) : query'[j] = query[j]
          /\ query'[Len(query) + 1] = node
      BY <1>2, <3>1, <3>2, AppendProperties
    <3> QED
      BY <1>2, <3>1, <3>2, <3>3, QueryConstants
  <2>2. ASSUME NEW node \in QueryNodes, node.parent = query[k].parent,
               query' = [query EXCEPT ![k] = node]
        PROVE  Good
    <3>1. /\ query' \in Seq(QueryNodes) /\ Len(query') = Len(query)
          /\ DOMAIN query' = DOMAIN query
      BY <1>2, <2>2, ExceptSeq
    <3>2. \A j \in DOMAIN query : query'[j] = IF j = k THEN node ELSE query[j]
      BY <2>2
    <3> QED
      BY <1>2, <2>2, <3>1, <3>2
  <2>3. ASSUME NEW level \in 0..MaxLevel, UptoDepth(k, level)
        PROVE  Good
    <3>1. PICK node : node = [query[k] EXCEPT !.maxDepth = level]
      OBVIOUS
    <3>2. node \in QueryNodes /\ node.parent = query[k].parent
      BY <1>3, <3>1 DEF QueryNodes
    <3>3. query' = [query EXCEPT ![k] = node]
      BY <2>3, <3>1 DEF UptoDepth
    <3> QED
      BY <2>2, <3>2, <3>3
  <2>4. ASSUME AllowDeleted(k)
        PROVE  Good
    <3>1. PICK node : node = [query[k] EXCEPT !.getDeleted = TRUE]
      OBVIOUS
    <3>2. node \in QueryNodes /\ node.parent = query[k].parent
      BY <1>3, <3>1 DEF QueryNodes
    <3>3. query' = [query EXCEPT ![k] = node]
      BY <2>4, <3>1 DEF AllowDeleted
    <3> QED
      BY <2>2, <3>2, <3>3
  <2>5. ASSUME NEW p \in Filters, FilterOut(k, p)
        PROVE  Good
    <3>0. query[k].filterOut \cup {p} \in SUBSET Filters
      BY <1>3 DEF QueryNodes
    <3>1. PICK node : node = [query[k] EXCEPT !.filterOut = @ \cup {p}]
      OBVIOUS
    <3>2. node \in QueryNodes /\ node.parent = query[k].parent
      BY <1>3, <3>0, <3>1 DEF QueryNodes
    <3>3. query' = [query EXCEPT ![k] = node]
      BY <2>5, <3>1 DEF FilterOut
    <3> QED
      BY <2>2, <3>2, <3>3
  <2> HIDE DEF Good
  <2> QED
    BY <2>1, <2>3, <2>4, <2>5, Zenon
<1>5. DOMAIN tasks = {} /\ tasks \in [DOMAIN tasks -> Tasks']
  BY <1>1 DEF IInv, Shape, Tree
<1>6. Shape'
  BY <1>1, <1>4, <1>5 DEF IInv, Shape, QueryNodes
<1> QED
  BY <1>1, <1>5, <1>6 DEF IInv, Tree, Returned

\* Run starts the root's goroutine.
LEMMA RunKeeps ==
  ASSUME IInv, Run
  PROVE  IInv'
<1> PICK root, t : /\ root = <<Root>>
                   /\ t = Task(1, 0, query[1].maxDepth, query[1].getDeleted)
  OBVIOUS
<1>1. /\ phase' = "run" /\ before' = rows /\ tasks' = [path \in {root} |-> t]
      /\ UNCHANGED <<query, rows, batches, result>>
  BY DEF Run
<1>2. Len(query) \in Nat /\ 1 <= Len(query)
  BY LenProperties DEF IInv, Shape
<1>3. query[1] \in QueryNodes
  BY <1>2, ElementOfSeq DEF IInv, Shape
<1>4. t \in Tasks /\ t.pc = "get" /\ t.wait = 0 /\ t.out = {}
  BY <1>2, <1>3 DEF Task, Tasks, QueryNodes
<1>5. Tasks' = Tasks
  BY <1>1 DEF Tasks, Ids
<1>6. Shape'
  BY <1>1, <1>4, <1>5 DEF IInv, Shape, QueryNodes
<1>7. DOMAIN tasks' = {root} /\ tasks'[root] = t
  BY <1>1
<1>8. root \in Seq(Ids) /\ Len(root) = 1
  BY DEF Ids
<1>9. Tree'
  BY <1>1, <1>7, <1>8 DEF Tree, Ids
<1>10. Waiting(root)' /\ Answered(root)'
  BY <1>4, <1>7 DEF Waiting, Answered
<1>11. Returned'
  BY <1>1 DEF Returned
<1> QED
  BY <1>6, <1>7, <1>9, <1>10, <1>11 DEF IInv

LEMMA OneElement ==
  ASSUME NEW S, NEW x \in S
  PROVE  <<x>> \in Seq(S) /\ Len(<<x>>) = 1 /\ DOMAIN <<x>> = {1} /\ <<x>>[1] = x
OBVIOUS

LEMMA InitHolds == Init => IInv
<1> SUFFICES ASSUME Init PROVE IInv
  OBVIOUS
<1> PICK node : node = QueryNode(0, None, FALSE)
  OBVIOUS
<1>1. node \in QueryNodes /\ node.parent = 0
  BY QueryConstants DEF QueryNode, QueryNodes
<1>2. query = <<node>>
  BY DEF Init
<1>3. /\ query \in Seq(QueryNodes) /\ Len(query) = 1 /\ DOMAIN query = {1}
      /\ query[1] = node
  BY <1>1, <1>2, OneElement, Zenon
<1>4. rows \subseteq UNION (Stores \cup Batches) /\ IsFiniteSet(rows)
  BY QueryConstants DEF Init
<1>5. DOMAIN tasks = {} /\ tasks \in [DOMAIN tasks -> Tasks]
  BY DEF Init
<1>6. Shape
  <2>1. Len(query) \in 1..MaxNodes
    BY <1>3, QueryConstants
  <2>2. ASSUME NEW k \in DOMAIN query
        PROVE  query[k].parent \in 0..(k-1)
    <3>1. k = 1 /\ query[k].parent = 0
      BY <1>1, <1>3
    <3> QED
      BY <3>1
  <2> QED
    BY <1>3, <1>4, <1>5, <2>1, <2>2 DEF Init, Shape
<1> QED
  BY <1>5, <1>6 DEF Init, IInv, Tree, Returned

\* Every step keeps the invariant.
LEMMA StepHolds == IInv /\ [Next]_vars => IInv'
<1> SUFFICES ASSUME IInv, [Next]_vars PROVE IInv'
  OBVIOUS
<1>1. CASE UNCHANGED vars
  <2>1. UNCHANGED <<phase, query, rows, batches, tasks, result, before>>
    BY <1>1 DEF vars
  <2>2. Tasks' = Tasks /\ Seq(QueryNodes)' = Seq(QueryNodes)
    BY <2>1 DEF Tasks, Ids, QueryNodes
  <2>3. Shape'
    BY <2>1, <2>2 DEF IInv, Shape, QueryNodes
  <2>4. CASE phase = "build"
    BY <2>1, <2>3, <2>4 DEF IInv, Tree, Returned
  <2> QED
    BY <2>1, <2>3, <2>4, TasksKept
<1>2. ASSUME NEW path \in DOMAIN tasks, Goroutine(path)
      PROVE  IInv'
  BY <1>2, GetEntityKeeps, GetEntityFailsKeeps, DeliverResultKeeps, DeliverErrorKeeps
     DEF Goroutine
<1> QED
  BY <1>1, <1>2, BuildKeeps, RunKeeps, ReturnResultKeeps, CommitKeeps DEF Next

----------------------------------------------------------------------------
(* What follows from it. *)

LEMMA Invariant == Spec => []IInv
BY InitHolds, StepHolds, PTL DEF Spec

LEMMA InvariantTypes == IInv => TypeOK
<1> SUFFICES ASSUME IInv PROVE TypeOK
  OBVIOUS
<1>1. /\ query \in Seq(QueryNodes) /\ DOMAIN query = 1..Len(query)
      /\ phase \in {"build", "run", "returned", "panicked"}
      /\ Len(query) \in 1..MaxNodes
      /\ before \subseteq rows \/ phase = "build"
      /\ batches \subseteq Batches
      /\ \A k \in DOMAIN query : query[k].parent \in 0..(k-1)
  BY LenProperties DEF IInv, Shape
<1>2. ASSUME NEW k \in DOMAIN query
      PROVE  /\ query[k].parent \in 0..(k-1)
             /\ query[k].filterOut \subseteq Filters
             /\ query[k].maxDepth \in 0..MaxLevel
             /\ query[k].getDeleted \in BOOLEAN
  <2>1. query[k] \in QueryNodes
    BY <1>1, ElementOfSeq
  <2> QED
    BY <1>1, <2>1 DEF QueryNodes
<1>3. ASSUME NEW path \in DOMAIN tasks
      PROVE  /\ tasks[path].pc \in {"get", "wait", "send", "done"}
             /\ tasks[path].q \in 0..Len(query)
             /\ tasks[path].wait \in Nat
             /\ tasks[path].pc = "wait" <=> tasks[path].wait > 0
  <2>1. tasks[path] \in Tasks /\ Waiting(path)
    BY TaskFacts
  <2> QED
    BY <2>1 DEF Tasks, Waiting
<1> QED
  BY <1>1, <1>2, <1>3 DEF TypeOK

\* A set of numbers with an element has a smallest one.
LEMMA Smallest ==
  ASSUME NEW T \in SUBSET Nat, T # {}
  PROVE  \E x \in T : \A y \in T : x <= y
<1> DEFINE R == OpToRel(<, Nat)
<1>1. IsWellFoundedOn(R, Nat)
  BY NatLessThanWellFounded
<1> HIDE DEF R
<1>2. PICK x \in T : \A y \in T : ~ (<<y, x>> \in R)
  BY <1>1, WFMin
<1>3. \A y \in T : <<y, x>> \in R <=> y < x
  BY DEF R, OpToRel
<1>4. x \in Nat /\ \A y \in T : y \in Nat /\ ~(y < x)
  BY <1>2, <1>3
<1> QED
  BY <1>4

\* The path of an ancestor, and of the parent of an ancestor.
LEMMA Ancestor ==
  ASSUME NEW S, NEW path \in Seq(S), NEW i \in 1..Len(path)
  PROVE  /\ SubSeq(path, 1, i) \in Seq(S) /\ Len(SubSeq(path, 1, i)) = i
         /\ i > 1 => Front(SubSeq(path, 1, i)) = SubSeq(path, 1, i - 1)
<1> PICK n \in Nat : n = Len(path)
  BY LenProperties
<1>1. i \in Nat /\ 1 <= i /\ i <= n /\ \A j \in 1..i : path[j] \in S
  BY ElementOfSeq
<1>2. SubSeq(path, 1, i) \in Seq(S) /\ Len(SubSeq(path, 1, i)) = i
  <2>1. /\ SubSeq(path, 1, i) \in Seq(S)
        /\ Len(SubSeq(path, 1, i)) = IF 1 <= i THEN i - 1 + 1 ELSE 0
    BY <1>1, SubSeqProperties
  <2> QED
    BY <1>1, <2>1
<1>3. ASSUME i > 1 PROVE Front(SubSeq(path, 1, i)) = SubSeq(path, 1, i - 1)
  <2>1. 1 \in 1..n /\ i \in 1..n /\ 1 \in 1..(i - 1 + 1) /\ i - 1 \in 1..(i - 1 + 1)
    BY <1>1, <1>3
  <2>2. SubSeq(SubSeq(path, 1, i), 1, i - 1) = SubSeq(path, 1 + 1 - 1, 1 + (i - 1) - 1)
    BY <2>1, SubSeqOfSubSeq
  <2>3. 1 + 1 - 1 = 1 /\ 1 + (i - 1) - 1 = i - 1
    BY <1>1
  <2> QED
    BY <1>2, <2>2, <2>3 DEF Front
<1> QED
  BY <1>2, <1>3

\* Below the root's goroutine, which is done, the first on the path of an
\* unfinished one that is not done was started by one that is done and had
\* not heard it: so that one was discarded.
LEMMA UnfinishedBelowDiscarded ==
  ASSUME IInv, phase = "returned", NEW path \in DOMAIN tasks, tasks[path].pc # "done"
  PROVE  \E i \in 1..(Len(path) - 1) :
            /\ SubSeq(path, 1, i) \in DOMAIN tasks
            /\ tasks[SubSeq(path, 1, i)].pc = "done"
            /\ tasks[SubSeq(path, 1, i)].out \in {{}, Err}
<1> PICK n : n = Len(path)
  OBVIOUS
<1>1. path \in Seq(Ids) /\ n \in Nat /\ n >= 1
  BY TaskFacts
<1> DEFINE Unfinished == {i \in 1..n : /\ SubSeq(path, 1, i) \in DOMAIN tasks
                                       /\ tasks[SubSeq(path, 1, i)].pc # "done"}
<1>2. n \in Unfinished
  <2>1. SubSeq(path, 1, n) = path
    BY <1>1, SubSeqFull
  <2>2. n \in 1..n
    BY <1>1
  <2> QED
    BY <2>1, <2>2, Zenon
<1>3. PICK m \in Unfinished : \A i \in Unfinished : m <= i
  <2>1. Unfinished \in SUBSET Nat /\ Unfinished # {}
    BY <1>1, <1>2
  <2> HIDE DEF Unfinished
  <2> QED
    BY <2>1, Smallest
<1> PICK q : q = SubSeq(path, 1, m)
  OBVIOUS
<1>4. m \in 1..n /\ m \in Nat /\ q \in DOMAIN tasks /\ tasks[q].pc # "done"
  BY <1>1, <1>3
<1>5. q \in Seq(Ids) /\ Len(q) = m /\ (m > 1 => Front(q) = SubSeq(path, 1, m - 1))
  BY <1>1, <1>4, Ancestor
<1>6. m > 1
  <2>1. tasks[<<Root>>].pc = "done"
    BY DEF IInv, Returned
  <2>2. m # 1
    BY <1>4, <1>5, <2>1 DEF IInv, Tree
  <2> QED
    BY <1>4, <2>2
<1> PICK up : up = SubSeq(path, 1, m - 1)
  OBVIOUS
<1>7. up \in DOMAIN tasks /\ Front(q) = up
  <2>1. Front(q) = up
    BY <1>5, <1>6
  <2>2. Len(q) # 1
    BY <1>4, <1>5, <1>6
  <2>3. Front(q) \in DOMAIN tasks
    BY <1>4, <2>2 DEF IInv, Tree
  <2> QED
    BY <2>1, <2>3
<1>8. m - 1 \in 1..n /\ ~(m <= m - 1) /\ m - 1 \in 1..(n - 1)
  BY <1>1, <1>4, <1>6
<1>9. tasks[up].pc = "done"
  BY <1>3, <1>7, <1>8
<1>10. Last(q) \in Pending(up)
  <2>1. Last(q) \in Ids /\ Append(up, Last(q)) = q
    BY <1>5, <1>6, <1>7, PathSplits
  <2> QED
    BY <1>4, <2>1 DEF Pending
<1>11. tasks[up].out \in {{}, Err}
  BY <1>7, <1>9, <1>10, TaskFacts DEF Answered
<1> QED
  BY <1>7, <1>8, <1>9, <1>11

\* Every variable has its type, whatever the store holds and however often
\* other clients commit.
THEOREM TypeCorrect == Spec => []TypeOK
BY Invariant, InvariantTypes, PTL

\* A goroutine that outlives Run is below an entity that was discarded after
\* its links were followed: with no delete mark and no filter, none does.
LEMMA LeaksFollows == IInv => LeaksOnlyBelowDiscarded
<1> SUFFICES ASSUME IInv, phase = "returned",
                    NEW path \in DOMAIN tasks, tasks[path].pc # "done"
             PROVE  \E i \in 1..(Len(path) - 1) :
                       /\ tasks[SubSeq(path, 1, i)].pc = "done"
                       /\ tasks[SubSeq(path, 1, i)].out \in {{}, Err}
  BY DEF LeaksOnlyBelowDiscarded
<1> QED
  BY UnfinishedBelowDiscarded

\* So it is in every state of every behaviour.
THEOREM LeaksBelowDiscarded == Spec => []LeaksOnlyBelowDiscarded
BY Invariant, LeaksFollows, PTL

\* When Run returns no error, a goroutine that met one is below an entity
\* that was discarded: nothing else is missing from the result.
LEMMA WholeFollows == IInv => NoPartialResult
<1> SUFFICES ASSUME IInv, phase = "returned", result # Err,
                    NEW path \in DOMAIN tasks, tasks[path].out = Err
             PROVE  \E i \in 1..(Len(path) - 1) : tasks[SubSeq(path, 1, i)].out = {}
  BY DEF NoPartialResult
<1>1. ASSUME NEW p \in DOMAIN tasks, tasks[p].pc = "done"
      PROVE  tasks[p].out # Err
  <2>1. CASE p = <<Root>>
    BY <2>1 DEF IInv, Returned
  <2>2. CASE p # <<Root>>
    <3>1. Len(p) > 1
      BY <2>2 DEF IInv, Tree
    <3> QED
      BY <1>1, <3>1, TaskFacts DEF Answered
  <2> QED
    BY <2>1, <2>2
<1>2. tasks[path].pc # "done"
  BY <1>1
<1>3. PICK i \in 1..(Len(path) - 1) : /\ SubSeq(path, 1, i) \in DOMAIN tasks
                                      /\ tasks[SubSeq(path, 1, i)].pc = "done"
                                      /\ tasks[SubSeq(path, 1, i)].out \in {{}, Err}
  BY <1>2, UnfinishedBelowDiscarded
<1> QED
  BY <1>1, <1>3

\* So Run never returns a part of a result as if it were all of it.
THEOREM NothingMissing == Spec => []NoPartialResult
BY Invariant, WholeFollows, PTL
----------------------------------------------------------------------------
(* The meaning of a query, at each place of a path. *)

\* NodesAlong is defined by recursion along the path; that there is such a
\* function follows from there being no shortest prefix without one.
LEMMA NodesAlongGives ==
  ASSUME NEW n \in Nat \ {0}, NEW path, Len(path) = n, NEW kinds
  PROVE  LET at == NodesAlong(path, kinds)
         IN /\ at[1] = [q |-> 1, level |-> 0]
            /\ \A i \in 2..n : at[i] = Below(at[i - 1], kinds[i])
<1> DEFINE Along(k, f) ==
             f = [i \in 1..k |-> IF i = 1 THEN [q |-> 1, level |-> 0]
                                 ELSE Below(f[i - 1], kinds[i])]
           Missing == {k \in 1..n : ~\E f : Along(k, f)}
<1>1. Missing = {}
  <2> SUFFICES ASSUME Missing # {} PROVE FALSE
    OBVIOUS
  <2>1. PICK k \in Missing : \A j \in Missing : k <= j
    <3>1. Missing \in SUBSET Nat
      OBVIOUS
    <3> HIDE DEF Missing
    <3> QED
      BY <3>1, Smallest
  <2>2. k \in 1..n /\ k \in Nat /\ ~\E f : Along(k, f)
    BY <2>1
  <2>3. CASE k = 1
    <3> DEFINE f == [i \in 1..1 |-> [q |-> 1, level |-> 0]]
    <3>1. \A i \in 1..1 : i = 1
      OBVIOUS
    <3>2. Along(1, f)
      BY <3>1
    <3> QED
      BY <2>2, <2>3, <3>2
  <2>4. CASE k > 1
    <3>1. k - 1 \in 1..n /\ ~(k <= k - 1)
      BY <2>2, <2>4
    <3>2. PICK g : Along(k - 1, g)
      BY <2>1, <3>1
    <3> DEFINE f == [i \in 1..k |-> IF i = k THEN Below(g[k - 1], kinds[k]) ELSE g[i]]
    <3>3. \A i \in 1..(k - 1) : f[i] = g[i] /\ i \in 1..k
      BY <2>2
    <3>4. ASSUME NEW i \in 1..k
          PROVE  f[i] = IF i = 1 THEN [q |-> 1, level |-> 0] ELSE Below(f[i - 1], kinds[i])
      <4>1. CASE i = k
        <5>1. f[i] = Below(g[k - 1], kinds[k]) /\ f[k - 1] = g[k - 1] /\ i # 1
          BY <2>2, <2>4, <3>3, <4>1
        <5> QED
          BY <4>1, <5>1
      <4>2. CASE i # k
        <5>1. i \in 1..(k - 1)
          BY <2>2, <4>2
        <5>2. f[i] = g[i]
          BY <3>3, <5>1
        <5>3. g[i] = IF i = 1 THEN [q |-> 1, level |-> 0] ELSE Below(g[i - 1], kinds[i])
          BY <3>2, <5>1
        <5>4. i # 1 => f[i - 1] = g[i - 1]
          <6>1. i # 1 => i - 1 \in 1..(k - 1)
            BY <2>2, <5>1
          <6> QED
            BY <3>3, <6>1
        <5> QED
          BY <5>2, <5>3, <5>4
      <4> QED
        BY <4>1, <4>2
    <3>5. DOMAIN f = 1..k /\ f = [i \in 1..k |-> f[i]]
      OBVIOUS
    <3> HIDE DEF f
    <3>6. Along(k, f)
      BY <3>4, <3>5
    <3> QED
      BY <2>2, <3>6
  <2> QED
    BY <2>2, <2>3, <2>4
<1>2. n \in 1..n
  OBVIOUS
<1>3. \E f : Along(n, f)
  BY <1>1, <1>2
<1>4. NodesAlong(path, kinds) = CHOOSE f : Along(n, f)
  BY DEF NodesAlong
<1>5. PICK at : at = NodesAlong(path, kinds)
  OBVIOUS
<1>6. Along(n, at)
  BY <1>3, <1>4, <1>5
<1>7. /\ at[1] = [q |-> 1, level |-> 0]
      /\ \A i \in 2..n : at[i] = Below(at[i - 1], kinds[i])
  BY <1>6
<1> QED
  BY <1>5, <1>7
----------------------------------------------------------------------------
(* What goroutines have read, and what their parents have heard of it. *)

SamePlace(t, u) == t.q = u.q /\ t.level = u.level /\ t.max = u.max /\ t.del = u.del

\* A child is told to read below the node Collected for its kind, or a level
\* deeper than its parent.
ToldBy(t, u, kind) ==
  /\ t.del = u.del
  /\ \/ t.q \in Collected(u.q, kind) /\ t.level = 0 /\ t.max = query[t.q].maxDepth
     \/ Collected(u.q, kind) = {} /\ t.q = 0 /\ t.level = u.level + 1 /\ t.max = u.max

\* A goroutine is the root's or was started for a link its parent follows.
Placed(path) ==
  LET t == tasks[path]
      u == tasks[Front(path)]
  IN /\ Len(path) = 1 => /\ t.q = 1 /\ t.level = 0
                         /\ t.max = query[1].maxDepth /\ t.del = query[1].getDeleted
     /\ Len(path) > 1 => \E r \in rows : /\ r.s = Last(Front(path)) /\ r.o = Last(path)
                                         /\ Follows(u, r) /\ ToldBy(t, u, r.p)

\* It met nothing that stops it, so its entity is part of its result.
Kept(path) == tasks[path].pc # "get" /\ path \in tasks[path].out

\* It met what was in the store when Run was called, and nothing else than what
\* is there now.
ReadAll(path) ==
  LET t == tasks[path]
  IN /\ Kept(path) =>
          /\ \E r \in rows : r.s = Last(path)
          /\ \A r \in before : r.s = Last(path) =>
                /\ ~Discards(t, r)
                /\ Follows(t, r) => Append(path, r.o) \in DOMAIN tasks
     /\ t.pc # "get" /\ ~Kept(path) /\ ~failed =>
          \/ \E r \in rows : r.s = Last(path) /\ Discards(t, r)
          \/ \A r \in before : r.s # Last(path)

\* Every entity of its result was kept and is there with its parent; and who
\* heard it has all of it.
Merged(path) ==
  LET t == tasks[path]
  IN /\ t.out # Err =>
          \A p \in t.out : /\ p \in DOMAIN tasks /\ Kept(p)
                           /\ p # path => Len(p) > 1 /\ Front(p) \in t.out
     /\ t.pc = "done" /\ Len(path) > 1 => t.out \subseteq tasks[Front(path)].out

Heard ==
  /\ failed \in BOOLEAN
  /\ \A i, j \in DOMAIN query :
        query[i].parent = query[j].parent /\ query[i].kind = query[j].kind => i = j
  /\ OneLinkEach(rows \cup UNION batches)
  /\ \A path \in DOMAIN tasks : Placed(path) /\ ReadAll(path) /\ Merged(path)

\* A goroutine is where it was placed, whatever it does next.
LEMMA PlacesKept ==
  ASSUME NEW t \in Tasks, NEW out \in SUBSET Seq(Ids), NEW n \in Nat
  PROVE  /\ SamePlace(Answers(t, out), t)
         /\ SamePlace(Done(t), t)
         /\ SamePlace(With(t, out), t)
         /\ SamePlace(Waits(t, n), t)
         /\ SamePlace(Hears(t, out), t)
<1>1. /\ SamePlace(Answers(t, out), t)
      /\ SamePlace(Done(t), t)
      /\ SamePlace(With(t, out), t)
  BY DEF Answers, Done, With, SamePlace, Tasks
<1>2. ASSUME NEW w, NEW o, NEW next
      PROVE  SamePlace(Changed(t, w, o, next), t)
  BY DEF Changed, SamePlace, Tasks
<1>3. Hears(t, out) = Changed(t, t.wait - 1, t.out \cup out,
                              IF t.wait = 1 THEN "send" ELSE "wait")
  BY DEF Hears, Changed
<1>4. PICK next : next = IF n = 0 THEN "send" ELSE "wait"
  OBVIOUS
<1>5. Waits(t, n) = Changed(t, n, t.out, next)
  BY <1>4 DEF Waits, Changed, Tasks
<1> QED
  BY <1>1, <1>2, <1>3, <1>5

\* ... so what places it stays true of it,
LEMMA PlacedKept ==
  ASSUME NEW path, Placed(path), UNCHANGED query, rows \subseteq rows',
         SamePlace(tasks'[path], tasks[path]),
         Len(path) > 1 => SamePlace(tasks'[Front(path)], tasks[Front(path)])
  PROVE  Placed(path)'
<1>1. CASE Len(path) > 1
  <2>1. PICK r \in rows : /\ r.s = Last(Front(path)) /\ r.o = Last(path)
                          /\ Follows(tasks[Front(path)], r)
                          /\ ToldBy(tasks[path], tasks[Front(path)], r.p)
    BY <1>1 DEF Placed
  <2>2. Follows(tasks[Front(path)], r)'
    BY <1>1, <2>1 DEF Follows, Collected, SamePlace
  <2>3. ToldBy(tasks[path], tasks[Front(path)], r.p)'
    BY <1>1, <2>1 DEF ToldBy, Collected, SamePlace
  <2>4. Len(path) = 1 => FALSE
    BY <1>1
  <2> QED
    BY <2>1, <2>2, <2>3, <2>4 DEF Placed
<1>2. CASE ~(Len(path) > 1)
  BY <1>2 DEF Placed, SamePlace
<1> QED
  BY <1>1, <1>2

\* ... and so does what it read.
LEMMA ReadAllKept ==
  ASSUME NEW path, ReadAll(path), UNCHANGED <<query, before>>, rows \subseteq rows',
         DOMAIN tasks \subseteq DOMAIN tasks', failed => failed',
         SamePlace(tasks'[path], tasks[path]), Kept(path)' <=> Kept(path),
         tasks'[path].pc # "get" => tasks[path].pc # "get"
  PROVE  ReadAll(path)'
<1>1. \A r : Discards(tasks[path], r)' <=> Discards(tasks[path], r)
  BY DEF Discards, FilterOf, SamePlace
<1>2. \A r : Follows(tasks[path], r)' <=> Follows(tasks[path], r)
  BY DEF Follows, Collected, SamePlace
<1>3. ASSUME Kept(path)'
      PROVE  /\ \E r \in rows' : r.s = Last(path)
             /\ \A r \in before' : r.s = Last(path) =>
                   /\ ~Discards(tasks[path], r)'
                   /\ Follows(tasks[path], r)' => Append(path, r.o) \in DOMAIN tasks'
  BY <1>1, <1>2, <1>3 DEF ReadAll
<1>4. ASSUME tasks'[path].pc # "get", ~Kept(path)', ~failed'
      PROVE  \/ \E r \in rows' : r.s = Last(path) /\ Discards(tasks[path], r)'
             \/ \A r \in before' : r.s # Last(path)
  BY <1>1, <1>4 DEF ReadAll
<1> QED
  BY <1>3, <1>4 DEF ReadAll

LEMMA MergedKept ==
  ASSUME NEW path, Merged(path), DOMAIN tasks \subseteq DOMAIN tasks',
         tasks'[path].out = tasks[path].out,
         \A p \in DOMAIN tasks : Kept(p) => Kept(p)',
         tasks'[path].pc = "done" /\ Len(path) > 1 =>
            tasks[path].out \subseteq tasks'[Front(path)].out
  PROVE  Merged(path)'
BY DEF Merged, Err
\* Whoever started it has read its own rows.
LEMMA ParentStarted ==
  ASSUME IInv, NEW path \in DOMAIN tasks, Len(path) > 1
  PROVE  Front(path) \in DOMAIN tasks /\ tasks[Front(path)].pc # "get"
<1>1. PICK n \in Nat : n = Len(path)
  BY TaskFacts
<1>2. n > 1
  BY <1>1
<1>3. n # 1
  BY <1>2
<1>4. Len(path) # 1
  BY <1>1, <1>3
<1> QED
  BY <1>4 DEF IInv, Tree

\* The goroutines it starts are told by it what to read.
LEMMA ChildTold ==
  ASSUME NEW t, NEW kind
  PROVE  ToldBy(ChildTask(t, kind), t, kind)
<1>1. CASE Collected(t.q, kind) # {}
  <2>1. PICK k \in Collected(t.q, kind) :
           ChildTask(t, kind) = Task(k, 0, query[k].maxDepth, t.del)
    BY <1>1 DEF ChildTask
  <2> QED
    BY <2>1 DEF Task, ToldBy
<1>2. CASE Collected(t.q, kind) = {}
  <2>1. ChildTask(t, kind) = Task(0, t.level + 1, t.max, t.del)
    BY <1>2 DEF ChildTask
  <2> QED
    BY <1>2, <2>1 DEF Task, ToldBy
<1> QED
  BY <1>1, <1>2

LEMMA ChildrenTold ==
  ASSUME IInv, NEW path \in DOMAIN tasks, tasks[path].pc = "get",
         NEW seen \in SUBSET rows, NEW t2 \in Tasks,
         Continue(path, tasks[path], seen, t2), UNCHANGED query,
         NEW o \in Kids(tasks[path], seen)
  PROVE  \E r \in seen : /\ r.o = o /\ Follows(tasks[path], r)
                         /\ tasks'[Append(path, o)] = ChildTask(tasks[path], r.p)
<1> PICK t : t = tasks[path]
  OBVIOUS
<1> PICK links : links = {r \in seen : Follows(t, r)}
  OBVIOUS
<1> PICK new : new = Spawned(path, t, seen)
  OBVIOUS
<1> PICK c : c = Append(path, o)
  OBVIOUS
<1>1. new = [d \in {Append(path, r.o) : r \in links} |->
               ChildTask(t, (CHOOSE r \in links : r.o = Last(d)).p)]
  BY DEF Spawned
<1>2. \E r \in links : r.o = o
  BY DEF Kids
<1>3. o \in Ids /\ path \in Seq(Ids)
  <2>1. Started(path, seen, t2)
    BY ContinueGives
  <2> QED
    BY <2>1, TaskFacts DEF Started
<1>4. Last(c) = o /\ c # path
  <2>1. Last(c) = o /\ Len(c) = Len(path) + 1 /\ Len(path) \in Nat
    BY <1>3, ChildPath, LenProperties
  <2> QED
    BY <2>1
<1>5. c \in DOMAIN new
  BY <1>1, <1>2
<1>6. new[c] = ChildTask(t, (CHOOSE r \in links : r.o = o).p)
  BY <1>1, <1>4, <1>5
<1>7. tasks'[c] = new[c]
  <2>1. tasks' = [p \in {path} \cup DOMAIN new \cup DOMAIN tasks |->
                    IF p = path THEN t2 ELSE IF p \in DOMAIN new THEN new[p] ELSE tasks[p]]
    BY DEF Continue
  <2> QED
    BY <1>4, <1>5, <2>1
<1>8. PICK r \in links : r = CHOOSE l \in links : l.o = o
  BY <1>2
<1>9. r.o = o
  BY <1>2, <1>8
<1>10. tasks'[c] = ChildTask(t, r.p)
  BY <1>6, <1>7, <1>8
<1>11. r \in seen /\ Follows(t, r)
  OBVIOUS
<1> QED
  BY <1>9, <1>10, <1>11

\* A goroutine that has read has met every row that was there when Run was
\* called, or is told to stop.
LEMMA GoesOnHeard ==
  ASSUME IInv, Heard, before \subseteq rows,
         NEW path \in DOMAIN tasks, tasks[path].pc = "get",
         NEW seen \in SUBSET rows, \A r \in seen : r.s = Last(path),
         NEW t2 \in Tasks, t2.pc \in {"send", "wait"}, SamePlace(t2, tasks[path]),
         Continue(path, tasks[path], seen, t2),
         UNCHANGED <<query, rows, batches, before>>, failed' \in BOOLEAN, failed => failed',
         \/ /\ t2.out = {path} /\ seen # {}
            /\ \A r \in rows : r.s = Last(path) => r \in seen /\ ~Discards(tasks[path], r)
         \/ /\ t2.out \in {{}, Err}
            /\ \/ failed'
               \/ \E r \in rows : r.s = Last(path) /\ Discards(tasks[path], r)
               \/ \A r \in rows : r.s # Last(path)
  PROVE  Heard'
<1> PICK kids : kids = Kids(tasks[path], seen)
  OBVIOUS
<1>0. UNCHANGED query
  OBVIOUS
<1>1. /\ kids \subseteq Ids
      /\ DOMAIN tasks' = DOMAIN tasks \cup {Append(path, o) : o \in kids}
      /\ tasks'[path] = t2
      /\ \A p \in DOMAIN tasks : p # path => tasks'[p] = tasks[p]
      /\ \A o \in kids : /\ tasks'[Append(path, o)].pc = "get"
                         /\ tasks'[Append(path, o)].out = {}
  <2>1. Started(path, seen, t2)
    BY <1>0, ContinueGives
  <2> QED
    BY <2>1 DEF Started
<1>2. path \in Seq(Ids) /\ Len(path) \in Nat /\ Len(path) >= 1 /\ path # <<>>
  BY TaskFacts
<1>3. /\ t2.pc # "get" /\ t2.pc # "done" /\ DOMAIN tasks \subseteq DOMAIN tasks'
      /\ SamePlace(tasks'[path], tasks[path])
      /\ ~Kept(path) /\ \A p \in DOMAIN tasks : Kept(p) => Kept(p)'
  BY <1>1 DEF Kept
<1>4. ASSUME NEW p \in DOMAIN tasks
      PROVE  /\ SamePlace(tasks'[p], tasks[p])
             /\ Len(p) > 1 => /\ Front(p) \in DOMAIN tasks /\ Front(p) # path
                              /\ tasks'[Front(p)] = tasks[Front(p)]
  <2>1. SamePlace(tasks'[p], tasks[p])
    BY <1>1, <1>3 DEF SamePlace
  <2>2. Len(p) > 1 => Front(p) \in DOMAIN tasks /\ tasks[Front(p)].pc # "get"
    BY ParentStarted
  <2> QED
    BY <1>1, <2>1, <2>2
<1>5. ASSUME NEW p \in DOMAIN tasks
      PROVE  Placed(p)'
  <2>1. Placed(p) /\ rows \subseteq rows'
    BY DEF Heard
  <2>2. Len(p) > 1 => SamePlace(tasks'[Front(p)], tasks[Front(p)])
    BY <1>4 DEF SamePlace
  <2> QED
    BY <1>4, <2>1, <2>2, PlacedKept
<1>6. ASSUME NEW p \in DOMAIN tasks, p # path
      PROVE  ReadAll(p)' /\ Merged(p)'
  <2>1. ReadAll(p) /\ Merged(p) /\ tasks'[p] = tasks[p] /\ rows \subseteq rows'
    BY <1>1, <1>6 DEF Heard
  <2>2. Kept(p)' <=> Kept(p)
    BY <2>1 DEF Kept
  <2>3. ReadAll(p)'
    BY <1>3, <1>4, <2>1, <2>2, ReadAllKept
  <2>4. tasks[p].pc = "done" /\ Len(p) > 1 => tasks[p].out \subseteq tasks'[Front(p)].out
    BY <1>4, <2>1 DEF Merged
  <2>5. Merged(p)'
    BY <1>3, <2>1, <2>4, MergedKept
  <2> QED
    BY <2>3, <2>5
<1>7. \A r : /\ Discards(tasks[path], r)' <=> Discards(tasks[path], r)
             /\ Follows(tasks[path], r)' <=> Follows(tasks[path], r)
  BY <1>3 DEF Discards, FilterOf, Follows, Collected, SamePlace
<1>8. ReadAll(path)' /\ Merged(path)'
  <2>1. CASE /\ t2.out = {path} /\ seen # {}
             /\ \A r \in rows : r.s = Last(path) => r \in seen /\ ~Discards(tasks[path], r)
    <3>1. Kept(path)'
      BY <1>1, <1>3, <2>1 DEF Kept
    <3>2. \E r \in rows' : r.s = Last(path)
      BY <2>1
    <3>3. ASSUME NEW r \in before', r.s = Last(path)
          PROVE  /\ ~Discards(tasks[path], r)'
                 /\ Follows(tasks[path], r)' => Append(path, r.o) \in DOMAIN tasks'
      <4>1. r \in seen /\ ~Discards(tasks[path], r)
        BY <2>1, <3>3
      <4>2. Follows(tasks[path], r) => r.o \in kids
        BY <4>1 DEF Kids
      <4> QED
        BY <1>1, <1>7, <4>1, <4>2
    <3>4. ReadAll(path)'
      BY <3>1, <3>2, <3>3 DEF ReadAll
    <3>5. Merged(path)'
      BY <1>1, <1>3, <2>1, <3>1 DEF Merged
    <3> QED
      BY <3>4, <3>5
  <2>2. CASE /\ t2.out \in {{}, Err}
             /\ \/ failed'
                \/ \E r \in rows : r.s = Last(path) /\ Discards(tasks[path], r)
                \/ \A r \in rows : r.s # Last(path)
    <3>1. ~Kept(path)'
      BY <1>1, <1>2, <2>2 DEF Kept, Err
    <3>2. \/ failed'
          \/ \E r \in rows' : r.s = Last(path) /\ Discards(tasks[path], r)'
          \/ \A r \in before' : r.s # Last(path)
      BY <1>7, <2>2
    <3>3. ReadAll(path)'
      BY <3>1, <3>2 DEF ReadAll
    <3>4. Merged(path)'
      BY <1>1, <1>3, <2>2 DEF Merged, Err
    <3> QED
      BY <3>3, <3>4
  <2> QED
    BY <2>1, <2>2
<1>9. ASSUME NEW o \in kids
      PROVE  LET c == Append(path, o)
             IN Placed(c)' /\ ReadAll(c)' /\ Merged(c)'
  <2> PICK c : c = Append(path, o)
    OBVIOUS
  <2>1. c \in Seq(Ids) /\ Len(c) > 1 /\ Front(c) = path /\ Last(c) = o /\ Len(c) # 1
    BY <1>1, <1>2, ChildPath
  <2>2. tasks'[c].pc = "get" /\ tasks'[c].out = {}
    BY <1>1
  <2>3. PICK r \in seen : /\ r.o = o /\ Follows(tasks[path], r)
                          /\ tasks'[c] = ChildTask(tasks[path], r.p)
    BY <1>0, ChildrenTold
  <2>4. ToldBy(tasks'[c], tasks[path], r.p)
    BY <2>3, ChildTold
  <2>5. ToldBy(tasks[c], tasks[path], r.p)'
    BY <1>3, <2>4 DEF ToldBy, Collected, SamePlace
  <2>6. Placed(c)'
    BY <1>7, <2>1, <2>3, <2>5 DEF Placed
  <2>7. ReadAll(c)' /\ Merged(c)'
    BY <2>2 DEF ReadAll, Merged, Kept
  <2> QED
    BY <2>6, <2>7
<1>10. \A p \in DOMAIN tasks' : Placed(p)' /\ ReadAll(p)' /\ Merged(p)'
  BY <1>1, <1>5, <1>6, <1>8, <1>9
<1> QED
  BY <1>10 DEF Heard, OneLinkEach, IsLink

\* GetEntity: the loop met all the rows of the entity, or stopped at one.
LEMMA GetEntityHeard ==
  ASSUME IInv, Heard, NEW path \in DOMAIN tasks, GetEntity(path)
  PROVE  Heard'
<1> PICK t : t = tasks[path]
  OBVIOUS
<1> PICK its : its = {r \in rows : r.s = Last(path)}
  OBVIOUS
<1> PICK stops : stops = {r \in its : Discards(t, r) \/ Breaks(t, r)}
  OBVIOUS
<1> PICK kids : kids = {r.o : r \in {r \in its : Follows(t, r)}}
  OBVIOUS
<1>1. /\ phase \in {"run", "returned"} /\ t.pc = "get"
      /\ UNCHANGED <<query, rows, batches, before>>
  BY DEF GetEntity, Alive
<1>2. \/ /\ its = {}
         /\ Continue(path, t, {}, Answers(t, {}))
         /\ UNCHANGED failed
      \/ /\ its # {} /\ stops = {}
         /\ Continue(path, t, its, Waits([t EXCEPT !.out = {path}], Cardinality(kids)))
         /\ UNCHANGED failed
      \/ \E stop \in stops : \E seen \in RowsSeen(its, stops, stop) :
           /\ Continue(path, t, seen, Answers(t, IF Breaks(t, stop) THEN Err ELSE {}))
           /\ failed' = (failed \/ Breaks(t, stop))
  BY DEF GetEntity
<1>3. /\ t \in Tasks /\ path \in Seq(Ids) /\ failed \in BOOLEAN /\ before \subseteq rows
      /\ {} \in SUBSET Seq(Ids) /\ Err \in SUBSET Seq(Ids) /\ {path} \in SUBSET Seq(Ids)
  <2>1. before \subseteq rows
    BY <1>1 DEF IInv, Shape
  <2> QED
    BY <2>1, TaskFacts, EmptySeq DEF Err, Heard
<1>4. CASE its = {} /\ Continue(path, t, {}, Answers(t, {})) /\ UNCHANGED failed
  <2>1. PICK t2 \in Tasks : /\ t2 = Answers(t, {}) /\ t2.pc = "send" /\ t2.out = {}
                            /\ SamePlace(t2, t)
    BY <1>3, AnswersGives, PlacesKept
  <2>2. {} \in SUBSET rows /\ \A r \in {} : r.s = Last(path)
    OBVIOUS
  <2>3. \A r \in rows : r.s # Last(path)
    BY <1>4
  <2>4. Continue(path, tasks[path], {}, t2) /\ SamePlace(t2, tasks[path])
    BY <1>4, <2>1
  <2>5. t2.pc \in {"send", "wait"} /\ t2.out \in {{}, Err} /\ failed' \in BOOLEAN
        /\ (failed => failed') /\ tasks[path].pc = "get"
    BY <1>1, <1>3, <1>4, <2>1
  <2> QED
    BY <1>1, <1>3, <2>2, <2>3, <2>4, <2>5, GoesOnHeard
<1>5. CASE /\ its # {} /\ stops = {}
           /\ Continue(path, t, its, Waits([t EXCEPT !.out = {path}], Cardinality(kids)))
           /\ UNCHANGED failed
  <2>1. its \in SUBSET rows /\ \A r \in its : r.s = Last(path)
    OBVIOUS
  <2>2. PICK n \in Nat : n = Cardinality(kids)
    <3> DEFINE links == {r \in its : Follows(t, r)}
    <3>1. IsFiniteSet(links)
      BY <2>1, FS_Subset DEF IInv, Shape
    <3>2. [r \in links |-> r.o] \in Surjection(links, kids)
      BY DEF Surjection
    <3>3. IsFiniteSet(kids)
      BY <3>1, <3>2, FS_Surjection
    <3> QED
      BY <3>3, FS_CardinalityType
  <2>3. PICK out \in SUBSET Seq(Ids) : out = {path}
    BY <1>3
  <2>4. PICK t1 \in Tasks : t1 = With(t, out) /\ t1.out = out /\ SamePlace(t1, t)
    BY <1>3, WithGives, PlacesKept
  <2> PICK t2 : t2 = Waits(t1, n)
    OBVIOUS
  <2>5. t2 \in Tasks /\ t2.out = out /\ t2.pc \in {"send", "wait"} /\ SamePlace(t2, t1)
    <3>1. t2 \in Tasks /\ t2.out = out /\ t2.pc \in {"send", "wait"}
      BY <2>4, WaitsGives
    <3>2. SamePlace(Waits(t1, n), t1)
      BY <2>4, PlacesKept
    <3> QED
      BY <3>1, <3>2
  <2>6. SamePlace(t2, tasks[path])
    BY <2>4, <2>5 DEF SamePlace
  <2>7. Continue(path, tasks[path], its, t2)
    BY <1>5, <2>2, <2>3, <2>4 DEF With
  <2>8. \A r \in rows : r.s = Last(path) => r \in its /\ ~Discards(tasks[path], r)
    BY <1>5
  <2>9. t2.out = {path} /\ its # {} /\ failed' \in BOOLEAN /\ (failed => failed')
        /\ tasks[path].pc = "get"
    BY <1>1, <1>3, <1>5, <2>3, <2>5
  <2> QED
    BY <1>1, <1>3, <2>1, <2>5, <2>6, <2>7, <2>8, <2>9, GoesOnHeard
<1>6. CASE \E stop \in stops : \E seen \in RowsSeen(its, stops, stop) :
             /\ Continue(path, t, seen, Answers(t, IF Breaks(t, stop) THEN Err ELSE {}))
             /\ failed' = (failed \/ Breaks(t, stop))
  <2> PICK stop \in stops : \E seen \in RowsSeen(its, stops, stop) :
             /\ Continue(path, t, seen, Answers(t, IF Breaks(t, stop) THEN Err ELSE {}))
             /\ failed' = (failed \/ Breaks(t, stop))
    BY <1>6
  <2>1. PICK seen \in RowsSeen(its, stops, stop) :
             /\ Continue(path, t, seen, Answers(t, IF Breaks(t, stop) THEN Err ELSE {}))
             /\ failed' = (failed \/ Breaks(t, stop))
    OBVIOUS
  <2>2. seen \in SUBSET rows /\ \A r \in seen : r.s = Last(path)
    <3>1. seen \subseteq its
      BY <2>1 DEF RowsSeen
    <3> QED
      BY <3>1
  <2>3. PICK out \in SUBSET Seq(Ids) : /\ out = IF Breaks(t, stop) THEN Err ELSE {}
                                       /\ out \in {{}, Err}
    BY <1>3
  <2>4. PICK t2 \in Tasks : /\ t2 = Answers(t, out) /\ t2.pc = "send" /\ t2.out = out
                            /\ SamePlace(t2, t)
    BY <1>3, AnswersGives, PlacesKept
  <2>5. Continue(path, tasks[path], seen, t2) /\ SamePlace(t2, tasks[path])
    BY <2>1, <2>3, <2>4
  <2>6. failed' \in BOOLEAN /\ (failed => failed')
    BY <1>3, <2>1
  <2>7. failed' \/ \E r \in rows : r.s = Last(path) /\ Discards(tasks[path], r)
    <3>1. CASE Breaks(t, stop)
      BY <2>1, <3>1
    <3>2. CASE ~Breaks(t, stop)
      BY <3>2
    <3> QED
      BY <3>1, <3>2
  <2>8. t2.pc \in {"send", "wait"} /\ t2.out \in {{}, Err} /\ tasks[path].pc = "get"
    BY <1>1, <2>3, <2>4
  <2> QED
    BY <1>1, <1>3, <2>2, <2>5, <2>6, <2>7, <2>8, GoesOnHeard
<1> QED
  BY <1>2, <1>4, <1>5, <1>6

\* A step that starts no goroutine and leaves every result as it is, or errs.
LEMMA ResultsKept ==
  ASSUME IInv, Heard, UNCHANGED <<query, before>>, rows \subseteq rows',
         OneLinkEach(rows \cup UNION batches)', failed' \in BOOLEAN, failed => failed',
         DOMAIN tasks' = DOMAIN tasks,
         \A p \in DOMAIN tasks :
            /\ SamePlace(tasks'[p], tasks[p])
            /\ tasks'[p].out = tasks[p].out
            /\ tasks'[p].pc = "get" <=> tasks[p].pc = "get"
            /\ tasks'[p].pc = "done" /\ Len(p) > 1 => tasks[p].pc = "done"
  PROVE  Heard'
<1>1. ASSUME NEW p \in DOMAIN tasks
      PROVE  Placed(p)' /\ ReadAll(p)' /\ Merged(p)'
  <2>1. Len(p) > 1 => Front(p) \in DOMAIN tasks
    BY ParentStarted
  <2>2. Placed(p) /\ ReadAll(p) /\ Merged(p)
    BY DEF Heard
  <2>3. \A q \in DOMAIN tasks : Kept(q)' <=> Kept(q)
    BY DEF Kept
  <2>4. Placed(p)'
    BY <2>1, <2>2, PlacedKept
  <2>5. ReadAll(p)'
    BY <2>2, <2>3, ReadAllKept
  <2>6. tasks'[p].pc = "done" /\ Len(p) > 1 => tasks[p].out \subseteq tasks'[Front(p)].out
    BY <2>1, <2>2 DEF Merged
  <2>7. Merged(p)'
    BY <2>2, <2>3, <2>6, MergedKept
  <2> QED
    BY <2>4, <2>5, <2>7
<1> QED
  BY <1>1 DEF Heard

LEMMA GetEntityFailsHeard ==
  ASSUME IInv, Heard, NEW path \in DOMAIN tasks, GetEntityFails(path)
  PROVE  Heard'
<1>1. /\ tasks[path].pc = "get" /\ failed' = TRUE
      /\ tasks' = [tasks EXCEPT ![path] = Answers(tasks[path], Err)]
      /\ UNCHANGED <<query, rows, batches, before>>
  BY DEF GetEntityFails
<1>2. tasks[path] \in Tasks /\ path # <<>>
  BY TaskFacts
<1>3. Err \in SUBSET Seq(Ids)
  BY EmptySeq DEF Err
<1>4. PICK t2 \in Tasks : /\ t2 = Answers(tasks[path], Err) /\ t2.pc = "send" /\ t2.out = Err
                          /\ SamePlace(t2, tasks[path])
  BY <1>2, <1>3, AnswersGives, PlacesKept
<1>5. /\ DOMAIN tasks' = DOMAIN tasks /\ tasks'[path] = t2
      /\ \A p \in DOMAIN tasks : p # path => tasks'[p] = tasks[p]
  BY <1>1, <1>4
<1>6. /\ ~Kept(path) /\ ~Kept(path)' /\ \A p \in DOMAIN tasks : Kept(p)' <=> Kept(p)
  BY <1>1, <1>2, <1>4, <1>5 DEF Kept, Err
<1>7. ASSUME NEW p \in DOMAIN tasks
      PROVE  Placed(p)' /\ ReadAll(p)' /\ Merged(p)'
  <2>1. Len(p) > 1 => /\ Front(p) \in DOMAIN tasks /\ Front(p) # path
    BY <1>1, ParentStarted
  <2>2. Placed(p) /\ ReadAll(p) /\ Merged(p)
    BY DEF Heard
  <2>3. \A q \in DOMAIN tasks : SamePlace(tasks'[q], tasks[q])
    BY <1>4, <1>5 DEF SamePlace
  <2>4. Placed(p)'
    BY <1>1, <2>1, <2>2, <2>3, PlacedKept
  <2>5. CASE p = path
    <3>1. ReadAll(p)'
      BY <1>1, <1>6, <2>5 DEF ReadAll
    <3>2. Merged(p)'
      BY <1>4, <1>5, <2>5 DEF Merged, Err
    <3> QED
      BY <2>4, <3>1, <3>2
  <2>6. CASE p # path
    <3>1. ReadAll(p)'
      BY <1>1, <1>5, <1>6, <2>2, <2>3, <2>6, ReadAllKept
    <3>2. Merged(p)'
      BY <1>5, <1>6, <2>1, <2>2, <2>6, MergedKept DEF Merged
    <3> QED
      BY <2>4, <3>1, <3>2
  <2> QED
    BY <2>5, <2>6
<1> QED
  BY <1>1, <1>5, <1>7 DEF Heard, OneLinkEach, IsLink

LEMMA ReturnResultHeard ==
  ASSUME IInv, Heard, ReturnResult
  PROVE  Heard'
<1> PICK root : root = <<Root>>
  OBVIOUS
<1>1. /\ phase = "run" /\ tasks[root].pc = "send"
      /\ tasks' = [tasks EXCEPT ![root] = Done(tasks[root])]
      /\ UNCHANGED <<query, rows, batches, before, failed>>
  BY DEF ReturnResult
<1>2. root \in DOMAIN tasks /\ ~(Len(root) > 1)
  BY <1>1 DEF IInv, Tree
<1>3. PICK t2 \in Tasks : /\ t2 = Done(tasks[root]) /\ t2.pc = "done"
                          /\ t2.out = tasks[root].out /\ SamePlace(t2, tasks[root])
  <2>1. tasks[root] \in Tasks
    BY <1>2, TaskFacts
  <2> QED
    BY <2>1, DoneGives, PlacesKept
<1>4. /\ DOMAIN tasks' = DOMAIN tasks /\ tasks'[root] = t2
      /\ \A p \in DOMAIN tasks : p # root => tasks'[p] = tasks[p]
  BY <1>1, <1>2, <1>3
<1>5. \A p \in DOMAIN tasks :
         /\ SamePlace(tasks'[p], tasks[p])
         /\ tasks'[p].out = tasks[p].out
         /\ tasks'[p].pc = "get" <=> tasks[p].pc = "get"
         /\ tasks'[p].pc = "done" /\ Len(p) > 1 => tasks[p].pc = "done"
  BY <1>1, <1>2, <1>3, <1>4 DEF SamePlace
<1>6. OneLinkEach(rows \cup UNION batches)' /\ rows \subseteq rows'
      /\ failed' \in BOOLEAN /\ (failed => failed')
  BY <1>1 DEF Heard, OneLinkEach, IsLink
<1> QED
  BY <1>1, <1>4, <1>5, <1>6, ResultsKept

\* A parent merges what a child hands it.
LEMMA DeliverResultHeard ==
  ASSUME IInv, Heard, NEW path \in DOMAIN tasks, DeliverResult(path)
  PROVE  Heard'
<1> PICK up : up = Front(path)
  OBVIOUS
<1> PICK out : out = tasks[path].out
  OBVIOUS
<1>1. /\ Len(path) > 1 /\ tasks[path].pc = "send" /\ tasks[up].pc = "wait" /\ out # Err
      /\ tasks' = [tasks EXCEPT ![path] = Done(@), ![up] = Hears(@, out)]
      /\ UNCHANGED <<query, rows, batches, before, failed>>
  BY DEF DeliverResult, Meet
<1>2. up \in DOMAIN tasks /\ up # path
  BY <1>1, ParentStarted
<1>3. tasks[path] \in Tasks /\ out \in SUBSET Seq(Ids)
  BY TaskFacts
<1>4. /\ tasks[up] \in Tasks /\ tasks[up].wait > 0
      /\ up \in tasks[up].out /\ <<>> \notin tasks[up].out
  BY <1>1, <1>2, TaskFacts DEF Waiting
<1>5. PICK t2 \in Tasks : /\ t2 = Done(tasks[path]) /\ t2.pc = "done" /\ t2.out = out
                          /\ SamePlace(t2, tasks[path])
  BY <1>3, DoneGives, PlacesKept
<1>6. PICK u2 \in Tasks : /\ u2 = Hears(tasks[up], out) /\ u2.pc \in {"send", "wait"}
                          /\ u2.out = tasks[up].out \cup out /\ SamePlace(u2, tasks[up])
  BY <1>3, <1>4, HearsGives, PlacesKept
<1>7. /\ DOMAIN tasks' = DOMAIN tasks /\ tasks'[path] = t2 /\ tasks'[up] = u2
      /\ \A p \in DOMAIN tasks : p # path /\ p # up => tasks'[p] = tasks[p]
  BY <1>1, <1>2, <1>5, <1>6
<1>8. \A p \in DOMAIN tasks :
         /\ SamePlace(tasks'[p], tasks[p])
         /\ tasks[p].out \subseteq tasks'[p].out
         /\ p # up => tasks'[p].out = tasks[p].out
         /\ tasks'[p].pc = "get" <=> tasks[p].pc = "get"
         /\ p # path => (tasks'[p].pc = "done" => tasks[p].pc = "done")
  BY <1>1, <1>5, <1>6, <1>7 DEF SamePlace
<1>9. \A p \in DOMAIN tasks : Kept(p)' <=> Kept(p)
  <2>1. Kept(up) /\ Kept(up)'
    BY <1>1, <1>4, <1>6, <1>7 DEF Kept
  <2> QED
    BY <1>8, <2>1 DEF Kept
<1>10. ASSUME NEW p \in DOMAIN tasks
       PROVE  Placed(p)' /\ ReadAll(p)' /\ Merged(p)'
  <2>1. Len(p) > 1 => Front(p) \in DOMAIN tasks
    BY <1>1, ParentStarted
  <2>2. Placed(p) /\ ReadAll(p) /\ Merged(p)
    BY DEF Heard
  <2>3. Placed(p)'
    BY <1>1, <1>8, <2>1, <2>2, PlacedKept
  <2>4. ReadAll(p)'
    BY <1>1, <1>7, <1>8, <1>9, <2>2, ReadAllKept
  <2>5. tasks'[p].pc = "done" /\ Len(p) > 1 => tasks[p].out \subseteq tasks'[Front(p)].out
    <3>1. CASE p = path
      BY <1>6, <1>7, <3>1
    <3>2. CASE p # path
      BY <1>8, <2>1, <2>2, <3>2 DEF Merged
    <3> QED
      BY <3>1, <3>2
  <2>6. CASE p # up
    <3>1. Merged(p)'
      BY <1>7, <1>8, <1>9, <2>2, <2>5, <2>6, MergedKept
    <3> QED
      BY <2>3, <2>4, <3>1
  <2>7. CASE p = up
    <3>1. tasks[up].out # Err /\ Merged(path) /\ tasks'[up].pc # "done"
      BY <1>4, <1>6, <1>7 DEF Err, Heard
    <3>2. ASSUME NEW q \in tasks[up].out \cup out
          PROVE  /\ q \in DOMAIN tasks /\ Kept(q)
                 /\ q # up => Len(q) > 1 /\ Front(q) \in tasks[up].out \cup out
      <4>1. CASE q \in tasks[up].out
        BY <2>2, <2>7, <3>1, <4>1 DEF Merged
      <4>2. CASE q \in out
        <5>1. q = path => Len(q) > 1 /\ Front(q) \in tasks[up].out
          BY <1>1, <1>4
        <5>2. /\ q \in DOMAIN tasks /\ Kept(q)
              /\ q # path => Len(q) > 1 /\ Front(q) \in out
          BY <1>1, <3>1, <4>2 DEF Merged
        <5> QED
          BY <5>1, <5>2
      <4> QED
        BY <4>1, <4>2
    <3>3. Merged(up)'
      BY <1>6, <1>7, <1>9, <3>1, <3>2 DEF Merged
    <3> QED
      BY <2>3, <2>4, <2>7, <3>3
  <2> QED
    BY <2>6, <2>7
<1> QED
  BY <1>1, <1>7, <1>10 DEF Heard, OneLinkEach, IsLink

\* An error that is heard, and a commit, leave the goroutines alone.
LEMMA DeliverErrorHeard ==
  ASSUME IInv, Heard, NEW path \in DOMAIN tasks, DeliverError(path)
  PROVE  Heard'
<1>1. UNCHANGED <<query, rows, batches, tasks, before, failed>>
  BY DEF DeliverError
<1>2. OneLinkEach(rows \cup UNION batches)' /\ failed' \in BOOLEAN /\ (failed => failed')
  BY <1>1 DEF Heard, OneLinkEach, IsLink
<1>3. \A p \in DOMAIN tasks : SamePlace(tasks'[p], tasks[p])
  BY <1>1 DEF SamePlace
<1> QED
  BY <1>1, <1>2, <1>3, ResultsKept

LEMMA CommitHeard ==
  ASSUME IInv, Heard, Commit
  PROVE  Heard'
<1>1. UNCHANGED <<query, tasks, before, failed>>
  BY DEF Commit
<1>2. PICK b \in batches : rows' = rows \cup b /\ batches' = batches \ {b}
  BY DEF Commit
<1>3. rows' \cup UNION batches' \subseteq rows \cup UNION batches /\ rows \subseteq rows'
  BY <1>2
<1>4. OneLinkEach(rows \cup UNION batches)'
  BY <1>3 DEF Heard, OneLinkEach, IsLink
<1>5. \A p \in DOMAIN tasks : SamePlace(tasks'[p], tasks[p])
  BY <1>1 DEF SamePlace
<1>6. failed' \in BOOLEAN /\ (failed => failed')
  BY <1>1 DEF Heard
<1> QED
  BY <1>1, <1>3, <1>4, <1>5, <1>6, ResultsKept

\* Collect makes one node for a kind.
LEMMA BuildHeard ==
  ASSUME IInv, Heard, Build
  PROVE  Heard'
<1> PICK k \in DOMAIN query :
      \/ \E kind \in Kinds : Collect(k, kind)
      \/ \E level \in 0..MaxLevel : UptoDepth(k, level)
      \/ AllowDeleted(k)
      \/ \E p \in Filters : FilterOut(k, p)
  BY DEF Build
<1>1. phase = "build" /\ UNCHANGED <<rows, batches, tasks, failed>>
  BY DEF Collect, UptoDepth, AllowDeleted, FilterOut, Building
<1>2. /\ query \in Seq(QueryNodes) /\ Len(query) \in Nat /\ DOMAIN query = 1..Len(query)
      /\ \A j \in DOMAIN query : query[j] \in QueryNodes
  BY LenProperties, ElementOfSeq DEF IInv, Shape
<1> DEFINE Unique ==
             \A i, j \in DOMAIN query' :
                query'[i].parent = query'[j].parent /\ query'[i].kind = query'[j].kind => i = j
<1>3. ASSUME NEW kind \in Kinds, Collect(k, kind)
      PROVE  Unique
  <2> PICK node : node = QueryNode(k, kind, query[k].getDeleted)
    OBVIOUS
  <2>1. node \in QueryNodes /\ node.parent = k /\ node.kind = kind
    BY <1>2, QueryConstants DEF QueryNode, QueryNodes
  <2>2. query' = Append(query, node) /\ Collected(k, kind) = {}
    BY <1>3 DEF Collect
  <2>3. /\ query' \in Seq(QueryNodes) /\ Len(query') = Len(query) + 1
        /\ DOMAIN query' = 1..(Len(query) + 1)
        /\ \A j \in 1..Len(query) : query'[j] = query[j]
        /\ query'[Len(query) + 1] = node
    BY <1>2, <2>1, <2>2, AppendProperties
  <2>4. \A j \in DOMAIN query : ~(query[j].parent = node.parent /\ query[j].kind = node.kind)
    BY <2>1, <2>2 DEF Collected
  <2>5. \A j \in DOMAIN query' : j \in DOMAIN query \/ j = Len(query) + 1
    BY <1>2, <2>3
  <2> QED
    BY <1>2, <2>3, <2>4, <2>5 DEF Heard
<1>4. ASSUME NEW node, node.parent = query[k].parent, node.kind = query[k].kind,
             query' = [query EXCEPT ![k] = node]
      PROVE  Unique
  <2>1. /\ DOMAIN query' = DOMAIN query
        /\ \A j \in DOMAIN query : query'[j].parent = query[j].parent
                                   /\ query'[j].kind = query[j].kind
    BY <1>4
  <2> QED
    BY <2>1 DEF Heard
<1>5. ASSUME NEW level \in 0..MaxLevel, UptoDepth(k, level)
      PROVE  Unique
  <2>1. PICK node : node = [query[k] EXCEPT !.maxDepth = level]
    OBVIOUS
  <2>2. node.parent = query[k].parent /\ node.kind = query[k].kind
    BY <1>2, <2>1 DEF QueryNodes
  <2>3. query' = [query EXCEPT ![k] = node]
    BY <1>5, <2>1 DEF UptoDepth
  <2> QED
    BY <1>4, <2>2, <2>3
<1>6. ASSUME AllowDeleted(k)
      PROVE  Unique
  <2>1. PICK node : node = [query[k] EXCEPT !.getDeleted = TRUE]
    OBVIOUS
  <2>2. node.parent = query[k].parent /\ node.kind = query[k].kind
    BY <1>2, <2>1 DEF QueryNodes
  <2>3. query' = [query EXCEPT ![k] = node]
    BY <1>6, <2>1 DEF AllowDeleted
  <2> QED
    BY <1>4, <2>2, <2>3
<1>7. ASSUME NEW p \in Filters, FilterOut(k, p)
      PROVE  Unique
  <2>1. PICK node : node = [query[k] EXCEPT !.filterOut = @ \cup {p}]
    OBVIOUS
  <2>2. node.parent = query[k].parent /\ node.kind = query[k].kind
    BY <1>2, <2>1 DEF QueryNodes
  <2>3. query' = [query EXCEPT ![k] = node]
    BY <1>7, <2>1 DEF FilterOut
  <2> QED
    BY <1>4, <2>2, <2>3
<1> HIDE DEF Unique
<1>8. Unique
  BY <1>3, <1>5, <1>6, <1>7, Zenon
<1>9. DOMAIN tasks' = {}
  BY <1>1 DEF IInv, Tree
<1> QED
  BY <1>1, <1>8, <1>9 DEF Unique, Heard, OneLinkEach, IsLink

LEMMA RunHeard ==
  ASSUME IInv, Heard, Run
  PROVE  Heard'
<1> PICK root, t : /\ root = <<Root>>
                   /\ t = Task(1, 0, query[1].maxDepth, query[1].getDeleted)
  OBVIOUS
<1>1. /\ tasks' = [path \in {root} |-> t]
      /\ UNCHANGED <<query, rows, batches, failed>>
  BY DEF Run
<1>2. DOMAIN tasks' = {root} /\ tasks'[root] = t /\ Len(root) = 1
  BY <1>1
<1>3. Placed(root)'
  BY <1>1, <1>2 DEF Placed, Task
<1>4. ReadAll(root)' /\ Merged(root)'
  BY <1>2 DEF ReadAll, Merged, Kept, Task
<1> QED
  BY <1>1, <1>2, <1>3, <1>4 DEF Heard, OneLinkEach, IsLink

LEMMA InitHeard == Init => Heard
<1> SUFFICES ASSUME Init PROVE Heard
  OBVIOUS
<1>1. rows \in Stores /\ batches = Batches /\ DOMAIN tasks = {} /\ failed = FALSE
  BY DEF Init
<1>2. DOMAIN query = {1}
  <2> PICK node : node = QueryNode(0, None, FALSE)
    OBVIOUS
  <2>1. query = <<node>>
    BY DEF Init
  <2> QED
    BY <2>1, OneElement, Zenon
<1>3. OneLinkEach(rows \cup UNION batches)
  BY <1>1, QueryConstants
<1> QED
  BY <1>1, <1>2, <1>3 DEF Heard

LEMMA StepHeard == IInv /\ Heard /\ [Next]_vars => Heard'
<1> SUFFICES ASSUME IInv, Heard, [Next]_vars PROVE Heard'
  OBVIOUS
<1>1. CASE UNCHANGED vars
  <2>1. UNCHANGED <<query, rows, batches, tasks, before, failed>>
    BY <1>1 DEF vars
  <2>2. OneLinkEach(rows \cup UNION batches)' /\ failed' \in BOOLEAN /\ (failed => failed')
    BY <2>1 DEF Heard, OneLinkEach, IsLink
  <2>3. \A p \in DOMAIN tasks : SamePlace(tasks'[p], tasks[p])
    BY <2>1 DEF SamePlace
  <2> QED
    BY <2>1, <2>2, <2>3, ResultsKept
<1>2. ASSUME NEW path \in DOMAIN tasks, Goroutine(path)
      PROVE  Heard'
  BY <1>2, GetEntityHeard, GetEntityFailsHeard, DeliverResultHeard, DeliverErrorHeard
     DEF Goroutine
<1> QED
  BY <1>1, <1>2, BuildHeard, RunHeard, ReturnResultHeard, CommitHeard DEF Next

LEMMA InvariantHeard == Spec => [](IInv /\ Heard)
BY InitHolds, StepHolds, InitHeard, StepHeard, PTL DEF Spec

\* The last entity of an ancestor's path.
LEMMA AncestorLast ==
  ASSUME NEW S, NEW path \in Seq(S), NEW i \in 1..Len(path)
  PROVE  /\ Last(SubSeq(path, 1, i)) = path[i]
         /\ i > 1 => Append(SubSeq(path, 1, i - 1), path[i]) = SubSeq(path, 1, i)
<1> PICK n \in Nat : n = Len(path)
  BY LenProperties
<1>1. i \in Nat /\ 1 <= i /\ i <= n /\ \A j \in 1..i : path[j] \in S
  BY ElementOfSeq
<1> PICK q : q = SubSeq(path, 1, i)
  OBVIOUS
<1>2. q \in Seq(S) /\ Len(q) = i /\ (i > 1 => Front(q) = SubSeq(path, 1, i - 1))
  BY Ancestor
<1>3. q[i] = path[i]
  <2>1. \A j \in 1..(i - 1 + 1) : SubSeq(path, 1, i)[j] = path[1 + j - 1]
    BY <1>1, SubSeqProperties
  <2> QED
    BY <1>1, <2>1
<1>4. Last(q) = path[i]
  BY <1>2, <1>3 DEF Last
<1>5. i > 1 => Append(Front(q), Last(q)) = q
  BY <1>2, PathSplits
<1> QED
  BY <1>2, <1>4, <1>5

\* There is a link, of the given kind, to each place of the path but the first.
LinksAlong(path, n, L, kinds) ==
  \A i \in 2..n : \E r \in L : IsLink(r, path[i - 1], path[i]) /\ r.p = kinds[i]
HasLinks(path, n, L) == \A i \in 2..n : \E r \in L : IsLink(r, path[i - 1], path[i])

\* A linked path has a link of its kind at each place.
LEMMA KindsAlongAt ==
  ASSUME NEW path, NEW n \in Nat, Len(path) = n, NEW L, NEW i \in 2..n,
         \E r \in L : IsLink(r, path[i - 1], path[i])
  PROVE  \E r \in L : IsLink(r, path[i - 1], path[i]) /\ r.p = KindsAlong(path, L)[i]
<1>0. i \in 1..Len(path) /\ i # 1
  OBVIOUS
<1>1. KindsAlong(path, L)[i] = (CHOOSE r \in L : IsLink(r, path[i - 1], path[i])).p
  BY <1>0 DEF KindsAlong
<1> QED
  BY <1>1

LEMMA KindsAlongGives ==
  ASSUME NEW path, NEW n \in Nat, Len(path) = n, NEW L, HasLinks(path, n, L)
  PROVE  LinksAlong(path, n, L, KindsAlong(path, L))
<1> SUFFICES ASSUME NEW i \in 2..n
             PROVE  \E r \in L : IsLink(r, path[i - 1], path[i]) /\ r.p = KindsAlong(path, L)[i]
  BY DEF LinksAlong
<1> QED
  BY KindsAlongAt DEF HasLinks

LastCollected(at, i, j) == j \in 1..i /\ at[j].q # 0 /\ \A l \in (j + 1)..i : at[l].q = 0

LEMMA DepthAtGives ==
  ASSUME NEW at, NEW i \in Nat, NEW j, LastCollected(at, i, j)
  PROVE  DepthAt(at, i) = query[at[j].q].maxDepth
<1>1. PICK m \in 1..i : /\ at[m].q # 0 /\ \A l \in (m + 1)..i : at[l].q = 0
                        /\ DepthAt(at, i) = query[at[m].q].maxDepth
  <2>1. \E m \in 1..i : at[m].q # 0 /\ \A l \in (m + 1)..i : at[l].q = 0
    BY DEF LastCollected
  <2>2. PICK m : m = CHOOSE k \in 1..i : at[k].q # 0 /\ \A l \in (k + 1)..i : at[l].q = 0
    OBVIOUS
  <2>3. DepthAt(at, i) = query[at[m].q].maxDepth
    BY <2>2 DEF DepthAt
  <2>4. m \in 1..i /\ at[m].q # 0 /\ \A l \in (m + 1)..i : at[l].q = 0
    BY <2>1, <2>2
  <2> QED
    BY <2>3, <2>4
<1>2. ~(m < j) /\ ~(j < m) /\ j \in 1..i
  BY <1>1 DEF LastCollected
<1>3. m = j
  BY <1>2
<1> QED
  BY <1>1, <1>3

\* The goroutine of a prefix is where the meaning of the query has it.
InPlace(path, at, i) ==
  LET t == tasks[SubSeq(path, 1, i)]
  IN /\ t.q = at[i].q /\ t.level = at[i].level /\ t.del = query[1].getDeleted
     /\ \E j \in 1..i : LastCollected(at, i, j) /\ t.max = query[at[j].q].maxDepth

LEMMA InPlaceFirst ==
  ASSUME IInv, Heard, NEW path \in Seq(Ids), Len(path) >= 1,
         SubSeq(path, 1, 1) \in DOMAIN tasks,
         NEW at, at[1] = [q |-> 1, level |-> 0]
  PROVE  SubSeq(path, 1, 1) = <<Root>> /\ InPlace(path, at, 1)
<1> PICK q : q = SubSeq(path, 1, 1)
  OBVIOUS
<1>1. Len(q) = 1
  <2>1. 1 \in 1..Len(path)
    BY LenProperties
  <2> QED
    BY <2>1, Ancestor
<1>2. q = <<Root>>
  BY <1>1 DEF IInv, Tree
<1>3. /\ tasks[q].q = 1 /\ tasks[q].level = 0
      /\ tasks[q].max = query[1].maxDepth /\ tasks[q].del = query[1].getDeleted
  BY <1>1 DEF Heard, Placed
<1>4. LastCollected(at, 1, 1) /\ 1 \in 1..1
  BY DEF LastCollected
<1>5. /\ tasks[q].q = at[1].q /\ tasks[q].level = at[1].level
      /\ tasks[q].max = query[at[1].q].maxDepth
  BY <1>3
<1> QED
  BY <1>2, <1>3, <1>4, <1>5 DEF InPlace

\* From one place of a path to the next: each follows from the link.
LEMMA InPlaceNext ==
  ASSUME IInv, Heard, NEW path \in Seq(Ids), NEW n \in Nat, n = Len(path), NEW i \in 2..n,
         NEW at, NEW r \in rows, IsLink(r, path[i - 1], path[i]),
         at[i] = Below(at[i - 1], r.p),
         SubSeq(path, 1, i) \in DOMAIN tasks, InPlace(path, at, i - 1)
  PROVE  InPlace(path, at, i) /\ (at[i].q # 0 \/ at[i].level <= DepthAt(at, i))
<1> PICK c, up, t, u : /\ c = SubSeq(path, 1, i) /\ up = SubSeq(path, 1, i - 1)
                       /\ t = tasks[c] /\ u = tasks[up]
  OBVIOUS
<1>1. i \in 1..n /\ i - 1 \in 1..n /\ i - 1 \in Nat /\ i > 1 /\ i \in Nat
  OBVIOUS
<1>2. Len(c) = i /\ Front(c) = up /\ Last(c) = path[i] /\ Last(up) = path[i - 1]
  BY <1>1, Ancestor, AncestorLast
<1>3. Len(c) > 1
  BY <1>1, <1>2
<1>4. up \in DOMAIN tasks
  BY <1>2, <1>3, ParentStarted
<1>5. PICK l \in rows : /\ l.s = path[i - 1] /\ l.o = path[i]
                        /\ Follows(u, l) /\ ToldBy(t, u, l.p)
  <2>1. Placed(c)
    BY DEF Heard
  <2>2. \E l \in rows : /\ l.s = Last(Front(c)) /\ l.o = Last(c)
                        /\ Follows(tasks[Front(c)], l)
                        /\ ToldBy(tasks[c], tasks[Front(c)], l.p)
    BY <1>3, <2>1 DEF Placed
  <2> QED
    BY <1>2, <2>2
<1>6. l = r
  <2>1. l.o # None /\ l.p # "_parent_"
    BY <1>5 DEF Follows
  <2> QED
    BY <1>5, <2>1 DEF Heard, OneLinkEach, IsLink
<1>7. Follows(u, r) /\ ToldBy(t, u, r.p)
  BY <1>5, <1>6
<1>8. /\ u.q = at[i - 1].q /\ u.level = at[i - 1].level /\ u.del = query[1].getDeleted
  BY DEF InPlace
<1>9. PICK j \in 1..(i - 1) : LastCollected(at, i - 1, j) /\ u.max = query[at[j].q].maxDepth
  BY DEF InPlace
<1>10. CASE Collected(u.q, r.p) # {}
  <2>1. /\ t.q \in Collected(u.q, r.p) /\ t.level = 0 /\ t.max = query[t.q].maxDepth
        /\ t.del = u.del
    BY <1>7, <1>10 DEF ToldBy
  <2>2. PICK k \in Collected(u.q, r.p) : at[i] = [q |-> k, level |-> 0]
    BY <1>8, <1>10 DEF Below
  <2>3. k = t.q
    BY <2>1, <2>2 DEF Collected, Heard
  <2>4. at[i].q = t.q /\ at[i].level = t.level
    BY <2>1, <2>2, <2>3
  <2>5. at[i].q # 0
    <3>1. DOMAIN query = 1..Len(query) /\ Len(query) \in Nat
      BY LenProperties DEF IInv, Shape
    <3>2. t.q \in DOMAIN query
      BY <2>1 DEF Collected
    <3> QED
      BY <2>4, <3>1, <3>2
  <2>6. LastCollected(at, i, i) /\ i \in 1..i
    BY <1>1, <2>5 DEF LastCollected
  <2>7. InPlace(path, at, i)
    BY <1>8, <2>1, <2>4, <2>6 DEF InPlace
  <2> QED
    BY <2>5, <2>7
<1>11. CASE Collected(u.q, r.p) = {}
  <2>1. t.q = 0 /\ t.level = u.level + 1 /\ t.max = u.max /\ t.del = u.del
    BY <1>7, <1>11 DEF ToldBy
  <2>2. at[i] = [q |-> 0, level |-> u.level + 1]
    BY <1>8, <1>11 DEF Below
  <2>3. LastCollected(at, i, j) /\ j \in 1..i
    <3>1. \A l1 \in (j + 1)..i : l1 \in (j + 1)..(i - 1) \/ l1 = i
      BY <1>1
    <3> QED
      BY <1>1, <1>9, <2>2, <3>1 DEF LastCollected
  <2>4. InPlace(path, at, i)
    BY <1>8, <1>9, <2>1, <2>2, <2>3 DEF InPlace
  <2>5. DepthAt(at, i) = u.max
    BY <1>1, <1>9, <2>3, DepthAtGives
  <2>6. u.level \in Nat /\ u.max \in Nat
    <3>1. u \in Tasks
      BY <1>4, TaskFacts
    <3> QED
      BY <3>1, QueryConstants DEF Tasks
  <2>7. u.level < u.max
    BY <1>7, <1>11 DEF Follows
  <2> QED
    BY <2>2, <2>4, <2>5, <2>6, <2>7
<1> QED
  BY <1>10, <1>11

\* What a path's goroutines are told, when all were started.
LEMMA AllInPlace ==
  ASSUME IInv, Heard, NEW path \in Seq(Ids), NEW n \in Nat \ {0}, n = Len(path),
         NEW L \in SUBSET rows, NEW at, at = NodesAlong(path, KindsAlong(path, L)),
         \A i \in 2..n : \E r \in L : IsLink(r, path[i - 1], path[i]),
         \A i \in 1..n : SubSeq(path, 1, i) \in DOMAIN tasks
  PROVE  /\ \A i \in 1..n : InPlace(path, at, i)
         /\ \A i \in 2..n : at[i].q # 0 \/ at[i].level <= DepthAt(at, i)
<1> PICK kinds : kinds = KindsAlong(path, L)
  OBVIOUS
<1>1. at[1] = [q |-> 1, level |-> 0] /\ \A i \in 2..n : at[i] = Below(at[i - 1], kinds[i])
  BY NodesAlongGives
<1>0. LinksAlong(path, n, L, kinds)
  <2>1. HasLinks(path, n, L) /\ Len(path) = n
    BY DEF HasLinks
  <2> QED
    BY <2>1, KindsAlongGives
<1>2. InPlace(path, at, 1)
  <2>1. 1 \in 1..n /\ Len(path) >= 1
    OBVIOUS
  <2> QED
    BY <1>1, <2>1, InPlaceFirst
<1>3. ASSUME NEW i \in 2..n, InPlace(path, at, i - 1)
      PROVE  InPlace(path, at, i) /\ (at[i].q # 0 \/ at[i].level <= DepthAt(at, i))
  <2>1. PICK r \in L : IsLink(r, path[i - 1], path[i]) /\ r.p = kinds[i]
    BY <1>0 DEF LinksAlong
  <2>2. r \in rows /\ i \in 1..n /\ at[i] = Below(at[i - 1], r.p)
    BY <1>1, <2>1
  <2>3. SubSeq(path, 1, i) \in DOMAIN tasks
    BY <2>2
  <2> QED
    BY <1>3, <2>1, <2>2, <2>3, InPlaceNext
<1> DEFINE Wrong == {i \in 1..n : ~InPlace(path, at, i)}
<1>4. Wrong = {}
  <2> SUFFICES ASSUME Wrong # {} PROVE FALSE
    OBVIOUS
  <2>1. Wrong \in SUBSET Nat
    OBVIOUS
  <2>2. PICK i \in Wrong : \A j \in Wrong : i <= j
    <3> HIDE DEF Wrong
    <3> QED
      BY <2>1, Smallest
  <2>3. i \in 1..n /\ ~InPlace(path, at, i)
    BY <2>2
  <2>4. i # 1
    BY <1>2, <2>3
  <2>5. i \in 2..n /\ i - 1 \in 1..n /\ ~(i <= i - 1)
    BY <2>3, <2>4
  <2>6. InPlace(path, at, i - 1)
    BY <2>2, <2>5
  <2> QED
    BY <1>3, <2>3, <2>5, <2>6
<1>5. \A i \in 1..n : InPlace(path, at, i)
  BY <1>4
<1>6. \A i \in 2..n : i - 1 \in 1..n
  OBVIOUS
<1> QED
  BY <1>3, <1>5, <1>6

\* What is in the root's result is there with all its ancestors.
LEMMA AncestorsReturned ==
  ASSUME IInv, Heard, phase = "returned", result # Err, NEW path \in result
  PROVE  /\ path \in Seq(Ids) /\ Len(path) \in Nat \ {0}
         /\ \A i \in 1..Len(path) :
              /\ SubSeq(path, 1, i) \in DOMAIN tasks
              /\ Kept(SubSeq(path, 1, i))
              /\ ReadAll(SubSeq(path, 1, i))
<1> PICK root : root = <<Root>>
  OBVIOUS
<1>1. root \in DOMAIN tasks /\ Len(root) = 1 /\ result = tasks[root].out
  BY DEF IInv, Tree, Returned
<1>2. \A p \in result : /\ p \in DOMAIN tasks /\ Kept(p)
                        /\ p # root => Front(p) \in result
  BY <1>1 DEF Heard, Merged
<1>3. PICK n \in Nat \ {0} : n = Len(path)
  <2>1. Len(path) \in Nat /\ Len(path) >= 1
    BY <1>2, TaskFacts
  <2> QED
    BY <2>1
<1>4. path \in Seq(Ids)
  BY <1>2, TaskFacts
<1> DEFINE Lost == {k \in 0..(n - 1) : SubSeq(path, 1, n - k) \notin result}
<1>5. Lost = {}
  <2> SUFFICES ASSUME Lost # {} PROVE FALSE
    OBVIOUS
  <2>1. Lost \in SUBSET Nat
    OBVIOUS
  <2>2. PICK k \in Lost : \A j \in Lost : k <= j
    <3> HIDE DEF Lost
    <3> QED
      BY <2>1, Smallest
  <2>3. k \in 0..(n - 1) /\ SubSeq(path, 1, n - k) \notin result
    BY <2>2
  <2>4. k # 0
    <3>1. SubSeq(path, 1, n) = path /\ n - 0 = n
      BY <1>3, <1>4, SubSeqFull
    <3> QED
      BY <2>3, <3>1
  <2>5. PICK i : i = n - k + 1
    OBVIOUS
  <2>6. /\ k - 1 \in 0..(n - 1) /\ ~(k <= k - 1) /\ n - (k - 1) = i
        /\ i \in 1..n /\ i > 1 /\ i - 1 = n - k
    BY <2>3, <2>4, <2>5
  <2>7. SubSeq(path, 1, i) \in result
    BY <2>2, <2>6
  <2>8. Len(SubSeq(path, 1, i)) = i /\ Front(SubSeq(path, 1, i)) = SubSeq(path, 1, i - 1)
    BY <1>3, <1>4, <2>6, Ancestor
  <2>9. SubSeq(path, 1, i) # root
    <3>1. i # 1
      BY <2>6
    <3> QED
      BY <1>1, <2>8, <3>1
  <2> QED
    BY <1>2, <2>3, <2>6, <2>7, <2>8, <2>9
<1>6. ASSUME NEW i \in 1..n
      PROVE  SubSeq(path, 1, i) \in result
  <2>1. n - i \in 0..(n - 1) /\ n - (n - i) = i
    OBVIOUS
  <2> QED
    BY <1>5, <2>1
<1>7. \A i \in 1..n : /\ SubSeq(path, 1, i) \in DOMAIN tasks
                      /\ Kept(SubSeq(path, 1, i)) /\ ReadAll(SubSeq(path, 1, i))
  BY <1>2, <1>6 DEF Heard
<1> QED
  BY <1>3, <1>4, <1>7

\* Nothing is returned that was deleted or filtered, or is not linked.
LEMMA ResultVisible ==
  ASSUME IInv, Heard, phase = "returned", result # Err, NEW path \in result
  PROVE  Visible(path, rows, before, RootDeletedOk)
<1> PICK n \in Nat \ {0} : n = Len(path)
  BY AncestorsReturned
<1> PICK at : at = NodesAlong(path, KindsAlong(path, rows))
  OBVIOUS
<1>1. path \in Seq(Ids)
  BY AncestorsReturned
<1>2. \A i \in 1..n : /\ SubSeq(path, 1, i) \in DOMAIN tasks
                      /\ Kept(SubSeq(path, 1, i)) /\ ReadAll(SubSeq(path, 1, i))
                      /\ Last(SubSeq(path, 1, i)) = path[i]
                      /\ Len(SubSeq(path, 1, i)) = i
  BY <1>1, AncestorsReturned, Ancestor, AncestorLast
<1>3. path[1] = Root
  <2>1. 1 \in 1..n
    OBVIOUS
  <2>2. SubSeq(path, 1, 1) = <<Root>>
    BY <1>2, <2>1 DEF IInv, Tree
  <2>3. Last(<<Root>>) = Root
    BY DEF Last
  <2> QED
    BY <1>2, <2>1, <2>2, <2>3
<1>4. \A i \in 1..n : \E r \in rows : r.s = path[i]
  BY <1>2 DEF ReadAll
<1>5. ASSUME NEW i \in 2..n
      PROVE  \E r \in rows : IsLink(r, path[i - 1], path[i])
  <2> PICK c, up : c = SubSeq(path, 1, i) /\ up = SubSeq(path, 1, i - 1)
    OBVIOUS
  <2>1. i \in 1..n /\ i - 1 \in 1..n /\ i > 1
    OBVIOUS
  <2>2. Len(c) > 1 /\ Front(c) = up /\ Last(c) = path[i] /\ Last(up) = path[i - 1]
    BY <1>1, <1>2, <2>1, Ancestor
  <2>3. Placed(c)
    BY <1>2, <2>1 DEF Heard
  <2>4. PICK r \in rows : r.s = Last(Front(c)) /\ r.o = Last(c) /\ Follows(tasks[Front(c)], r)
    BY <2>2, <2>3 DEF Placed
  <2> QED
    BY <2>2, <2>4 DEF Follows, IsLink
<1>6. Linked(path, rows)
  BY <1>3, <1>4, <1>5 DEF Linked
<1>7. /\ \A i \in 1..n : InPlace(path, at, i)
      /\ \A i \in 2..n : at[i].q # 0 \/ at[i].level <= DepthAt(at, i)
  BY <1>1, <1>2, <1>5, AllInPlace
<1>8. ASSUME NEW i \in 1..n, NEW r \in before, r.s = path[i]
      PROVE  /\ r.p = "_delete_" => query[1].getDeleted
             /\ r.p # "_parent_" => r.p \notin FilterOf(at[i].q)
  <2> PICK c : c = SubSeq(path, 1, i)
    OBVIOUS
  <2>1. ~Discards(tasks[c], r)
    BY <1>2, <1>8 DEF ReadAll
  <2>2. tasks[c].q = at[i].q /\ tasks[c].del = query[1].getDeleted
    BY <1>7 DEF InPlace
  <2> QED
    BY <2>1, <2>2 DEF Discards
<1> QED
  BY <1>6, <1>7, <1>8 DEF Visible, RootDeletedOk

\* An entity that nothing deletes or filters was kept by its goroutine.
LEMMA SurvivorKept ==
  ASSUME IInv, Heard, ~failed, NEW c \in DOMAIN tasks, tasks[c].pc # "get",
         \E r \in before : r.s = Last(c),
         \A r \in rows : r.s = Last(c) => ~Discards(tasks[c], r)
  PROVE  Kept(c)
BY DEF Heard, ReadAll

\* Nothing is missing from the result that was linked when Run was called and
\* that nothing has deleted or filtered since.
LEMMA VisibleReturned ==
  ASSUME IInv, Heard, phase = "returned", result # Err, ~failed,
         NEW path \in Seq(Ids), NEW n \in Nat \ {0}, n = Len(path),
         Visible(path, before, rows, RootDeletedOk)
  PROVE  path \in result
<1> PICK kinds, at : /\ kinds = KindsAlong(path, before)
                     /\ at = NodesAlong(path, kinds)
  OBVIOUS
<1> PICK root : root = <<Root>>
  OBVIOUS
<1>1. /\ path[1] = Root
      /\ \A i \in 1..n : \E r \in before : r.s = path[i]
      /\ \A i \in 2..n : \E r \in before : IsLink(r, path[i - 1], path[i])
      /\ \A i \in 2..n : at[i].q # 0 \/ at[i].level <= DepthAt(at, i)
      /\ \A i \in 1..n : \A r \in rows : r.s = path[i] =>
            /\ r.p = "_delete_" => query[1].getDeleted
            /\ r.p # "_parent_" => r.p \notin FilterOf(at[i].q)
  BY DEF Visible, Linked, RootDeletedOk
<1>0. LinksAlong(path, n, before, kinds)
  <2>1. HasLinks(path, n, before) /\ Len(path) = n
    BY <1>1 DEF HasLinks
  <2> QED
    BY <2>1, KindsAlongGives
<1>2. /\ before \subseteq rows /\ root \in DOMAIN tasks /\ root \in Seq(Ids)
      /\ tasks[root].pc = "done" /\ result = tasks[root].out
  <2>1. root \in DOMAIN tasks
    BY DEF IInv, Tree
  <2> QED
    BY <2>1, TaskFacts DEF IInv, Shape, Returned
<1>3. at[1] = [q |-> 1, level |-> 0] /\ \A i \in 2..n : at[i] = Below(at[i - 1], kinds[i])
  BY NodesAlongGives
<1>4. \A i \in 1..n : /\ SubSeq(path, 1, i) \in Seq(Ids) /\ Len(SubSeq(path, 1, i)) = i
                      /\ Last(SubSeq(path, 1, i)) = path[i]
                      /\ i > 1 => /\ Front(SubSeq(path, 1, i)) = SubSeq(path, 1, i - 1)
                                  /\ Append(SubSeq(path, 1, i - 1), path[i])
                                       = SubSeq(path, 1, i)
  BY Ancestor, AncestorLast
<1> DEFINE Reached(i) == /\ SubSeq(path, 1, i) \in DOMAIN tasks
                         /\ tasks[SubSeq(path, 1, i)].pc = "done"
                         /\ Kept(SubSeq(path, 1, i))
                         /\ InPlace(path, at, i)
<1>5. ASSUME NEW i \in 1..n, SubSeq(path, 1, i) \in DOMAIN tasks,
             tasks[SubSeq(path, 1, i)].pc = "done", InPlace(path, at, i)
      PROVE  Reached(i)
  <2> PICK c : c = SubSeq(path, 1, i)
    OBVIOUS
  <2>1. tasks[c].q = at[i].q /\ tasks[c].del = query[1].getDeleted
    BY <1>5 DEF InPlace
  <2>2. \A r \in rows : r.s = Last(c) => ~Discards(tasks[c], r)
    BY <1>1, <1>4, <2>1 DEF Discards
  <2>3. \E r \in before : r.s = Last(c)
    BY <1>1, <1>4
  <2>4. c \in DOMAIN tasks /\ tasks[c].pc # "get"
    BY <1>5
  <2>5. Kept(c)
    BY <2>2, <2>3, <2>4, SurvivorKept
  <2> QED
    BY <1>5, <2>5
<1>6. Reached(1)
  <2>1. 1 \in 1..n /\ Len(path) >= 1
    OBVIOUS
  <2>2. SubSeq(path, 1, 1) = root
    <3>1. Len(SubSeq(path, 1, 1)) = 1 /\ Last(SubSeq(path, 1, 1)) = Root
          /\ SubSeq(path, 1, 1) \in Seq(Ids)
      BY <1>1, <1>4, <2>1
    <3>2. Len(root) = 1
      OBVIOUS
    <3>3. SubSeq(path, 1, 1)[1] = Root /\ root[1] = Root
      BY <3>1 DEF Last
    <3>4. \A j \in 1..1 : SubSeq(path, 1, 1)[j] = root[j]
      BY <3>3
    <3> QED
      BY <1>2, <3>1, <3>2, <3>4, SeqEqual
  <2>3. InPlace(path, at, 1)
    BY <1>2, <1>3, <2>1, <2>2, InPlaceFirst
  <2> QED
    BY <1>2, <1>5, <2>1, <2>2, <2>3
<1>7. ASSUME NEW i \in 2..n, Reached(i - 1)
      PROVE  Reached(i)
  <2> PICK c, up : c = SubSeq(path, 1, i) /\ up = SubSeq(path, 1, i - 1)
    OBVIOUS
  <2> PICK u : u = tasks[up]
    OBVIOUS
  <2>1. i \in 1..n /\ i - 1 \in 1..n /\ i > 1 /\ i - 1 \in Nat
    OBVIOUS
  <2>2. /\ up \in DOMAIN tasks /\ u.pc = "done" /\ Kept(up) /\ InPlace(path, at, i - 1)
        /\ Last(up) = path[i - 1] /\ Last(c) = path[i] /\ Front(c) = up
        /\ Append(up, path[i]) = c
    BY <1>4, <1>7, <2>1
  <2>3. PICK r \in before : IsLink(r, path[i - 1], path[i]) /\ r.p = kinds[i]
    BY <1>0 DEF LinksAlong
  <2>4. r \in rows /\ at[i] = Below(at[i - 1], r.p) /\ r.s = Last(up) /\ r.o = path[i]
    BY <1>2, <1>3, <2>2, <2>3 DEF IsLink
  <2>5. u.q = at[i - 1].q /\ u.level = at[i - 1].level
    BY <2>2 DEF InPlace
  <2>6. Collected(u.q, r.p) # {} \/ u.level < u.max
    <3> SUFFICES ASSUME Collected(u.q, r.p) = {} PROVE u.level < u.max
      OBVIOUS
    <3>1. at[i] = [q |-> 0, level |-> u.level + 1]
      BY <2>4, <2>5 DEF Below
    <3>2. PICK j \in 1..(i - 1) : LastCollected(at, i - 1, j)
                                  /\ u.max = query[at[j].q].maxDepth
      BY <2>2 DEF InPlace
    <3>3. LastCollected(at, i, j)
      <4>1. \A l \in (j + 1)..i : l \in (j + 1)..(i - 1) \/ l = i
        BY <2>1
      <4> QED
        BY <2>1, <3>1, <3>2, <4>1 DEF LastCollected
    <3>4. DepthAt(at, i) = u.max
      BY <2>1, <3>2, <3>3, DepthAtGives
    <3>5. u.level \in Nat /\ u.max \in Nat
      <4>1. u \in Tasks
        BY <2>2, TaskFacts
      <4> QED
        BY <4>1, QueryConstants DEF Tasks
    <3>6. at[i].q = 0 /\ at[i].level = u.level + 1
      BY <3>1
    <3>7. u.level + 1 <= u.max
      BY <1>1, <3>4, <3>6
    <3> QED
      BY <3>5, <3>7
  <2>7. r.o # None
    <3>1. PICK l \in before : l.s = path[i]
      BY <1>1, <2>1
    <3>2. \A S \in Stores \cup Batches : \A l1 \in S : l1.s # None
      BY QueryConstants DEF IsRow
    <3>3. l \in UNION (Stores \cup Batches)
      BY <1>2, <3>1 DEF IInv, Shape
    <3> QED
      BY <2>4, <3>1, <3>2, <3>3
  <2>8. Follows(u, r)
    BY <2>3, <2>6, <2>7 DEF Follows, IsLink
  <2>9. c \in DOMAIN tasks
    <3>1. ReadAll(up)
      BY <2>2 DEF Heard
    <3> QED
      BY <2>2, <2>4, <2>8, <3>1 DEF ReadAll
  <2>10. tasks[c].pc = "done"
    <3>1. u.out \notin {{}, Err}
      BY <2>2, TaskFacts DEF Kept, Err
    <3>2. Pending(up) = {}
      BY <2>2, <3>1, TaskFacts DEF Answered
    <3>3. path[i] \in Ids
      BY <2>1, ElementOfSeq
    <3> QED
      BY <2>2, <2>9, <3>2, <3>3 DEF Pending
  <2>11. InPlace(path, at, i)
    BY <2>2, <2>3, <2>4, <2>9, InPlaceNext
  <2> QED
    BY <1>5, <2>1, <2>9, <2>10, <2>11
<1> HIDE DEF Reached
<1> DEFINE Unreached == {i \in 1..n : ~Reached(i)}
<1>8. Unreached = {}
  <2> SUFFICES ASSUME Unreached # {} PROVE FALSE
    OBVIOUS
  <2>1. Unreached \in SUBSET Nat
    OBVIOUS
  <2>2. PICK i \in Unreached : \A j \in Unreached : i <= j
    <3> HIDE DEF Unreached
    <3> QED
      BY <2>1, Smallest
  <2>3. i \in 1..n /\ ~Reached(i)
    BY <2>2
  <2>4. i # 1
    BY <1>6, <2>3
  <2>5. i \in 2..n /\ i - 1 \in 1..n /\ ~(i <= i - 1)
    BY <2>3, <2>4
  <2>6. Reached(i - 1)
    BY <2>2, <2>5
  <2> QED
    BY <1>7, <2>3, <2>5, <2>6
<1>9. \A i \in 1..n : /\ SubSeq(path, 1, i) \in DOMAIN tasks
                      /\ tasks[SubSeq(path, 1, i)].pc = "done"
                      /\ Kept(SubSeq(path, 1, i))
  BY <1>8 DEF Reached
<1> DEFINE Lost == {k \in 0..(n - 1) : path \notin tasks[SubSeq(path, 1, n - k)].out}
<1>10. Lost = {}
  <2> SUFFICES ASSUME Lost # {} PROVE FALSE
    OBVIOUS
  <2>1. Lost \in SUBSET Nat
    OBVIOUS
  <2>2. PICK k \in Lost : \A j \in Lost : k <= j
    <3> HIDE DEF Lost
    <3> QED
      BY <2>1, Smallest
  <2>3. k \in 0..(n - 1) /\ path \notin tasks[SubSeq(path, 1, n - k)].out
    BY <2>2
  <2>4. k # 0
    <3>1. SubSeq(path, 1, n) = path /\ n - 0 = n /\ n \in 1..n
      BY SubSeqFull
    <3>2. path \in tasks[path].out
      BY <1>9, <3>1 DEF Kept
    <3> QED
      BY <2>3, <3>1, <3>2
  <2>5. PICK i : i = n - k + 1
    OBVIOUS
  <2>6. /\ k - 1 \in 0..(n - 1) /\ ~(k <= k - 1) /\ n - (k - 1) = i
        /\ i \in 1..n /\ i > 1 /\ i - 1 = n - k
    BY <2>3, <2>4, <2>5
  <2>7. path \in tasks[SubSeq(path, 1, i)].out
    BY <2>2, <2>6
  <2> PICK c, up : c = SubSeq(path, 1, i) /\ up = SubSeq(path, 1, i - 1)
    OBVIOUS
  <2>8. Len(c) > 1 /\ Front(c) = up /\ c \in DOMAIN tasks /\ tasks[c].pc = "done"
    BY <1>4, <1>9, <2>6
  <2>9. Merged(c)
    BY <2>8 DEF Heard
  <2>10. tasks[c].out \subseteq tasks[up].out
    BY <2>8, <2>9 DEF Merged
  <2> QED
    BY <2>3, <2>6, <2>7, <2>10
<1>11. path \in tasks[SubSeq(path, 1, 1)].out
  <2>1. n - 1 \in 0..(n - 1) /\ n - (n - 1) = 1
    OBVIOUS
  <2> QED
    BY <1>10, <2>1
<1>12. SubSeq(path, 1, 1) = root
  <2>1. 1 \in 1..n
    OBVIOUS
  <2> QED
    BY <1>4, <1>9, <2>1 DEF IInv, Tree
<1> QED
  BY <1>2, <1>11, <1>12

\* A path that was linked is a path of ids, whatever it was made of.
LEMMA LinkedPath ==
  ASSUME IInv, phase = "returned", NEW S, NEW path \in Seq(S), Linked(path, before)
  PROVE  path \in Seq(Ids)
<1> PICK n \in Nat : n = Len(path)
  BY LenProperties
<1>1. ASSUME NEW i \in 1..n
      PROVE  path[i] \in Ids
  <2>1. CASE i = 1
    BY <2>1 DEF Linked, Ids
  <2>2. CASE i # 1
    <3>1. i \in 2..n
      BY <2>2
    <3>2. PICK r \in before : r.o = path[i]
      BY <3>1 DEF Linked, IsLink
    <3>3. r \in UNION (Stores \cup Batches)
      BY DEF IInv, Shape
    <3> QED
      BY <3>2, <3>3 DEF Ids
  <2> QED
    BY <2>1, <2>2
<1> QED
  BY <1>1

\* What Run returns lies between the query's meaning when it was called and its
\* meaning now, for paths of every length.
EveryPathSandwiched ==
  phase = "returned" /\ result # Err =>
    \A path \in Seq(Subjects) \ {<<>>} : Sandwiched(path)

LEMMA SandwichFollows == IInv /\ Heard => EveryPathSandwiched
<1> SUFFICES ASSUME IInv, Heard, phase = "returned", result # Err,
                    NEW path \in Seq(Subjects), path # <<>>
             PROVE  Sandwiched(path)
  BY DEF EveryPathSandwiched
<1>1. path \in result => Visible(path, rows, before, RootDeletedOk)
  BY ResultVisible
<1>2. ASSUME ~failed, Visible(path, before, rows, RootDeletedOk)
      PROVE  path \in result
  <2>1. path \in Seq(Ids)
    BY <1>2, LinkedPath DEF Visible
  <2>2. PICK n \in Nat \ {0} : n = Len(path)
    BY LenProperties, EmptySeq
  <2> QED
    BY <1>2, <2>1, <2>2, VisibleReturned
<1> QED
  BY <1>1, <1>2 DEF Sandwiched

LEMMA PathsAreSequences == EveryPathSandwiched => ResultSandwiched
<1> SUFFICES ASSUME NEW path \in Paths
             PROVE  path \in Seq(Subjects) \ {<<>>}
  BY DEF EveryPathSandwiched, ResultSandwiched
<1>1. PICK n \in 1..3 : path \in [1..n -> Subjects]
  BY DEF Paths
<1>2. n \in Nat /\ 1 \in 1..n
  OBVIOUS
<1> QED
  BY <1>1, <1>2

\* However the goroutines and the commits of other clients interleave, and
\* whatever the store and the query, Run's result is sandwiched: for paths of
\* every length, and so for those of the runs.
THEOREM SandwichedAnyLength == Spec => []EveryPathSandwiched
BY InvariantHeard, SandwichFollows, PTL

\* The property of the runs, for every store, query and interleaving: Run's
\* result lies between what it could read when it was called and what it can
\* read now.
THEOREM BetweenReadings == Spec => []ResultSandwiched
BY SandwichedAnyLength, PathsAreSequences, PTL

----------------------------------------------------------------------------
(* No goroutine of a Run waits in vain. *)

\* Goroutines are no deeper than so many levels, and the root's is not done
\* before Run has its result.
Deep(n) == \A path \in DOMAIN tasks : Len(path) <= n
Running ==
  /\ \E n \in Nat : Deep(n)
  /\ phase = "run" => tasks[<<Root>>].pc # "done"

\* A step that starts no goroutine and ends none but a child's.
LEMMA RunningKept ==
  ASSUME IInv, Running, DOMAIN tasks' = DOMAIN tasks,
         phase' = "run" => phase = "run" /\ tasks'[<<Root>>].pc # "done"
  PROVE  Running'
<1>1. PICK n \in Nat : Deep(n)
  BY DEF Running
<1>2. Deep(n)'
  BY <1>1 DEF Deep
<1> QED
  BY <1>2 DEF Running

\* A child is one level deeper.
LEMMA StartedDeep ==
  ASSUME IInv, NEW n \in Nat, Deep(n), NEW path \in DOMAIN tasks,
         NEW seen, NEW t2, Started(path, seen, t2)
  PROVE  Deep(n + 1)'
<1>1. SUFFICES ASSUME NEW p \in DOMAIN tasks' PROVE Len(p) <= n + 1
  BY DEF Deep
<1>2. CASE p \in DOMAIN tasks
  <2>1. Len(p) \in Nat /\ Len(p) <= n
    BY <1>2, TaskFacts DEF Deep
  <2> QED
    BY <2>1
<1>3. CASE p \notin DOMAIN tasks
  <2>1. PICK o \in Kids(tasks[path], seen) : p = Append(path, o)
    BY <1>3 DEF Started
  <2>2. o \in Ids
    BY <2>1 DEF Started
  <2>3. path \in Seq(Ids) /\ Len(path) \in Nat /\ Len(path) <= n
    BY TaskFacts DEF Deep
  <2>4. Len(p) = Len(path) + 1
    BY <2>1, <2>2, <2>3, ChildPath
  <2> QED
    BY <2>3, <2>4
<1> QED
  BY <1>2, <1>3

LEMMA ContinueRunning ==
  ASSUME IInv, Running, NEW path \in DOMAIN tasks, tasks[path].pc = "get",
         NEW seen \in SUBSET rows, NEW t2 \in Tasks, t2.pc # "done",
         Continue(path, tasks[path], seen, t2), UNCHANGED <<phase, query>>
  PROVE  Running'
<1>1. Started(path, seen, t2)
  BY ContinueGives
<1>2. PICK n \in Nat : Deep(n)
  BY DEF Running
<1>3. n + 1 \in Nat /\ Deep(n + 1)'
  BY <1>1, <1>2, StartedDeep
<1>4. ASSUME phase = "run" PROVE tasks'[<<Root>>].pc # "done"
  <2>1. <<Root>> \in DOMAIN tasks /\ tasks[<<Root>>].pc # "done"
    BY <1>4 DEF Running, IInv, Tree
  <2> QED
    BY <1>1, <2>1 DEF Started
<1>5. (phase = "run" => tasks[<<Root>>].pc # "done")'
  BY <1>4
<1>6. (\E m \in Nat : Deep(m))'
  BY <1>3
<1> QED
  BY <1>5, <1>6 DEF Running

LEMMA GetEntityRunning ==
  ASSUME IInv, Running, NEW path \in DOMAIN tasks, GetEntity(path)
  PROVE  Running'
<1> PICK t : t = tasks[path]
  OBVIOUS
<1> PICK its : its = {r \in rows : r.s = Last(path)}
  OBVIOUS
<1> PICK stops : stops = {r \in its : Discards(t, r) \/ Breaks(t, r)}
  OBVIOUS
<1> PICK kids : kids = {r.o : r \in {r \in its : Follows(t, r)}}
  OBVIOUS
<1>1. t.pc = "get" /\ UNCHANGED <<phase, query>>
  BY DEF GetEntity
<1>2. \/ Continue(path, t, {}, Answers(t, {}))
      \/ Continue(path, t, its, Waits([t EXCEPT !.out = {path}], Cardinality(kids)))
      \/ \E stop \in stops : \E seen \in RowsSeen(its, stops, stop) :
           Continue(path, t, seen, Answers(t, IF Breaks(t, stop) THEN Err ELSE {}))
  BY DEF GetEntity
<1>3. t \in Tasks /\ path \in Seq(Ids) /\ \A k \in Seq(Ids) : {k} \in SUBSET Seq(Ids)
  BY TaskFacts
<1>4. {} \in SUBSET Seq(Ids) /\ Err \in SUBSET Seq(Ids) /\ {path} \in SUBSET Seq(Ids)
  BY <1>3, EmptySeq DEF Err
<1>5. CASE Continue(path, t, {}, Answers(t, {}))
  <2>1. PICK t2 \in Tasks : t2 = Answers(t, {}) /\ t2.pc = "send"
    BY <1>3, <1>4, AnswersGives
  <2>2. {} \in SUBSET rows /\ Continue(path, tasks[path], {}, t2)
    BY <1>5, <2>1
  <2> QED
    BY <1>1, <2>1, <2>2, ContinueRunning
<1>6. CASE Continue(path, t, its, Waits([t EXCEPT !.out = {path}], Cardinality(kids)))
  <2>1. its \in SUBSET rows
    OBVIOUS
  <2>2. PICK n \in Nat : n = Cardinality(kids)
    <3>1. IsFiniteSet(kids)
      <4> DEFINE links == {r \in its : Follows(t, r)}
      <4>1. IsFiniteSet(links)
        BY <2>1, FS_Subset DEF IInv, Shape
      <4>2. [r \in links |-> r.o] \in Surjection(links, kids)
        BY DEF Surjection
      <4> QED
        BY <4>1, <4>2, FS_Surjection
    <3> QED
      BY <3>1, FS_CardinalityType
  <2>3. PICK out \in SUBSET Seq(Ids) : out = {path}
    BY <1>4
  <2>4. PICK t1 \in Tasks : t1 = With(t, out)
    BY <1>3, WithGives
  <2>5. PICK t2 \in Tasks : t2 = Waits(t1, n) /\ t2.pc # "done"
    BY <2>4, WaitsGives
  <2>6. Continue(path, tasks[path], its, t2)
    BY <1>6, <2>2, <2>3, <2>4, <2>5 DEF With
  <2> QED
    BY <1>1, <2>1, <2>5, <2>6, ContinueRunning
<1>7. CASE \E stop \in stops : \E seen \in RowsSeen(its, stops, stop) :
             Continue(path, t, seen, Answers(t, IF Breaks(t, stop) THEN Err ELSE {}))
  <2>1. PICK stop \in stops : \E seen \in RowsSeen(its, stops, stop) :
           Continue(path, t, seen, Answers(t, IF Breaks(t, stop) THEN Err ELSE {}))
    BY <1>7
  <2>2. PICK seen \in RowsSeen(its, stops, stop) :
           Continue(path, t, seen, Answers(t, IF Breaks(t, stop) THEN Err ELSE {}))
    BY <2>1
  <2>3. seen \in SUBSET rows
    BY <2>2 DEF RowsSeen
  <2>4. PICK out \in SUBSET Seq(Ids) : out = IF Breaks(t, stop) THEN Err ELSE {}
    BY <1>4
  <2>5. PICK t2 \in Tasks : t2 = Answers(t, out) /\ t2.pc = "send"
    BY <1>3, AnswersGives
  <2>6. Continue(path, tasks[path], seen, t2)
    BY <2>2, <2>4, <2>5
  <2> QED
    BY <1>1, <2>3, <2>5, <2>6, ContinueRunning
<1> QED
  BY <1>2, <1>5, <1>6, <1>7

LEMMA StepRunning == IInv /\ Running /\ [Next]_vars => Running'
<1> SUFFICES ASSUME IInv, Running, [Next]_vars PROVE Running'
  OBVIOUS
<1> DEFINE Same == /\ DOMAIN tasks' = DOMAIN tasks
                   /\ phase' = "run" => phase = "run" /\ tasks'[<<Root>>].pc # "done"
<1>0. phase = "run" => <<Root>> \in DOMAIN tasks /\ tasks[<<Root>>].pc # "done"
  BY DEF Running, IInv, Tree
<1>1. CASE UNCHANGED vars
  <2> Same
    BY <1>0, <1>1 DEF vars
  <2> QED
    BY RunningKept
<1>2. CASE Build
  <2> Same
    BY <1>0, <1>2 DEF Build, Collect, UptoDepth, AllowDeleted, FilterOut, Building
  <2> QED
    BY RunningKept
<1>3. CASE Run
  <2>1. PICK t : tasks' = [path \in {<<Root>>} |-> t] /\ t.pc = "get"
    BY <1>3 DEF Run, Task
  <2>2. DOMAIN tasks' = {<<Root>>} /\ tasks'[<<Root>>].pc = "get"
    BY <2>1
  <2>3. Deep(1)'
    <3>0. Len(<<Root>>) = 1
      OBVIOUS
    <3>1. PICK root : root = <<Root>> /\ Len(root) = 1
      BY <3>0, Zenon
    <3>2. DOMAIN tasks' = {root} /\ Len(root) <= 1
      BY <2>2, <3>1
    <3> QED
      BY <3>2 DEF Deep
  <2>4. (\E n \in Nat : Deep(n))'
    BY <2>3
  <2> QED
    BY <2>2, <2>4 DEF Running
<1>4. CASE ReturnResult
  <2> Same
    BY <1>4 DEF ReturnResult
  <2> QED
    BY RunningKept
<1>5. CASE Commit
  <2> Same
    BY <1>0, <1>5 DEF Commit
  <2> QED
    BY RunningKept
<1>6. ASSUME NEW path \in DOMAIN tasks, GetEntityFails(path)
      PROVE  Running'
  <2>1. /\ tasks' = [tasks EXCEPT ![path] = Answers(@, Err)] /\ UNCHANGED phase
    BY <1>6 DEF GetEntityFails
  <2>2. Answers(tasks[path], Err).pc = "send"
    <3>1. tasks[path] \in Tasks
      BY TaskFacts
    <3>2. Err \in SUBSET Seq(Ids)
      BY EmptySeq DEF Err
    <3> QED
      BY <3>1, <3>2, AnswersGives
  <2> Same
    BY <1>0, <2>1, <2>2
  <2> QED
    BY RunningKept
<1>7. ASSUME NEW path \in DOMAIN tasks, DeliverResult(path)
      PROVE  Running'
  <2> PICK up : up = Front(path)
    OBVIOUS
  <2>1. /\ tasks' = [tasks EXCEPT ![path] = Done(@), ![up] = Hears(@, tasks[path].out)]
        /\ UNCHANGED phase
        /\ Len(path) > 1
    BY <1>7 DEF DeliverResult, Meet
  <2>2. path # <<Root>>
    <3>0. Len(<<Root>>) = 1
      OBVIOUS
    <3>1. PICK root : root = <<Root>> /\ Len(root) = 1
      BY <3>0, Zenon
    <3>2. PICK m \in Nat : m = Len(path)
      BY TaskFacts
    <3>3. m > 1
      BY <2>1, <3>2
    <3>4. m # 1
      BY <3>3
    <3>5. path # root
      BY <3>1, <3>2, <3>4
    <3> QED
      BY <3>1, <3>5
  <2>3. ASSUME phase = "run" PROVE tasks'[<<Root>>].pc # "done"
    <3>1. CASE up # <<Root>>
      BY <1>0, <2>1, <2>2, <2>3, <3>1
    <3>2. CASE up = <<Root>>
      <4>1. tasks[up].pc = "wait" /\ up \in DOMAIN tasks
        BY <1>0, <1>7, <2>3, <3>2 DEF DeliverResult, Meet
      <4>2. tasks[up] \in Tasks /\ tasks[up].wait > 0
        BY <4>1, TaskFacts DEF Waiting
      <4>3. tasks[path].out \in SUBSET Seq(Ids)
        BY TaskFacts
      <4>4. Hears(tasks[up], tasks[path].out).pc # "done"
        BY <4>2, <4>3, HearsGives
      <4>5. tasks'[up] = Hears(tasks[up], tasks[path].out)
        BY <2>1, <2>2, <3>2, <4>1
      <4> QED
        BY <3>2, <4>4, <4>5
    <3> QED
      BY <3>1, <3>2
  <2> Same
    BY <2>1, <2>3
  <2> QED
    BY RunningKept
<1>8. ASSUME NEW path \in DOMAIN tasks, DeliverError(path)
      PROVE  Running'
  <2> Same
    BY <1>8 DEF DeliverError
  <2> QED
    BY RunningKept
<1>9. ASSUME NEW path \in DOMAIN tasks, Goroutine(path)
      PROVE  Running'
  BY <1>6, <1>7, <1>8, <1>9, GetEntityRunning DEF Goroutine
<1> QED
  BY <1>1, <1>2, <1>3, <1>4, <1>5, <1>9 DEF Next

LEMMA InvariantRunning == Spec => [](IInv /\ Running)
<1>1. Init => Running
  <2> SUFFICES ASSUME Init PROVE Running
    OBVIOUS
  <2>1. DOMAIN tasks = {} /\ phase = "build"
    BY DEF Init
  <2>2. Deep(0)
    BY <2>1 DEF Deep
  <2> QED
    BY <2>1, <2>2 DEF Running
<1> QED
  BY <1>1, InitHolds, StepHolds, StepRunning, PTL DEF Spec

\* A goroutine that has read its rows can go through them, up to the earliest
\* of those that end the loop if there is one.
LEMMA ReaderGoesThrough ==
  ASSUME IInv, NEW path \in DOMAIN tasks, tasks[path].pc = "get"
  PROVE  CanGoThrough(path)
<1> PICK t : t = tasks[path]
  OBVIOUS
<1> PICK its : its = {r \in rows : r.s = Last(path)}
  OBVIOUS
<1> PICK stops : stops = {r \in its : Discards(t, r) \/ Breaks(t, r)}
  OBVIOUS
<1>1. ASSUME stops # {} PROVE \E stop \in stops : RowsSeen(its, stops, stop) # {}
  <2>1. \A r \in stops : r.ts \in Nat
    BY QueryConstants DEF IInv, Shape, IsRow
  <2> DEFINE times == {r.ts : r \in stops}
  <2>2. times \in SUBSET Nat /\ times # {}
    BY <1>1, <2>1
  <2>3. PICK ts \in times : \A other \in times : ts <= other
    BY <2>2, Smallest
  <2>4. PICK stop \in stops : stop.ts = ts
    BY <2>3
  <2>5. \A r \in stops : ~(r.ts < stop.ts)
    BY <2>1, <2>3, <2>4
  <2> DEFINE earlier == {r \in its : r.ts < stop.ts}
             equal   == {r \in its : r.ts = stop.ts} \ stops
  <2>6. RowsSeen(its, stops, stop) = {earlier \cup S : S \in SUBSET equal}
    BY <2>5 DEF RowsSeen
  <2>7. {} \in SUBSET equal
    OBVIOUS
  <2>8. earlier \cup {} \in RowsSeen(its, stops, stop)
    BY <2>6, <2>7
  <2> QED
    BY <2>8
<1>2. CanGoThrough(path) <=>
        t.pc = "get" /\ (stops = {} \/ \E stop \in stops : RowsSeen(its, stops, stop) # {})
  BY DEF CanGoThrough
<1> QED
  BY <1>1, <1>2

\* A goroutine that waits has a child it has not heard.
LEMMA WaiterHasChild ==
  ASSUME IInv, NEW path \in DOMAIN tasks, tasks[path].pc = "wait"
  PROVE  \E child \in DOMAIN tasks :
            /\ tasks[child].pc # "done"
            /\ Front(child) = path /\ Len(child) = Len(path) + 1
<1>1. IsFiniteSet(Pending(path)) /\ Cardinality(Pending(path)) > 0
  BY TaskFacts DEF Waiting
<1>2. Pending(path) # {}
  BY <1>1, FS_EmptySet
<1>3. PICK o \in Pending(path) : TRUE
  BY <1>2
<1>4. /\ o \in Ids /\ Append(path, o) \in DOMAIN tasks
      /\ tasks[Append(path, o)].pc # "done"
  BY DEF Pending
<1>5. Front(Append(path, o)) = path /\ Len(Append(path, o)) = Len(path) + 1
  BY <1>4, TaskFacts, ChildPath
<1> QED
  BY <1>4, <1>5

\* If the root's goroutine waits, of the deepest that wait one has a child that
\* does not wait and is not done: it can go on.
LEMMA NotStuck == IInv /\ Running => NeverStuck
<1> SUFFICES ASSUME IInv, Running, phase = "run", tasks[<<Root>>].pc # "send"
             PROVE  \E path \in DOMAIN tasks : CanGoThrough(path) \/ Meet(path)
  BY DEF NeverStuck, SomebodyCanGoOn
<1> DEFINE Waiters == {path \in DOMAIN tasks : tasks[path].pc = "wait"}
<1>1. <<Root>> \in DOMAIN tasks /\ tasks[<<Root>>].pc \in {"get", "wait"}
  BY TaskFacts DEF Running, IInv, Tree
<1>2. CASE tasks[<<Root>>].pc = "get"
  BY <1>1, <1>2, ReaderGoesThrough
<1>3. CASE tasks[<<Root>>].pc = "wait"
  <2>1. PICK n \in Nat : Deep(n)
    BY DEF Running
  <2> DEFINE Room == {n - Len(path) : path \in Waiters}
  <2>2. \A path \in Waiters : Len(path) \in Nat /\ Len(path) <= n
    BY <2>1, TaskFacts DEF Deep
  <2>3. Room \in SUBSET Nat /\ Room # {}
    BY <1>1, <1>3, <2>2
  <2>4. PICK least \in Room : \A room \in Room : least <= room
    BY <2>3, Smallest
  <2>5. PICK path \in Waiters : least = n - Len(path)
    BY <2>4
  <2>6. PICK child \in DOMAIN tasks : /\ tasks[child].pc # "done"
                                      /\ Front(child) = path
                                      /\ Len(child) = Len(path) + 1
    BY <2>5, WaiterHasChild
  <2>7. child \notin Waiters
    <3>1. SUFFICES ASSUME child \in Waiters PROVE FALSE
      OBVIOUS
    <3>2. n - Len(path) <= n - Len(child)
      BY <2>4, <2>5, <3>1
    <3> QED
      BY <2>2, <2>5, <2>6, <3>1, <3>2
  <2>8. tasks[child].pc \in {"get", "send"}
    BY <2>6, <2>7, TaskFacts
  <2>9. CASE tasks[child].pc = "get"
    BY <2>9, ReaderGoesThrough
  <2>10. CASE tasks[child].pc = "send"
    <3>1. Len(child) > 1
      BY <2>5, <2>6, TaskFacts
    <3> QED
      BY <2>5, <2>6, <2>10, <3>1 DEF Meet, Alive
  <2> QED
    BY <2>8, <2>9, <2>10
<1> QED
  BY <1>1, <1>2, <1>3

\* However the goroutines of a Run, the failures of their reads and the commits
\* of other clients interleave, no Run is stuck: somebody can go on until it
\* returns, whatever the store and the query.
THEOREM NoRunIsStuck == Spec => []NeverStuck
BY InvariantRunning, NotStuck, PTL
=============================================================================
