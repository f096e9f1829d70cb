----------------------------- MODULE EntityStore -----------------------------
(***************************************************************************)
(* What Execute promises of the store, whichever driver keeps the rows: an  *)
(* execution adds rows of its own only, each with an author, all at one     *)
(* timestamp, that hang on the entity it started from (each node of a tree  *)
(* may have an author of its own); it answers that it succeeded only when   *)
(* they are whole, and over a driver that writes in batches nobody ever     *)
(* sees a part of them.                                                     *)
(***************************************************************************)
EXTENDS Naturals

CONSTANTS
  Execs,   \* executions
  Nobody,  \* the source of an update nobody gave one
  Atomic   \* whether the driver writes in batches

VARIABLES
  rows,   \* the store; row.by is the execution that wrote it
  status  \* execution -> "none", "open", "ok" or "error"

vars == <<rows, status>>

Init ==
  /\ rows = {}
  /\ status = [x \in Execs |-> "none"]

By(x, R) == {r \in R : r.by = x}

\* Rows that hang together: all of one root or of entities linked in them.
HangTogether(R) ==
  \E root \in {r.s : r \in R} :
    \A r \in R : r.s = root \/ \E q \in R : q.p = "_child_" /\ q.o = r.s

\* Of two rows that link an entity and its child, one leads back where the
\* other comes from, in the same author's name.
Back(q, r) == q.s = r.o /\ q.o = r.s /\ q.src = r.src

\* What one execution may have in the store at any moment ...
Part(R) ==
  R = {} \/ /\ \A r \in R : r.src # Nobody
            /\ \A q, r \in R : q.ts = r.ts
            /\ HangTogether(R)

\* ... and once it is done: links go both ways.
Whole(R) ==
  /\ R # {} /\ Part(R)
  /\ \A r \in R : r.p = "_child_"  => \E q \in R : q.p = "_parent_" /\ Back(q, r)
  /\ \A r \in R : r.p = "_parent_" => \E q \in R : q.p = "_child_"  /\ Back(q, r)

Begin(x) ==
  /\ status[x] = "none"
  /\ status' = [status EXCEPT ![x] = "open"]
  /\ UNCHANGED rows

\* An open execution writes, answers, or both.
Advance(x) ==
  /\ status[x] = "open"
  /\ \E s \in {"open", "ok", "error"} : status' = [status EXCEPT ![x] = s]
  /\ rows \subseteq rows'
  /\ rows' \ rows \subseteq By(x, rows')
  /\ Part(By(x, rows'))
  /\ status'[x] = "ok" => Whole(By(x, rows'))
  /\ Atomic /\ By(x, rows') # {} =>
       /\ Whole(By(x, rows'))
       /\ By(x, rows) \in {{}, By(x, rows')}
       /\ status'[x] # "error"

Next == \E x \in Execs : Begin(x) \/ Advance(x)

Spec == Init /\ [][Next]_vars
=============================================================================
