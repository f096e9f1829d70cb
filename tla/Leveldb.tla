------------------------------- MODULE Leveldb -------------------------------
(***************************************************************************)
(* The leveldb driver (drivers/leveldb/leveldb.go).  The store is a map from *)
(* keys to instructions; the key of an instruction is its subject id, "_"   *)
(* and five random characters.  Commit first draws a key for every          *)
(* instruction, asking Has whether it is taken, and then writes all in one  *)
(* batch; several clients commit at once, so what Has answered may be old   *)
(* when the batch is written.  IsNew and GetEntity read by key prefix.       *)
(*                                                                         *)
(* An id is a sequence of characters, of which the application may choose   *)
(* any; the five random characters are one element of Suffixes.             *)
(***************************************************************************)
EXTENDS Naturals, Sequences, FiniteSets

CONSTANTS
  Clients,      \* goroutines that call Commit
  Ids,          \* entity ids
  Suffixes,     \* what UniqueString(5) returns
  Batches,      \* the subject ids of the instructions of a Commit, in order
  MaxTries,     \* 10 in the code
  MaxCommits,   \* bound: calls of Commit
  MaxFailures   \* bound: failures of Has, GobEncode and Write

ASSUME LeveldbConstants ==
  /\ Ids \subseteq Seq(STRING)
  /\ Batches \subseteq Seq(Ids)
  /\ MaxTries \in Nat \ {0}
  /\ MaxCommits \in Nat /\ MaxFailures \in Nat

VARIABLES
  db,         \* key -> instruction
  pc,         \* client -> "idle", "draw" or "write"
  its,        \* client -> the instructions of its Commit
  keys,       \* client -> the keys drawn so far
  tries,      \* client -> the loop variable m
  acked,      \* history: the keys and instructions of Commits that returned nil
  collided,   \* history: keys that stood after the last try, and keys drawn while
              \* a Commit under way had drawn them too
  commits, failures

call == <<its, keys, tries>>
vars == <<db, pc, call, acked, collided, commits, failures>>

Key(id, suffix) == Append(Append(id, "_"), suffix)
KeysFor(id) == {Key(id, suffix) : suffix \in Suffixes}
Keys == UNION {KeysFor(id) : id \in Ids}

\* An instruction: its subject, and the Commit and the place in it that tell
\* it from all others.
Instruction == [subject : Ids, commit : 1..MaxCommits, place : Nat]

Init ==
  /\ db = [k \in {} |-> <<>>]
  /\ pc = [c \in Clients |-> "idle"]
  /\ its = [c \in Clients |-> <<>>]
  /\ keys = [c \in Clients |-> <<>>]
  /\ tries = [c \in Clients |-> 0]
  /\ acked = {}
  /\ collided = {}
  /\ commits = 0
  /\ failures = 0

----------------------------------------------------------------------------
(* Commit. *)

Commit(c, batch) ==
  /\ pc[c] = "idle"
  /\ commits < MaxCommits
  /\ commits' = commits + 1
  /\ its' = [its EXCEPT ![c] = [i \in DOMAIN batch |->
                  [subject |-> batch[i], commit |-> commits', place |-> i]]]
  /\ keys' = [keys EXCEPT ![c] = <<>>]
  /\ tries' = [tries EXCEPT ![c] = 0]
  /\ pc' = [pc EXCEPT ![c] = IF batch = <<>> THEN "write" ELSE "draw"]
  /\ UNCHANGED <<db, acked, collided, failures>>

\* The instruction a key is being drawn for.
Current(c) == its[c][Len(keys[c]) + 1]

KeysOf(c) == {keys[c][i] : i \in DOMAIN keys[c]}

\* Drawn by a Commit that has not written its batch yet.
Drawn(k) == \E c \in Clients : pc[c] # "idle" /\ k \in KeysOf(c)

Take(c, key) ==
  /\ keys' = [keys EXCEPT ![c] = Append(@, key)]
  /\ tries' = [tries EXCEPT ![c] = 0]
  /\ pc' = [pc EXCEPT ![c] = IF Len(keys[c]) + 1 < Len(its[c]) THEN "draw" ELSE "write"]

\* A key that is taken, or that Has cannot tell about: the loop draws again,
\* but after the last try the key stands.
TryAgainUncounted(c, key) == UNCHANGED <<keys, tries, pc, collided>>
TryAgainOnceMore(c, key) ==
  \/ /\ tries[c] < MaxTries
     /\ tries' = [tries EXCEPT ![c] = @ + 1]
     /\ UNCHANGED <<keys, pc, collided>>
  \/ /\ tries[c] = MaxTries
     /\ Take(c, key)
     /\ collided' = collided \cup {key}
TryAgain(c, key) ==
  \/ /\ tries[c] + 1 < MaxTries
     /\ tries' = [tries EXCEPT ![c] = @ + 1]
     /\ UNCHANGED <<keys, pc, collided>>
  \/ /\ tries[c] + 1 = MaxTries
     /\ Take(c, key)
     /\ collided' = collided \cup {key}

TakenUnasked(key) == FALSE
Taken(key) == key \in DOMAIN db

\* Has answers.
Draw(c, suffix) ==
  LET key == Key(Current(c).subject, suffix)
  IN /\ pc[c] = "draw"
     /\ \/ Taken(key) /\ TryAgain(c, key)
        \/ /\ ~Taken(key)
           /\ Take(c, key)
           /\ collided' = IF Drawn(key) THEN collided \cup {key} ELSE collided
     /\ UNCHANGED <<db, its, acked, commits, failures>>

\* Has returns an error.
HasFails(c, suffix) ==
  /\ pc[c] = "draw"
  /\ failures < MaxFailures
  /\ failures' = failures + 1
  /\ TryAgain(c, Key(Current(c).subject, suffix))
  /\ UNCHANGED <<db, its, acked, commits>>

\* Every place of the batch is Put in order, so of two with one key the later
\* one stays.
Put(c, k) ==
  LET last == CHOOSE i \in DOMAIN keys[c] :
                keys[c][i] = k /\ \A j \in DOMAIN keys[c] : keys[c][j] = k => j <= i
  IN its[c][last]

Written(c) ==
  [k \in DOMAIN db \cup KeysOf(c) |-> IF k \in KeysOf(c) THEN Put(c, k) ELSE db[k]]

Write(c) ==
  /\ pc[c] = "write"
  /\ db' = Written(c)
  /\ acked' = acked \cup {[key |-> keys[c][i], it |-> its[c][i]] : i \in DOMAIN keys[c]}
  /\ pc' = [pc EXCEPT ![c] = "idle"]
  /\ UNCHANGED <<call, collided, commits, failures>>

\* GobEncode or Write returns an error, and so does Commit.
WriteFails(c) ==
  /\ pc[c] = "write"
  /\ failures < MaxFailures
  /\ failures' = failures + 1
  /\ pc' = [pc EXCEPT ![c] = "idle"]
  /\ UNCHANGED <<db, call, acked, collided, commits>>

Next ==
  \/ \E c \in Clients, batch \in Batches : Commit(c, batch)
  \/ \E c \in Clients, suffix \in Suffixes : Draw(c, suffix) \/ HasFails(c, suffix)
  \/ \E c \in Clients : Write(c) \/ WriteFails(c)

Spec == Init /\ [][Next]_vars

\* A goroutine inside Commit goes on.
Running(c) == Write(c) \/ WriteFails(c)
                \/ \E suffix \in Suffixes : Draw(c, suffix) \/ HasFails(c, suffix)
FairSpec == Spec /\ \A c \in Clients : WF_vars(Running(c))

----------------------------------------------------------------------------
(* Reading. *)

\* util.BytesPrefix.
HasPrefix(key, id) == Len(id) <= Len(key) /\ SubSeq(key, 1, Len(id)) = id

\* What GetEntity returns when every row is read and decoded.
GetEntity(id) == {db[k] : k \in {key \in DOMAIN db : HasPrefix(key, id)}}

\* IsNew when it can read; when it cannot, it answers FALSE.
IsNew(id) == {k \in DOMAIN db : HasPrefix(k, id)} = {}

----------------------------------------------------------------------------
(* Properties. *)

\* A call under way has drawn keys for the first instructions of its batch.
CallOK ==
  /\ pc \in [Clients -> {"idle", "draw", "write"}]
  /\ its \in [Clients -> Seq(Instruction)]
  /\ keys \in [Clients -> Seq(Keys)]
  /\ tries \in [Clients -> 0..(MaxTries - 1)]
  /\ \A c \in Clients :
       /\ Len(keys[c]) <= Len(its[c])
       /\ pc[c] = "draw" => Len(keys[c]) < Len(its[c])
       /\ pc[c] = "write" => Len(keys[c]) = Len(its[c])
       /\ \A i \in DOMAIN keys[c] : keys[c][i] \in KeysFor(its[c][i].subject)

\* Instructions are stored and acknowledged under keys of their subjects.
StoreOK ==
  /\ DOMAIN db \subseteq Keys
  /\ \A k \in DOMAIN db : db[k] \in Instruction
  /\ acked \subseteq [key : Keys, it : Instruction]
  /\ \A a \in acked : a.key \in KeysFor(a.it.subject)
  /\ collided \subseteq Keys
  /\ commits \in 0..MaxCommits
  /\ failures \in 0..MaxFailures

\* Every variable has its type.
TypeOK == CallOK /\ StoreOK

\* Once Commit has returned nil, GetEntity returns its instructions and IsNew
\* does not call their subject new, whatever other clients commit: an
\* instruction can be missing only when its key was drawn by two Commits, or
\* twice by one, at the same time, or stood after the last try.
AckedReadBack ==
  \A a \in acked : a.key \notin collided =>
    /\ a.it \in GetEntity(a.it.subject)
    /\ ~IsNew(a.it.subject)

\* What the proof of AckedReadBack needs besides: an uncollided key that has
\* been drawn is free and nobody else's; one that has been written is in place.
KeysFree ==
  \A c \in Clients : pc[c] # "idle" =>
    \A i \in DOMAIN keys[c] : keys[c][i] \notin collided =>
      /\ keys[c][i] \notin DOMAIN db
      /\ \A d \in Clients : pc[d] # "idle" =>
           \A j \in DOMAIN keys[d] : keys[d][j] = keys[c][i] => d = c /\ j = i

AckedInPlace ==
  \A a \in acked : a.key \notin collided => a.key \in DOMAIN db /\ db[a.key] = a.it

KeyInv == KeysFree /\ AckedInPlace

\* Commit gives up its draws and returns, however full the key space is.
CommitReturns == \A c \in Clients : pc[c] # "idle" ~> pc[c] = "idle"

\* leveldb.go:79-80: a Commit that has exhausted its tries returns an error, so
\* no Commit that finds a key taken writes to it.
ExhaustedReported ==
  [][\A k \in DOMAIN db : k \in DOMAIN db' /\ db'[k] = db[k]]_vars

\* store.go:26-28: GetEntity retrieves the rows of the given subject id.
GetEntityExact == \A id \in Ids : \A it \in GetEntity(id) : it.subject = id

=============================================================================
