---------------------------- MODULE LeveldbProofs ----------------------------
(* What is proved of Leveldb, for every set of clients, ids and suffixes,    *)
(* every number of tries and every batch.                                    *)
EXTENDS Leveldb, SequenceTheorems, WellFoundedInduction, TLAPS

-----------------------------------------------------------------------------
(* Keys and batches. *)

\* A sequence is a prefix of what is appended to it.
LEMMA AppendsPrefix ==
  ASSUME NEW S, NEW id \in Seq(S), NEW x \in S, NEW y \in S
  PROVE  HasPrefix(Append(Append(id, x), y), id)
<1> DEFINE t == Append(id, x)
           k == Append(t, y)
           u == SubSeq(k, 1, Len(id))
<1>1. Len(id) \in Nat /\ \A i \in 1..Len(id) : id[i] \in S
  OBVIOUS
<1>2. t \in Seq(S) /\ Len(t) = Len(id) + 1 /\ \A i \in 1..Len(id) : t[i] = id[i]
  BY AppendProperties
<1> HIDE DEF t
<1>3. k \in Seq(S) /\ Len(k) = Len(t) + 1 /\ \A i \in 1..Len(t) : k[i] = t[i]
  BY <1>2, AppendProperties
<1> HIDE DEF k
<1>4. \A i \in 1..Len(id) : k[i] = id[i]
  BY <1>1, <1>2, <1>3
<1>5. /\ u \in Seq(S)
      /\ Len(u) = IF 1 <= Len(id) THEN Len(id) - 1 + 1 ELSE 0
      /\ \A i \in 1..(Len(id) - 1 + 1) : u[i] = k[1 + i - 1]
  <2>1. \A i \in 1..Len(id) : k[i] \in S
    BY <1>1, <1>4
  <2>2. 1 \in Int /\ Len(id) \in Int
    BY <1>1
  <2> QED
    BY <2>1, <2>2, SubSeqProperties
<1> HIDE DEF u
<1>6. Len(u) = Len(id) /\ \A i \in 1..Len(id) : u[i] = id[i]
  BY <1>1, <1>4, <1>5
<1>7. u = id
  BY <1>5, <1>6, SeqEqual
<1> QED
  BY <1>1, <1>2, <1>3, <1>7 DEF HasPrefix, u, k, t

\* An id is a prefix of the keys of its instructions.
LEMMA OwnPrefix ==
  ASSUME NEW id \in Ids, NEW k \in KeysFor(id)
  PROVE  HasPrefix(k, id)
<1> DEFINE S == STRING \cup Suffixes \cup {"_"}
<1>1. PICK s \in Suffixes : k = Append(Append(id, "_"), s)
  BY DEF KeysFor, Key
<1>2. id \in Seq(S)
  BY LeveldbConstants, SeqMonotonic
<1>3. "_" \in S /\ s \in S
  OBVIOUS
<1> HIDE DEF S
<1> QED
  BY <1>1, <1>2, <1>3, AppendsPrefix

\* The instructions of a Commit are a sequence as long as its batch.
LEMMA BatchType ==
  ASSUME TypeOK, NEW batch \in Batches, commits < MaxCommits
  PROVE  LET new == [i \in DOMAIN batch |->
                       [subject |-> batch[i], commit |-> commits + 1, place |-> i]]
         IN new \in Seq(Instruction) /\ Len(new) = Len(batch)
<1> DEFINE new == [i \in DOMAIN batch |->
                     [subject |-> batch[i], commit |-> commits + 1, place |-> i]]
<1>1. batch \in Seq(Ids) /\ Len(batch) \in Nat /\ DOMAIN batch = 1..Len(batch)
  BY LeveldbConstants
<1>2. \A i \in DOMAIN batch : batch[i] \in Ids
  BY <1>1
<1>3. commits + 1 \in 1..MaxCommits
  BY LeveldbConstants DEF TypeOK, StoreOK
<1>4. \A i \in DOMAIN batch : new[i] \in Instruction
  BY <1>1, <1>2, <1>3 DEF Instruction
<1>5. /\ new \in [1..Len(batch) -> Instruction]
      /\ DOMAIN new = 1..Len(batch)
  BY <1>1, <1>4, Zenon
<1> HIDE DEF new
<1>6. new \in Seq(Instruction) /\ Len(new) = Len(batch)
  BY <1>1, <1>5
<1> QED
  BY <1>6 DEF new

\* Of finitely many places one is the last.
LEMMA LastPlace ==
  ASSUME NEW n \in Nat, NEW T \in SUBSET (1..n), T # {}
  PROVE  \E i \in T : \A j \in T : j <= i
<1> DEFINE R == OpToRel(<, Nat)
<1> DEFINE U == {n - i : i \in T}
<1>1. IsWellFoundedOn(R, Nat)
  BY NatLessThanWellFounded
<1>2. \A i \in T : i \in 1..n
  OBVIOUS
<1>3. \A i \in T : n - i \in Nat
  BY <1>2
<1>4. U \subseteq Nat /\ U # {}
  BY <1>3
<1> HIDE DEF R
<1>5. PICK x \in U : \A y \in U : ~ (<<y, x>> \in R)
  BY <1>1, <1>4, WFMin
<1>6. \A y \in U : <<y, x>> \in R <=> y < x
  <2> USE DEF R
  <2> QED BY <1>4 DEF OpToRel
<1>7. \A y \in U : x <= y
  <2>1. x \in Nat /\ \A y \in U : y \in Nat
    BY <1>4
  <2>2. \A y \in U : ~ (y < x)
    BY <1>5, <1>6
  <2> HIDE DEF U
  <2> QED
    BY <2>1, <2>2
<1>8. PICK i \in T : x = n - i
  OBVIOUS
<1>9. \A j \in T : n - j \in U
  OBVIOUS
<1>10. \A j \in T : n - i <= n - j
  BY <1>7, <1>8, <1>9, Zenon
<1>11. \A j \in T : j <= i
  BY <1>10, <1>2, <1>8
<1> QED
  BY <1>11

\* What a batch puts under a key is the instruction of one of its places.
LEMMA PutPlace ==
  ASSUME CallOK, NEW c \in Clients, NEW k \in KeysOf(c)
  PROVE  \E i \in DOMAIN keys[c] : keys[c][i] = k /\ Put(c, k) = its[c][i]
<1> DEFINE P == {i \in DOMAIN keys[c] : keys[c][i] = k}
<1>1. Len(keys[c]) \in Nat /\ DOMAIN keys[c] = 1..Len(keys[c])
  BY DEF CallOK
<1>2. P # {} /\ P \in SUBSET (1..Len(keys[c]))
  BY <1>1 DEF KeysOf
<1>3. \E i \in P : \A j \in P : j <= i
  <2> HIDE DEF P
  <2> QED
    BY <1>1, <1>2, LastPlace
<1> QED
  BY <1>3 DEF Put

\* The types of what a Commit puts in the store.
LEMMA PutType ==
  ASSUME TypeOK, NEW c \in Clients, pc[c] = "write", NEW k \in KeysOf(c)
  PROVE  k \in Keys /\ Put(c, k) \in Instruction
<1>1. PICK i \in DOMAIN keys[c] : keys[c][i] = k /\ Put(c, k) = its[c][i]
  BY PutPlace DEF TypeOK
<1>2. i \in DOMAIN its[c] /\ keys[c] \in Seq(Keys) /\ its[c] \in Seq(Instruction)
  BY <1>1 DEF TypeOK, CallOK
<1> QED
  BY <1>1, <1>2

-----------------------------------------------------------------------------
(* Types. *)

\* Drawing a key keeps the types of the call.
LEMMA TakeType ==
  ASSUME CallOK, NEW c \in Clients, pc[c] = "draw", NEW suffix \in Suffixes,
         Take(c, Key(Current(c).subject, suffix)), UNCHANGED its
  PROVE  CallOK' /\ Key(Current(c).subject, suffix) \in Keys
<1> DEFINE key == Key(Current(c).subject, suffix)
<1>1. /\ keys[c] \in Seq(Keys) /\ its[c] \in Seq(Instruction)
      /\ Len(keys[c]) \in Nat /\ Len(its[c]) \in Nat
      /\ Len(keys[c]) < Len(its[c])
  BY DEF CallOK
<1>2. Current(c) \in Instruction /\ Current(c) = its[c][Len(keys[c]) + 1]
  BY <1>1 DEF Current
<1>3. key \in KeysFor(its[c][Len(keys[c]) + 1].subject) /\ key \in Keys
  BY <1>2 DEF KeysFor, Keys, Instruction
<1> HIDE DEF key
<1>4. /\ keys' = [keys EXCEPT ![c] = Append(keys[c], key)]
      /\ tries' = [tries EXCEPT ![c] = 0]
      /\ pc' = [pc EXCEPT ![c] = IF Len(keys[c]) + 1 < Len(its[c]) THEN "draw" ELSE "write"]
  BY DEF Take, key
<1>5. /\ Append(keys[c], key) \in Seq(Keys)
      /\ Len(Append(keys[c], key)) = Len(keys[c]) + 1
      /\ DOMAIN Append(keys[c], key) = 1..(Len(keys[c]) + 1)
      /\ \A i \in DOMAIN keys[c] : Append(keys[c], key)[i] = keys[c][i]
      /\ Append(keys[c], key)[Len(keys[c]) + 1] = key
      /\ DOMAIN keys[c] = 1..Len(keys[c])
  BY <1>1, <1>3
<1>6. /\ pc' \in [Clients -> {"idle", "draw", "write"}]
      /\ keys' \in [Clients -> Seq(Keys)]
      /\ tries' \in [Clients -> 0..(MaxTries - 1)]
  BY <1>4, <1>5, LeveldbConstants DEF CallOK
<1>7. ASSUME NEW d \in Clients
      PROVE  /\ Len(keys'[d]) <= Len(its[d])
             /\ pc'[d] = "draw" => Len(keys'[d]) < Len(its[d])
             /\ pc'[d] = "write" => Len(keys'[d]) = Len(its[d])
             /\ \A i \in DOMAIN keys'[d] : keys'[d][i] \in KeysFor(its[d][i].subject)
  <2>1. CASE d # c
    BY <2>1, <1>4 DEF CallOK
  <2>2. CASE d = c
    <3>1. keys'[c] = Append(keys[c], key) /\ pc'[c] = IF Len(keys[c]) + 1 < Len(its[c]) THEN "draw" ELSE "write"
      BY <1>4 DEF CallOK
    <3>2. \A i \in DOMAIN keys[c] : keys[c][i] \in KeysFor(its[c][i].subject)
      BY DEF CallOK
    <3>3. \A i \in DOMAIN keys'[c] : keys'[c][i] \in KeysFor(its[c][i].subject)
      <4>1. ASSUME NEW i \in 1..(Len(keys[c]) + 1), i # Len(keys[c]) + 1
            PROVE  i \in DOMAIN keys[c]
        BY <4>1, <1>1, <1>5
      <4> QED
        BY <4>1, <3>1, <3>2, <1>3, <1>5
    <3> QED
      BY <2>2, <3>1, <3>3, <1>1, <1>5
  <2> QED
    BY <2>1, <2>2
<1> QED
  BY <1>3, <1>6, <1>7 DEF CallOK, key

\* So does drawing again.
LEMMA TryAgainType ==
  ASSUME CallOK, NEW c \in Clients, pc[c] = "draw", NEW suffix \in Suffixes,
         TryAgain(c, Key(Current(c).subject, suffix)), UNCHANGED its
  PROVE  /\ CallOK'
         /\ collided' \subseteq collided \cup {Key(Current(c).subject, suffix)}
         /\ collided' = collided \/ Key(Current(c).subject, suffix) \in Keys
<1> DEFINE key == Key(Current(c).subject, suffix)
<1>1. CASE tries[c] + 1 < MaxTries /\ tries' = [tries EXCEPT ![c] = @ + 1]
             /\ UNCHANGED <<keys, pc, collided>>
  <2>1. tries[c] + 1 \in 0..(MaxTries - 1)
    BY <1>1, LeveldbConstants DEF CallOK
  <2>2. tries' \in [Clients -> 0..(MaxTries - 1)]
    BY <1>1, <2>1 DEF CallOK
  <2> QED
    BY <1>1, <2>2 DEF CallOK
<1>2. CASE Take(c, key) /\ collided' = collided \cup {key}
  BY <1>2, TakeType
<1> QED
  BY <1>1, <1>2 DEF TryAgain

\* Initially every variable has its type.
LEMMA InitType == Init => TypeOK
<1> SUFFICES ASSUME Init PROVE TypeOK
  OBVIOUS
<1>1. CallOK
  BY LeveldbConstants DEF Init, CallOK
<1>2. StoreOK
  BY LeveldbConstants DEF Init, StoreOK
<1> QED
  BY <1>1, <1>2 DEF TypeOK

\* Every step keeps the types.
LEMMA TypeStep == TypeOK /\ [Next]_vars => TypeOK'
<1> SUFFICES ASSUME TypeOK, [Next]_vars PROVE TypeOK'
  OBVIOUS
<1>1. ASSUME NEW c \in Clients, NEW batch \in Batches, Commit(c, batch)
      PROVE  TypeOK'
  <2> DEFINE new == [i \in DOMAIN batch |->
                       [subject |-> batch[i], commit |-> commits + 1, place |-> i]]
  <2>1. new \in Seq(Instruction) /\ Len(new) = Len(batch)
    BY <1>1, BatchType DEF Commit
  <2>2. its' = [its EXCEPT ![c] = new]
    BY <1>1 DEF Commit
  <2> HIDE DEF new
  <2>3. batch \in Seq(Ids)
    BY LeveldbConstants
  <2>4. CallOK'
    <3>1. its' \in [Clients -> Seq(Instruction)] /\ its'[c] = new
      BY <2>1, <2>2 DEF TypeOK, CallOK
    <3>2. /\ keys' \in [Clients -> Seq(Keys)] /\ keys'[c] = <<>>
          /\ pc' \in [Clients -> {"idle", "draw", "write"}]
          /\ pc'[c] = IF batch = <<>> THEN "write" ELSE "draw"
          /\ tries' \in [Clients -> 0..(MaxTries - 1)]
      BY <1>1, LeveldbConstants DEF Commit, TypeOK, CallOK
    <3>3. \A d \in Clients : d # c => keys'[d] = keys[d] /\ its'[d] = its[d] /\ pc'[d] = pc[d]
      BY <1>1, <2>2 DEF Commit, TypeOK, CallOK
    <3>4. Len(new) \in Nat /\ (batch # <<>> => Len(new) > 0) /\ (batch = <<>> => Len(new) = 0)
      BY <2>1, <2>3
    <3>5. ASSUME NEW d \in Clients
          PROVE  /\ Len(keys'[d]) <= Len(its'[d])
                 /\ pc'[d] = "draw" => Len(keys'[d]) < Len(its'[d])
                 /\ pc'[d] = "write" => Len(keys'[d]) = Len(its'[d])
                 /\ \A i \in DOMAIN keys'[d] : keys'[d][i] \in KeysFor(its'[d][i].subject)
      <4>1. CASE d = c
        BY <4>1, <3>1, <3>2, <3>4
      <4>2. CASE d # c
        BY <4>2, <3>3 DEF TypeOK, CallOK
      <4> QED
        BY <4>1, <4>2
    <3> QED
      BY <3>1, <3>2, <3>5 DEF CallOK
  <2>5. StoreOK'
    BY <1>1, LeveldbConstants DEF Commit, TypeOK, StoreOK
  <2> QED
    BY <2>4, <2>5 DEF TypeOK
<1>2. ASSUME NEW c \in Clients, NEW suffix \in Suffixes, Draw(c, suffix)
      PROVE  TypeOK'
  <2> DEFINE key == Key(Current(c).subject, suffix)
  <2>1. pc[c] = "draw" /\ UNCHANGED <<db, its, acked, commits, failures>>
    BY <1>2 DEF Draw
  <2>2. CASE Taken(key) /\ TryAgain(c, key)
    BY <2>1, <2>2, TryAgainType DEF TypeOK, StoreOK
  <2>3. CASE Take(c, key) /\ collided' = IF Drawn(key) THEN collided \cup {key} ELSE collided
    BY <2>1, <2>3, TakeType DEF TypeOK, StoreOK
  <2> QED
    BY <1>2, <2>2, <2>3 DEF Draw
<1>3. ASSUME NEW c \in Clients, NEW suffix \in Suffixes, HasFails(c, suffix)
      PROVE  TypeOK'
  <2>1. CallOK' /\ collided' \subseteq Keys
    BY <1>3, TryAgainType DEF HasFails, TypeOK, StoreOK
  <2>2. failures' \in 0..MaxFailures
    BY <1>3, LeveldbConstants DEF HasFails, TypeOK, StoreOK
  <2> QED
    BY <1>3, <2>1, <2>2 DEF HasFails, TypeOK, StoreOK
<1>4. ASSUME NEW c \in Clients, Write(c)
      PROVE  TypeOK'
  <2>1. CallOK'
    BY <1>4 DEF Write, call, TypeOK, CallOK
  <2>2. /\ DOMAIN db' = DOMAIN db \cup KeysOf(c)
        /\ \A k \in DOMAIN db' : db'[k] = IF k \in KeysOf(c) THEN Put(c, k) ELSE db[k]
    BY <1>4 DEF Write, Written
  <2>3. \A k \in DOMAIN db' : k \in Keys /\ db'[k] \in Instruction
    BY <1>4, <2>2, PutType DEF Write, TypeOK, StoreOK
  <2>4. ASSUME NEW i \in DOMAIN keys[c]
        PROVE  /\ keys[c][i] \in Keys /\ its[c][i] \in Instruction
               /\ keys[c][i] \in KeysFor(its[c][i].subject)
    BY <1>4 DEF Write, TypeOK, CallOK
  <2>5. /\ acked' \subseteq [key : Keys, it : Instruction]
        /\ \A a \in acked' : a.key \in KeysFor(a.it.subject)
    BY <1>4, <2>4 DEF Write, TypeOK, StoreOK
  <2> QED
    BY <1>4, <2>1, <2>3, <2>5 DEF Write, call, TypeOK, StoreOK
<1>5. ASSUME NEW c \in Clients, WriteFails(c)
      PROVE  TypeOK'
  <2>1. CallOK'
    BY <1>5 DEF WriteFails, call, TypeOK, CallOK
  <2> QED
    BY <1>5, <2>1, LeveldbConstants DEF WriteFails, call, TypeOK, StoreOK
<1>6. CASE UNCHANGED vars
  BY <1>6 DEF vars, call, TypeOK, CallOK, StoreOK
<1> QED
  BY <1>1, <1>2, <1>3, <1>4, <1>5, <1>6 DEF Next

\* Every variable has its type, in every reachable state.
THEOREM TypeCorrect == Spec => []TypeOK
<1> QED
  BY InitType, TypeStep, PTL DEF Spec

-----------------------------------------------------------------------------
(* Keys. *)

\* A key that a client draws while it is free and nobody else's, or that
\* counts as collided, leaves the invariant.
LEMMA TakeKeys ==
  ASSUME CallOK, KeyInv, NEW c \in Clients, NEW key, pc[c] = "draw", Take(c, key),
         UNCHANGED <<db, acked>>, collided \subseteq collided',
         key \in collided' \/ (key \notin DOMAIN db /\ ~Drawn(key))
  PROVE  KeyInv'
<1>1. AckedInPlace'
  BY DEF KeyInv, AckedInPlace
<1> DEFINE n == Len(keys[c]) + 1
<1>2. /\ keys'[c] = Append(keys[c], key) /\ n \in Nat
      /\ \A d \in Clients : d # c => keys'[d] = keys[d] /\ pc'[d] = pc[d]
      /\ pc[c] # "idle"
  BY DEF Take, CallOK
<1>3. /\ DOMAIN keys'[c] = DOMAIN keys[c] \cup {n} /\ n \notin DOMAIN keys[c]
      /\ keys'[c][n] = key
      /\ \A i \in DOMAIN keys[c] : keys'[c][i] = keys[c][i]
  <2>1. keys[c] \in Seq(Keys)
    BY DEF CallOK
  <2> QED
    BY <1>2, <2>1
<1> HIDE DEF n
\* Only the new place holds something that was not drawn before.
<1>4. ASSUME NEW d \in Clients, pc'[d] # "idle", NEW i \in DOMAIN keys'[d], ~(d = c /\ i = n)
      PROVE  pc[d] # "idle" /\ i \in DOMAIN keys[d] /\ keys'[d][i] = keys[d][i]
  BY <1>2, <1>3, <1>4
<1>5. ASSUME NEW d \in Clients, pc'[d] # "idle", NEW i \in DOMAIN keys'[d],
             ~(d = c /\ i = n), keys'[d][i] = key
      PROVE  Drawn(key)
  BY <1>4, <1>5 DEF Drawn, KeysOf
<1>6. ASSUME NEW d \in Clients, pc'[d] # "idle", NEW i \in DOMAIN keys'[d],
             keys'[d][i] \notin collided'
      PROVE  /\ keys'[d][i] \notin DOMAIN db'
             /\ \A e \in Clients : pc'[e] # "idle" =>
                  \A j \in DOMAIN keys'[e] : keys'[e][j] = keys'[d][i] => e = d /\ j = i
  <2>1. CASE d = c /\ i = n
    <3>1. key \notin DOMAIN db /\ ~Drawn(key)
      BY <1>6, <2>1, <1>3
    <3> QED
      BY <2>1, <3>1, <1>3, <1>5
  <2>2. CASE ~(d = c /\ i = n)
    <3>1. pc[d] # "idle" /\ i \in DOMAIN keys[d] /\ keys'[d][i] = keys[d][i] /\ keys[d][i] \notin collided
      BY <1>4, <1>6, <2>2
    <3>2. keys[d][i] # key
      BY <1>5, <1>6, <2>2, <3>1
    <3>3. /\ keys[d][i] \notin DOMAIN db
          /\ \A e \in Clients : pc[e] # "idle" =>
               \A j \in DOMAIN keys[e] : keys[e][j] = keys[d][i] => e = d /\ j = i
      BY <3>1 DEF KeyInv, KeysFree
    <3>4. ASSUME NEW e \in Clients, pc'[e] # "idle", NEW j \in DOMAIN keys'[e],
                 keys'[e][j] = keys'[d][i]
          PROVE  e = d /\ j = i
      <4>1. ~(e = c /\ j = n)
        BY <3>1, <3>2, <3>4, <1>3
      <4> QED
        BY <4>1, <3>1, <3>3, <3>4, <1>4
    <3> QED
      BY <3>1, <3>3, <3>4
  <2> QED
    BY <2>1, <2>2
<1>7. KeysFree'
  BY <1>6, Zenon DEF KeysFree
<1> QED
  BY <1>1, <1>7 DEF KeyInv

\* A batch of free keys that are nobody else's replaces nothing.
LEMMA WriteKeys ==
  ASSUME CallOK, KeyInv, NEW c \in Clients, Write(c)
  PROVE  KeyInv'
<1>1. /\ pc[c] = "write" /\ UNCHANGED <<its, keys, collided>>
      /\ pc'[c] = "idle" /\ \A d \in Clients : d # c => pc'[d] = pc[d]
  BY DEF Write, call, CallOK
<1>2. /\ DOMAIN db' = DOMAIN db \cup KeysOf(c)
      /\ \A k \in DOMAIN db' : db'[k] = IF k \in KeysOf(c) THEN Put(c, k) ELSE db[k]
  BY DEF Write, Written
<1>3. ASSUME NEW d \in Clients, pc'[d] # "idle", NEW i \in DOMAIN keys'[d],
             keys'[d][i] \notin collided'
      PROVE  /\ keys'[d][i] \notin DOMAIN db'
             /\ \A e \in Clients : pc'[e] # "idle" =>
                  \A j \in DOMAIN keys'[e] : keys'[e][j] = keys'[d][i] => e = d /\ j = i
  <2>1. d # c /\ pc[d] # "idle" /\ i \in DOMAIN keys[d] /\ keys[d][i] \notin collided
    BY <1>1, <1>3
  <2>2. /\ keys[d][i] \notin DOMAIN db
        /\ \A e \in Clients : pc[e] # "idle" =>
             \A j \in DOMAIN keys[e] : keys[e][j] = keys[d][i] => e = d /\ j = i
    BY <2>1 DEF KeyInv, KeysFree
  <2>3. keys[d][i] \notin KeysOf(c)
    BY <2>1, <2>2, <1>1 DEF KeysOf
  <2> QED
    BY <2>1, <2>2, <2>3, <1>1, <1>2
<1>4. KeysFree'
  BY <1>3, Zenon DEF KeysFree
<1>5. ASSUME NEW a \in acked, a.key \notin collided
      PROVE  a.key \in DOMAIN db' /\ db'[a.key] = a.it
  <2>1. a.key \in DOMAIN db /\ db[a.key] = a.it
    BY <1>5 DEF KeyInv, AckedInPlace
  <2>2. a.key \notin KeysOf(c)
    BY <2>1, <1>5, <1>1 DEF KeyInv, KeysFree, KeysOf
  <2> QED
    BY <2>1, <2>2, <1>2
<1>6. ASSUME NEW i \in DOMAIN keys[c], keys[c][i] \notin collided
      PROVE  keys[c][i] \in DOMAIN db' /\ db'[keys[c][i]] = its[c][i]
  <2>1. keys[c][i] \in KeysOf(c)
    BY DEF KeysOf
  <2>2. PICK j \in DOMAIN keys[c] : keys[c][j] = keys[c][i] /\ Put(c, keys[c][i]) = its[c][j]
    BY <2>1, PutPlace
  <2>3. j = i
    BY <1>1, <1>6, <2>2 DEF KeyInv, KeysFree
  <2> QED
    BY <2>1, <2>2, <2>3, <1>2
<1>7. AckedInPlace'
  <2>1. acked' = acked \cup {[key |-> keys[c][i], it |-> its[c][i]] : i \in DOMAIN keys[c]}
    BY DEF Write
  <2>2. ASSUME NEW a \in acked', a.key \notin collided'
        PROVE  a.key \in DOMAIN db' /\ db'[a.key] = a.it
    <3>1. CASE a \in acked
      BY <2>2, <3>1, <1>1, <1>5
    <3>2. CASE \E i \in DOMAIN keys[c] : a = [key |-> keys[c][i], it |-> its[c][i]]
      BY <2>2, <3>2, <1>1, <1>6
    <3> QED
      BY <2>1, <3>1, <3>2
  <2> QED
    BY <2>2 DEF AckedInPlace
<1> QED
  BY <1>4, <1>7 DEF KeyInv

\* Drawing again leaves the invariant: a key that stands after the last try
\* counts as collided.
LEMMA TryAgainKeys ==
  ASSUME CallOK, KeyInv, NEW c \in Clients, NEW key, pc[c] = "draw",
         TryAgain(c, key), UNCHANGED <<db, acked>>
  PROVE  KeyInv'
<1>1. CASE UNCHANGED <<keys, pc, collided>>
  BY <1>1 DEF KeyInv, KeysFree, AckedInPlace
<1>2. CASE Take(c, key) /\ collided' = collided \cup {key}
  <2>1. collided \subseteq collided' /\ key \in collided'
    BY <1>2
  <2> QED
    BY <1>2, <2>1, TakeKeys
<1> QED
  BY <1>1, <1>2 DEF TryAgain

\* Every step keeps the key invariant.
LEMMA KeyStep == TypeOK /\ KeyInv /\ [Next]_vars => KeyInv'
<1> SUFFICES ASSUME TypeOK, KeyInv, [Next]_vars PROVE KeyInv'
  OBVIOUS
<1>0. CallOK
  BY DEF TypeOK
<1>1. ASSUME NEW c \in Clients, NEW batch \in Batches, Commit(c, batch)
      PROVE  KeyInv'
  <2>1. /\ keys'[c] = <<>> /\ \A d \in Clients : d # c => keys'[d] = keys[d] /\ pc'[d] = pc[d]
        /\ UNCHANGED <<db, acked, collided>>
    BY <1>0, <1>1 DEF Commit, CallOK
  <2>2. ASSUME NEW d \in Clients, NEW i \in DOMAIN keys'[d] PROVE d # c
    BY <2>1, <2>2
  <2>3. KeysFree'
    BY <2>1, <2>2 DEF KeyInv, KeysFree
  <2> QED
    BY <2>1, <2>3 DEF KeyInv, AckedInPlace
<1>2. ASSUME NEW c \in Clients, NEW suffix \in Suffixes, Draw(c, suffix)
      PROVE  KeyInv'
  <2> DEFINE key == Key(Current(c).subject, suffix)
  <2>1. pc[c] = "draw" /\ UNCHANGED <<db, acked>>
    BY <1>2 DEF Draw
  <2> HIDE DEF key
  <2>2. CASE Taken(key) /\ TryAgain(c, key)
    BY <1>0, <2>1, <2>2, TryAgainKeys
  <2>3. CASE ~Taken(key) /\ Take(c, key)
               /\ collided' = IF Drawn(key) THEN collided \cup {key} ELSE collided
    <3>1. collided \subseteq collided' /\ (key \in collided' \/ (key \notin DOMAIN db /\ ~Drawn(key)))
      BY <2>3 DEF Taken
    <3> QED
      BY <1>0, <2>1, <2>3, <3>1, TakeKeys
  <2> QED
    BY <1>2, <2>2, <2>3 DEF Draw, key
<1>3. ASSUME NEW c \in Clients, NEW suffix \in Suffixes, HasFails(c, suffix)
      PROVE  KeyInv'
  BY <1>0, <1>3, TryAgainKeys DEF HasFails
<1>4. ASSUME NEW c \in Clients, Write(c)
      PROVE  KeyInv'
  BY <1>0, <1>4, WriteKeys
<1>5. ASSUME NEW c \in Clients, WriteFails(c)
      PROVE  KeyInv'
  <2>1. /\ UNCHANGED <<db, keys, acked, collided>>
        /\ \A d \in Clients : pc'[d] # "idle" => pc[d] # "idle"
    BY <1>0, <1>5 DEF WriteFails, call, CallOK
  <2>2. KeysFree'
    BY <2>1 DEF KeyInv, KeysFree
  <2> QED
    BY <2>1, <2>2 DEF KeyInv, AckedInPlace
<1>6. CASE UNCHANGED vars
  BY <1>6 DEF vars, call, KeyInv, KeysFree, AckedInPlace
<1> QED
  BY <1>1, <1>2, <1>3, <1>4, <1>5, <1>6 DEF Next

\* The inductive invariant of Leveldb: an uncollided key that has been drawn is
\* free and nobody else's, and one that has been written holds its instruction.
THEOREM KeysStayApart == Spec => []KeyInv
<1>1. Init => KeyInv
  BY DEF Init, KeyInv, KeysFree, AckedInPlace
<1> QED
  BY <1>1, TypeCorrect, KeyStep, PTL DEF Spec

\* Under the key invariant, what Commit acknowledged is where the readers look.
LEMMA InPlaceIsRead == TypeOK /\ KeyInv => AckedReadBack
<1> SUFFICES ASSUME TypeOK, KeyInv, NEW a \in acked, a.key \notin collided
             PROVE  a.it \in GetEntity(a.it.subject) /\ ~IsNew(a.it.subject)
  BY DEF AckedReadBack
<1>1. a.key \in DOMAIN db /\ db[a.key] = a.it
  BY DEF KeyInv, AckedInPlace
<1>2. a.it.subject \in Ids /\ a.key \in KeysFor(a.it.subject)
  BY DEF TypeOK, StoreOK, Instruction
<1>3. HasPrefix(a.key, a.it.subject)
  BY <1>2, OwnPrefix
<1> QED
  BY <1>1, <1>3 DEF GetEntity, IsNew

\* Once leveldb's Commit has returned nil, GetEntity returns its instructions
\* and IsNew does not call their subject new, but for keys that collided.
THEOREM AckedStaysReadable == Spec => []AckedReadBack
<1> QED
  BY TypeCorrect, KeysStayApart, InPlaceIsRead, PTL
=============================================================================
