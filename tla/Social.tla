------------------------------- MODULE Social -------------------------------
(***************************************************************************)
(* examples/social, end to end: main executes updates, queries the store,   *)
(* searches memsearch and iterates over leveldb, in the order of its        *)
(* script, while the goroutines of indexer.Run work on what it executed;    *)
(* when it returns it waits for them.  An error anywhere is a log.Fatal,    *)
(* which ends the process and runs no deferred WaitForDone.                 *)
(*                                                                         *)
(* A search ranges over memsearch's map, with no lock, while the goroutines *)
(* look it up and write it.                                                 *)
(***************************************************************************)
EXTENDS Indexing, FiniteSets

CONSTANTS
  Main,      \* the goroutine of main, the only one that executes
  Script,    \* what it does, a sequence of steps
  ChCap      \* capacity of the channel of Iterate (10 in the code)

ExecuteOf(es)  == [op |-> "execute", es |-> es]       \* Execute of entities es
QueryFor(es)   == [op |-> "query", es |-> es]         \* a query that needs them
SearchAmong(es) == [op |-> "search", es |-> es]       \* NewQuery of their kind
IterateAll     == [op |-> "iterate", es |-> <<>>]

ASSUME SocialConstants ==
  /\ Producers = {Main}
  /\ Engine = "memsearch"
  /\ ChCap \in Nat \ {0}
  /\ \A i \in DOMAIN Script : Script[i].op = "execute" => Script[i].es \in Commits

VARIABLES
  at,        \* main's place in the script
  ranging,   \* NewQuery is going through the map
  left,      \* keys its iterator has yet to produce
  found,     \* documents found by it, with their entities
  toPass,    \* entities that Iterate has yet to send on ch
  ch,        \* ch
  printed,   \* what processChannel has printed
  indexed,   \* history: entities that had a document when the range began
  settled    \* history: those whose document nothing was about to change

search  == <<ranging, left, found, indexed, settled>>
iterate == <<toPass, ch, printed>>
svars   == <<vars, at, search, iterate>>

SInit ==
  /\ Init
  /\ at = 1
  /\ ranging = FALSE /\ left = {} /\ found = {} /\ indexed = {} /\ settled = {}
  /\ toPass = <<>> /\ ch = <<>> /\ printed = <<>>

----------------------------------------------------------------------------
(* main. *)

\* The Execute before has sent all its notifications.
Doing(op) ==
  /\ ~crashed
  /\ at <= Len(Script)
  /\ Script[at].op = op
  /\ toSend[Main] = <<>>

Done == at' = at + 1

Execute ==
  /\ Doing("execute")
  /\ Commit(Main)
  /\ toSend'[Main] = Script[at].es
  /\ Done
  /\ UNCHANGED <<search, iterate>>

\* The query finds what the script goes on with.
Stored == {e \in Entities : ver[e] > 0}

Query ==
  /\ Doing("query")
  /\ Elems(Script[at].es) \subseteq Stored
  /\ Done
  /\ UNCHANGED <<vars, search, iterate>>

\* Anything that may fail does: Execute, the query, or Iterate.
Fatal ==
  /\ Doing("execute") \/ Doing("query") \/ Doing("iterate")
  /\ Die
  /\ UNCHANGED <<at, search, iterate>>

----------------------------------------------------------------------------
(* NewQuery(kind), ranging over the map. *)

HasDoc(e) == docs[e].ts > 0

\* Nothing under way or to come changes e's document.
Settled(e) ==
  /\ \A d \in Reads[e] : UpToDate(e, d) /\ ~Pending(e, d)
  /\ \A w \in Workers : wpc[w] \in {"read", "write"} => job[w].e # e

BeginSearch ==
  /\ Doing("search")
  /\ ~ranging
  /\ ranging' = TRUE
  /\ left' = {e \in Elems(Script[at].es) : HasDoc(e)}
  /\ found' = {}
  /\ indexed' = left'
  /\ settled' = {e \in left' : Settled(e)}
  /\ UNCHANGED <<vars, at, iterate>>

\* The copy of a document that is being written may be part old, part new.
Copies(e) ==
  LET writing == {DocOf(w) : w \in {v \in Workers : wpc[v] = "write" /\ job[v].e = e}}
      either == {docs[e]} \cup writing
  IN {[ts |-> c.ts, data |-> d.data] : c, d \in either}

\* The iterator produces every key that was there, in any order, and may or
\* may not produce one that was added since.
Produce(e) ==
  /\ ~crashed /\ ranging
  /\ e \in Elems(Script[at].es)
  /\ HasDoc(e)
  /\ \A f \in found : f.e # e
  /\ \E c \in Copies(e) : found' = found \cup {[e |-> e, doc |-> c]}
  /\ left' = left \ {e}
  /\ UNCHANGED <<vars, at, ranging, indexed, settled, iterate>>

RangeOverAtFirst == found # {} \/ left = {}
RangeOver == left = {}

EndSearch ==
  /\ ~crashed /\ ranging
  /\ RangeOver
  /\ ranging' = FALSE
  /\ Done
  /\ UNCHANGED <<vars, left, found, indexed, settled, iterate>>

\* Go's runtime may notice that the map is written meanwhile, and throw.
RangeThrows ==
  /\ ranging
  /\ \E w \in Workers : wpc[w] = "write"
  /\ ~crashed /\ Die
  /\ UNCHANGED <<at, search, iterate>>

----------------------------------------------------------------------------
(* Iterate, handing entities to processChannel. *)

\* In the order of their keys, which are random.
InKeyOrder(S) ==
  CHOOSE s \in [1..Cardinality(S) -> S] : \A i, j \in DOMAIN s : s[i] = s[j] => i = j

BeginIterate ==
  /\ Doing("iterate")
  /\ toPass = <<>> /\ ch = <<>> /\ printed = <<>>
  /\ toPass' = InKeyOrder(Stored)
  /\ UNCHANGED <<vars, at, search, ch, printed>>

Pass ==
  /\ ~crashed
  /\ toPass # <<>>
  /\ Len(ch) < ChCap
  /\ ch' = Append(ch, Head(toPass))
  /\ toPass' = Tail(toPass)
  /\ UNCHANGED <<vars, at, search, printed>>

Ended == crashed \/ waiter = "done"

PrintEntityOnce ==
  /\ ~Ended
  /\ printed = <<>>
  /\ ch # <<>>
  /\ printed' = Append(printed, Head(ch))
  /\ ch' = Tail(ch)
  /\ UNCHANGED <<vars, at, search, toPass>>
PrintEntity ==
  /\ ~Ended
  /\ ch # <<>>
  /\ printed' = Append(printed, Head(ch))
  /\ ch' = Tail(ch)
  /\ UNCHANGED <<vars, at, search, toPass>>

\* main closes ch and receives from done, which processChannel sends on when
\* it has drained ch.
PrinterDone ==
  /\ Doing("iterate")
  /\ toPass = <<>> /\ ch = <<>> /\ printed # <<>>
  /\ Done
  /\ UNCHANGED <<vars, search, iterate>>

----------------------------------------------------------------------------
(* The rest is the indexer's: Execute's sends, the workers, and WaitForDone  *)
(* when main returns.                                                       *)

Indexer(A) == A /\ UNCHANGED <<at, search, iterate>>

Return == at > Len(Script) /\ toSend[Main] = <<>> /\ Indexer(Close)

MainStep ==
  \/ Execute \/ Query \/ BeginSearch \/ EndSearch \/ BeginIterate \/ Pass \/ PrinterDone
  \/ \E e \in Entities : Produce(e)
  \/ Indexer(Send(Main)) \/ Return \/ Indexer(WaitReturns)

SNext ==
  \/ MainStep \/ PrintEntity \/ Fatal \/ RangeThrows
  \/ \E w \in Workers : Indexer(Work(w))
  \/ Ended /\ UNCHANGED svars

\* The goroutines that can run do run.
SFairness ==
  /\ WF_svars(MainStep)
  /\ WF_svars(PrintEntity)
  /\ \A w \in Workers : WF_svars(Indexer(Work(w)))

SSpec == SInit /\ [][SNext]_svars /\ SFairness

----------------------------------------------------------------------------
(* Properties. *)

\* Whatever the workers write while NewQuery ranges over the map, if the
\* process survives it: every document of the kind that was indexed when the
\* search began is found, once, none is ahead of the store, and one that was
\* up to date then, with nothing about to change it, is found up to date.
SearchSeesIndexed ==
  [][ranging /\ ~ranging' =>
       /\ \A e \in indexed : Cardinality({f \in found : f.e = e}) = 1
       /\ \A f \in found : \A d \in Reads[f.e] :
            /\ f.doc.data[d] <= ver[d]
            /\ f.e \in settled => f.doc.data[d] = ver[d]]_svars

\* The program ends, by a log.Fatal or a throw of the Go runtime or else with
\* the script run, each entity of the store printed once and the workers
\* stopped, however small the channels are.
ScriptEnds ==
  <>(\/ crashed
     \/ /\ waiter = "done" /\ at > Len(Script)
        /\ Elems(printed) = Stored /\ Len(printed) = Cardinality(Stored))
=============================================================================
