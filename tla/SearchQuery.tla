---------------------------- MODULE SearchQuery ----------------------------
(***************************************************************************)
(* The search engines and their queries.  One client indexes documents,     *)
(* takes a query, builds it up in any order and runs or counts it, any      *)
(* number of times.                                                         *)
(*                                                                         *)
(* drivers/memsearch copies the documents of a kind when the query is       *)
(* taken, and each call leaves the query with the documents it found;       *)
(* drivers/elasticsearch keeps what to ask and asks the service each time.  *)
(* The service's index is what its searches see: an update that it has yet  *)
(* to make searchable has not happened.                                     *)
(*                                                                         *)
(* A field's value is a number; a condition is a field and the values that  *)
(* satisfy it: one value for AddExact, those that match for AddRegex.       *)
(***************************************************************************)
EXTENDS Naturals, Sequences, FiniteSets, SequencesExt

CONSTANTS
  Engines,     \* the engines that may be registered
  DefaultSize, \* results the service gives when asked for no number of them
  Indexes,     \* what the engine may hold at first: sets of documents
  Offered,     \* documents indexed while a query is being built
  Kinds,
  Fields,
  Conditions,  \* records [field, ok]
  None,        \* no query, no order; the empty field name
  MaxConds,    \* bound: conditions of a filter
  MaxFrom,     \* bound: the argument of From
  MaxLimit,    \* bound: the argument of Limit
  MaxCalls     \* bound: calls of Run and Count on one query

IsDoc(d) == /\ DOMAIN d = {"id", "kind", "ts", "data"}
            /\ d.kind \in Kinds /\ d.ts \in Nat
            /\ DOMAIN d.data \subseteq Fields /\ \A f \in DOMAIN d.data : d.data[f] \in Nat

SameKey(d, e) == d.kind = e.kind /\ d.id = e.id

ASSUME SearchQueryConstants ==
  /\ Engines \subseteq {"memsearch", "elasticsearch"}
  /\ DefaultSize \in Nat \ {0}
  /\ None \notin Fields
  /\ \A d \in (UNION Indexes) \cup Offered : IsDoc(d)
  /\ \A I \in Indexes : IsFiniteSet(I) /\ \A d, e \in I : SameKey(d, e) => d = e
  /\ \A c \in Conditions : c.field \in Fields \cup {None}
  /\ MaxConds \in Nat /\ MaxFrom \in Nat /\ MaxLimit \in Nat /\ MaxCalls \in Nat

VARIABLES
  engine,  \* the registered one
  index,   \* ms.docs, or the service's: the set of indexed documents
  query,   \* the client's MemQuery or ElasticQuery, or None
  answer,  \* what the last call returned, if it was Run or Count
  taken,   \* history: the documents of its kind when it was taken
  calls,   \* Runs and Counts of it so far
  ran,     \* history: one of them was a Run
  changed  \* history: its filter was changed after the first of them

vars == <<engine, index, query, answer, taken, calls, ran, changed>>

Init ==
  /\ engine \in Engines
  /\ index \in Indexes
  /\ query = None
  /\ answer = [is |-> "none"]
  /\ taken = {}
  /\ calls = 0
  /\ ran = FALSE
  /\ changed = FALSE

----------------------------------------------------------------------------
(* The engine. *)

\* Update refuses a document that is not newer than the indexed one.
Update(d) ==
  /\ \A e \in index : SameKey(d, e) => d.ts > e.ts
  /\ index' = {e \in index : ~SameKey(d, e)} \cup {d}
  /\ UNCHANGED <<engine, query, answer, taken, calls, ran, changed>>

DocsOfAnyKind(kind) == index
DocsOf(kind) == {d \in index : d.kind = kind}

\* memsearch takes the documents of the kind, in the map's random order;
\* elasticsearch none.
Snapshots(kind) == IF engine = "memsearch" THEN SetToSeqs(DocsOf(kind)) ELSE {<<>>}

NewQuery(kind) ==
  /\ \E s \in Snapshots(kind) :
       query' = [kind |-> kind, docs |-> s, filterType |-> "none", filters |-> <<>>,
                 from |-> 0, limit |-> 0, order |-> None, reverse |-> FALSE]
  /\ taken' = DocsOf(kind)
  /\ answer' = [is |-> "none"]
  /\ calls' = 0
  /\ ran' = FALSE
  /\ changed' = FALSE
  /\ UNCHANGED <<engine, index>>

----------------------------------------------------------------------------
(* Building the query. *)

Building ==
  /\ query # None
  /\ answer' = [is |-> "none"]
  /\ UNCHANGED <<engine, index, taken, calls, ran>>

Filtering == Building /\ changed' = (calls > 0)
Windowing == Building /\ UNCHANGED changed

\* A new filter replaces the one before; conditions then added through the
\* old one no longer have an effect.
NewFilter(type) ==
  Filtering /\ query' = [query EXCEPT !.filterType = type, !.filters = <<>>]

AddCondition(c) ==
  /\ Filtering
  /\ query.filterType # "none"
  /\ Len(query.filters) < MaxConds
  /\ query' = [query EXCEPT !.filters = Append(@, c)]

From(num)  == Windowing /\ query' = [query EXCEPT !.from = num]
Limit(num) == Windowing /\ query' = [query EXCEPT !.limit = num]
Order(f, reverse) ==
  Windowing /\ query' = [query EXCEPT !.order = f, !.reverse = reverse]

----------------------------------------------------------------------------
(* What both engines do alike. *)

Matches(d, c) == c.field \in DOMAIN d.data /\ d.data[c.field] \in c.ok
MatchesOne(d) == \E i \in DOMAIN query.filters : Matches(d, query.filters[i])
MatchesAll(d) == \A i \in DOMAIN query.filters : Matches(d, query.filters[i])

\* In order of the field asked for; neither sort is stable.
Precedes(d, e, f, reverse) ==
  IF reverse THEN d.data[f] > e.data[f] ELSE d.data[f] < e.data[f]
InOrder(s, f, reverse) ==
  \A i, j \in DOMAIN s : i < j => ~Precedes(s[j], s[i], f, reverse)

Having(D, f) == {d \in D : f \in DOMAIN d.data}
Sortings(D, f, reverse) ==
  {s \in SetToSeqs(Having(D, f)) : InOrder(s, f, reverse)}

Calling ==
  /\ query # None
  /\ calls < MaxCalls
  /\ calls' = calls + 1
  /\ UNCHANGED <<engine, index, changed>>

\* What it returns, and whether no Run and no change of filter came before.
Returns(docs) == answer' = [is |-> "docs", docs |-> docs, first |-> ~ran, same |-> ~changed]
Counts(n)  == answer' = [is |-> "count", count |-> n, first |-> ~ran, same |-> ~changed]
ReturnsError == answer' = [is |-> "error"]

----------------------------------------------------------------------------
(* memsearch. *)

\* runAndFilter and runOrFilter: either keeps a document that matches one of
\* the filters.
MemKept(d) == MatchesOne(d)

\* Both give up on an empty field name, if a document gets that far.
Invalid ==
  \E d \in ToSet(query.docs), i \in DOMAIN query.filters :
     /\ query.filters[i].field = None
     /\ \A j \in 1..(i-1) : ~Matches(d, query.filters[j])

MemKeep(filtered, d) == IF MemKept(d) THEN Append(filtered, d) ELSE filtered
MemFilter ==
  LET filtered[i \in 0..Len(query.docs)] ==
        IF i = 0 THEN <<>> ELSE MemKeep(filtered[i-1], query.docs[i])
  IN filtered[Len(query.docs)]
MemFiltered == IF query.filterType = "none" THEN query.docs ELSE MemFilter

\* bringOrder drops the documents without the field and sorts the others.
MemOrders(s) ==
  IF query.order = None THEN {s} ELSE Sortings(ToSet(s), query.order, query.reverse)

Skip(s) ==
  IF query.from > 0 /\ query.from < Len(s) THEN SubSeq(s, query.from + 1, Len(s)) ELSE s
Cut(s) ==
  IF query.limit > 0 /\ Len(s) > query.limit THEN SubSeq(s, 1, query.limit) ELSE s
PageCutFirst(s) == Skip(Cut(s))
Page(s) == Cut(Skip(s))

MemCalling == engine = "memsearch" /\ Calling /\ UNCHANGED taken

MemRun ==
  /\ MemCalling
  /\ ~Invalid
  /\ ran' = TRUE
  /\ \E s \in MemOrders(MemFiltered) :
       /\ query' = [query EXCEPT !.docs = Page(s)]
       /\ Returns(Page(s))

MemCountPage ==
  /\ MemCalling
  /\ ~Invalid
  /\ query' = [query EXCEPT !.docs = MemFiltered]
  /\ Counts(Len(Page(MemFiltered)))
  /\ UNCHANGED ran
MemCount ==
  /\ MemCalling
  /\ ~Invalid
  /\ query' = [query EXCEPT !.docs = MemFiltered]
  /\ Counts(Len(MemFiltered))
  /\ UNCHANGED ran

\* Either returns "Invalid field".
MemFails ==
  /\ MemCalling
  /\ Invalid
  /\ ReturnsError
  /\ UNCHANGED <<query, ran>>

----------------------------------------------------------------------------
(* elasticsearch: the query that Run and Count generate, and the service's  *)
(* answer to it.                                                            *)

ElasticMatches(d) ==
  CASE query.filterType = "none" -> TRUE
    [] query.filterType = "and"  -> MatchesAll(d)
    [] query.filterType = "or"   -> MatchesOne(d)

ElasticHits == {d \in DocsOf(query.kind) : ElasticMatches(d)}

\* The documents without the field come last, whichever the direction.
ElasticOrders(D) ==
  IF query.order = None THEN SetToSeqs(D)
  ELSE {p[1] \o p[2] : p \in Sortings(D, query.order, query.reverse)
                              \X SetToSeqs(D \ Having(D, query.order))}

\* From and Size are set if they are positive.
ElasticPage(s) ==
  SubSeq(s, query.from + 1,
         Min({query.from + (IF query.limit > 0 THEN query.limit ELSE DefaultSize), Len(s)}))

\* The question is put to the index as it is now.
ElasticCalling ==
  /\ engine = "elasticsearch"
  /\ Calling
  /\ taken' = DocsOf(query.kind)
  /\ UNCHANGED query

ElasticRun ==
  /\ ElasticCalling
  /\ ran' = TRUE
  /\ \E s \in ElasticOrders(ElasticHits) :
       Returns(ElasticPage(s))

ElasticCount ==
  /\ ElasticCalling
  /\ Counts(Cardinality(ElasticHits))
  /\ UNCHANGED ran

\* The request fails.
ElasticFails ==
  /\ ElasticCalling
  /\ ReturnsError
  /\ UNCHANGED ran

----------------------------------------------------------------------------
\* A query that was answered is asked again, or dropped for another one.
Next ==
  \/ \E d \in Offered : Update(d)
  \/ \E kind \in Kinds : NewQuery(kind)
  \/ \E type \in {"and", "or"} : NewFilter(type)
  \/ \E c \in Conditions : AddCondition(c)
  \/ \E num \in 0..MaxFrom : From(num)
  \/ \E num \in 0..MaxLimit : Limit(num)
  \/ \E f \in Fields, reverse \in BOOLEAN : Order(f, reverse)
  \/ MemRun \/ MemCount \/ MemFails
  \/ ElasticRun \/ ElasticCount \/ ElasticFails

Spec == Init /\ [][Next]_vars

----------------------------------------------------------------------------
(* What a query means, to the interface. *)

Satisfies(d) ==
  CASE query.filterType = "none" -> TRUE
    [] query.filterType = "or"   -> MatchesOne(d)
    [] query.filterType = "and"  -> MatchesAll(d)

Hits == {d \in taken : Satisfies(d)}

\* memsearch is asked for a conjunction, which it takes for a disjunction.
Conjunction == engine = "memsearch" /\ query.filterType = "and" /\ Len(query.filters) # 1

\* `docs` is in the order asked for, as far as its documents have the field:
\* memsearch returns no others, elasticsearch has them last.
Ordered(docs) ==
  query.order # None =>
    \A i, j \in DOMAIN docs : i < j =>
      \/ query.order \notin DOMAIN docs[j].data /\ engine = "elasticsearch"
      \/ /\ query.order \in DOMAIN docs[i].data \cap DOMAIN docs[j].data
         /\ ~Precedes(docs[j], docs[i], query.order, query.reverse)

\* The results that can be shown, and how many of them a page may have.
Shown == IF query.order # None /\ engine = "memsearch" THEN Having(Hits, query.order) ELSE Hits

PageSize ==
  CASE query.limit > 0 -> query.limit
    [] query.limit = 0 /\ engine = "memsearch" -> Cardinality(Shown)
    [] query.limit = 0 /\ engine = "elasticsearch" -> DefaultSize

----------------------------------------------------------------------------
(* Properties. *)

\* The type of every variable; a query never has a document of another kind,
\* nor one twice.
TypeOK ==
  /\ engine \in Engines
  /\ \A d \in index : IsDoc(d)
  /\ \A d, e \in index : SameKey(d, e) => d = e
  /\ query # None =>
       /\ query.kind \in Kinds
       /\ \A d \in ToSet(query.docs) : IsDoc(d) /\ d.kind = query.kind
       /\ IsInjective(query.docs)
       /\ query.filterType \in {"none", "and", "or"}
       /\ query.from \in 0..MaxFrom /\ query.limit \in 0..MaxLimit
       /\ query.order \in Fields \cup {None}
  /\ answer.is \in {"none", "docs", "count", "error"}
  /\ calls \in 0..MaxCalls /\ ran \in BOOLEAN

\* Whatever the order in which the query was built, whatever was indexed
\* meanwhile and however often it was counted as it is, Run returns as many
\* different documents that satisfy it as there are from its offset on, up to
\* its limit, in order, and skips none that should have come before them.
\* elasticsearch does so every time it is asked, memsearch the first time.
\* (Not claimed of memsearch: a filter of several conditions that are all to
\* hold, an offset past the last result; see the next properties.)
RunReturnsPage ==
  answer.is = "docs" /\ ~Conjunction
  /\ (engine = "memsearch" => answer.first /\ answer.same /\ query.from < Cardinality(Shown))
     => LET docs == answer.docs
            rest == Shown \ ToSet(docs)
            before == {d \in rest : \A e \in ToSet(docs) : Ordered(<<d, e>>)}
            after  == {d \in rest : \A e \in ToSet(docs) : Ordered(<<e, d>>)}
        IN /\ ToSet(docs) \subseteq Shown /\ IsInjective(docs)
           /\ Ordered(docs)
           /\ Len(docs) = Min({PageSize, Max({0, Cardinality(Shown) - query.from})})
           /\ docs # <<>> =>
                /\ before \cup after = rest
                /\ Cardinality(rest \ after) <= query.from
                /\ query.from <= Cardinality(before)

\* Count gives the number of documents that satisfy the query, whatever page
\* it asks for and however often it is counted: elasticsearch always,
\* memsearch before the first Run, if the query is not ordered and its
\* filter, if it asks for all conditions, has one.
CountsHits ==
  answer.is = "count" /\ ~Conjunction
  /\ (engine = "memsearch" => answer.first /\ answer.same /\ query.order = None)
     => answer.count = Cardinality(Hits)

\* "NewAndFilter would return a filter which would run AND operation among
\* individual filter queries": every document returned satisfies all of them.
AndMeansAll ==
  answer.is = "docs" /\ query.filterType = "and" =>
    \A d \in ToSet(answer.docs) : Satisfies(d)

\* "From would set the offset from the first result.  Use it along with
\* Limit(int) to do pagination": past the last result there is nothing.
NothingPastTheEnd ==
  answer.is = "docs" /\ answer.first /\ answer.same /\ query.filterType # "and"
  /\ query.from > 0 /\ query.from >= Cardinality(Shown)
     => answer.docs = <<>>

\* "Count the number of results that would be generated": by a Run.
CountsResults ==
  answer.is = "count" /\ answer.first /\ answer.same
  /\ query.from = 0 /\ query.limit = 0 /\ query.filterType # "and"
     => answer.count = Min({PageSize, Cardinality(Shown)})
=============================================================================
