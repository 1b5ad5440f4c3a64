------------------------------ MODULE Searches ------------------------------
(* GET /api/search (web_app.py): legacy sites, authorized sources and saved   *)
(* adapters are searched side by side, adapters under a time limit; the rows  *)
(* are merged in a fixed order, looked up in the media library one by one and *)
(* aggregated to one tile per identity: the id the look-up of the row gave it,*)
(* else its title. Time is a clock of ticks; ages are counted in it.          *)
EXTENDS Integers, Sequences, FiniteSets, SequencesExt

CONSTANTS
  Threads,         \* one for each request to search, within the server's slots
  Sites,           \* the legacy sites, in their order
  Customs,         \* the enabled authorized sources
  Adapters,        \* the compatible adapters, in their order
  RowsOf,          \* [sources -> the sequences of rows one may answer, or
                   \* fail with: the empty one]
  Libraries,       \* what a reading of the media library may know: of every
                   \* release label, an id, or the title where it has none
  Timeout,         \* SEARCH_ADAPTER_TIMEOUT_SECONDS
  Backoff,         \* SEARCH_ADAPTER_FAILURE_BACKOFF_SECONDS
  IndexTTL,        \* MEDIA_LIBRARY_CACHE_SECONDS
  IndexBackoff     \* JELLYFIN_FAILURE_BACKOFF_SECONDS

ASSUME TimeAssumption ==
  /\ Timeout \in Nat \ {0} /\ Backoff \in Nat /\ Timeout < Backoff
  /\ IndexTTL \in Nat \ {0} /\ IndexBackoff \in Nat \ {0}

Sources == ToSet(Sites) \cup Customs \cup ToSet(Adapters)

\* The sources have names of their own, and each answers rows of itself.
ASSUME SourcesAssumption ==
  /\ Sites \in Seq(ToSet(Sites)) /\ Adapters \in Seq(ToSet(Adapters))
  /\ IsInjective(Sites) /\ IsInjective(Adapters)
  /\ ToSet(Sites) \cap Customs = {} /\ ToSet(Sites) \cap ToSet(Adapters) = {}
  /\ Customs \cap ToSet(Adapters) = {}
  /\ \A source \in Sources : \A rows \in RowsOf[source] :
       /\ rows \in Seq(ToSet(rows))
       /\ \A row \in ToSet(rows) :
            row = [content |-> row.content, variant |-> row.variant, source |-> source,
                   url |-> row.url]

Offers == UNION {ToSet(rows) : rows \in UNION {RowsOf[source] : source \in Sources}}
Label(row) == <<row.content, row.variant>>
Labels == {Label(row) : row \in Offers}

\* No library: every title stands for itself.
Untold == [label \in Labels |-> label[1]]
Identities == {library[label] : library \in Libraries \cup {Untold}, label \in Labels}

ASSUME LibrariesAssumption ==
  \A library \in Libraries : library = [label \in Labels |-> library[label]]

VARIABLES
  search,          \* of every thread, its search
  pausedFor,       \* of every adapter, the ticks it is still left alone
  index,           \* JELLYFIN_LIBRARY_CACHE: what it knows, its age, and that
                   \* of what it holds
  indexPause       \* ticks left of the failure back-off

searchVars == <<search, pausedFor, index, indexPause>>

NoIndex == [full |-> FALSE, known |-> Untold, age |-> IndexTTL, since |-> IndexTTL]
NoSearch == [phase |-> "idle", retried |-> FALSE, age |-> 0,
             site |-> 1, legacy |-> <<>>, errors |-> FALSE,
             customs |-> {}, custom |-> <<>>, asked |-> {}, adapters |-> <<>>,
             rows |-> <<>>, names |-> <<>>, asking |-> -1, seen |-> 0, waited |-> 0]
SearchInit ==
  /\ search = [t \in Threads |-> NoSearch]
  /\ pausedFor = [i \in DOMAIN Adapters |-> 0]
  /\ index = NoIndex /\ indexPause = 0

Handling == {t \in Threads : search[t].phase \in {"search", "label"}}
IndexOnly == UNCHANGED pausedFor
SearchOnly == UNCHANGED <<pausedFor, index, indexPause>>

\* All three parts start at once; an adapter that is paused is not asked.
Parts(retried) ==
  [NoSearch EXCEPT !.phase = "search", !.retried = retried, !.customs = Customs,
     !.asked = {i \in DOMAIN Adapters : pausedFor[i] = 0},
     !.adapters = [i \in DOMAIN Adapters |-> <<>>]]

\* A request that finds no free slot is answered as busy and changes nothing.
StartSearch(t) ==
  /\ search[t].phase = "idle"
  /\ search' = [search EXCEPT ![t] = Parts(FALSE)] /\ SearchOnly

\* One legacy site after the other; a failing one is noted.
AskSite(t) ==
  /\ search[t].phase = "search" /\ search[t].site <= Len(Sites)
  /\ \/ \E rows \in RowsOf[Sites[search[t].site]] :
          search' = [search EXCEPT ![t].site = @ + 1, ![t].legacy = @ \o rows]
     \/ search' = [search EXCEPT ![t].site = @ + 1, ![t].errors = TRUE]
  /\ SearchOnly

\* The authorized sources in the order they answer, read once the legacy sites
\* are done; a failing one has no rows.
CustomAnswers(t, c) ==
  /\ search[t].phase = "search" /\ search[t].site > Len(Sites) /\ c \in search[t].customs
  /\ \E rows \in RowsOf[c] :
       search' = [search EXCEPT ![t].customs = @ \ {c}, ![t].custom = @ \o rows]
  /\ SearchOnly

\* An adapter answers, or fails, in time. Nothing makes one answer.
AdapterAnswers(t, i) ==
  /\ i \in search[t].asked
  /\ \E rows \in RowsOf[Adapters[i]] :
       search' = [search EXCEPT ![t].asked = @ \ {i}, ![t].adapters[i] = rows]
  /\ SearchOnly

\* Mutant: an adapter that does not answer is waited for.
KeepWaiting(t) == FALSE

\* At the limit the others are left, and left alone; the back-off counts from
\* the start of the search.
AdaptersTimeOut(t) ==
  /\ search[t].asked # {} /\ search[t].age >= Timeout
  /\ search' = [search EXCEPT ![t].asked = {}]
  /\ pausedFor' = [i \in DOMAIN Adapters |->
                     IF i \in search[t].asked THEN Backoff - search[t].age ELSE pausedFor[i]]
  /\ UNCHANGED <<index, indexPause>>

PartsDone(t) == /\ search[t].phase = "search" /\ search[t].site > Len(Sites)
                /\ search[t].customs = {} /\ search[t].asked = {}

\* Nothing from the legacy sites but errors fails the whole search.
SearchFails(t) ==
  /\ PartsDone(t) /\ search[t].errors /\ search[t].legacy = <<>>
  /\ search' = [search EXCEPT ![t] = [NoSearch EXCEPT !.phase = "failed"]] /\ SearchOnly

\* Mutant: the adapters' rows come first.
AdaptersFirst(s) == FlattenSeq(s.adapters) \o s.legacy \o s.custom
\* The established order: legacy rows, then those of the authorized sources,
\* then the adapters' in the adapters' order.
Established(s) == s.legacy \o s.custom \o FlattenSeq(s.adapters)

\* A title keeps the words of its variant here (the module's own
\* normalized_title): rows of one page that differ in quality are both kept.
RowKey(row) == <<row.content, row.variant, row.source, row.url>>

\* A row that was there already is dropped.
MergedRows(s) ==
  LET rows == Established(s)
      first == {i \in DOMAIN rows : \A j \in 1..i-1 : RowKey(rows[j]) # RowKey(rows[i])}
  IN [k \in 1..Cardinality(first) |->
        rows[CHOOSE i \in first : Cardinality({j \in first : j <= i}) = k]]

\* An episode's query with a year that found nothing is tried once more,
\* without the year.
Retry(t) ==
  /\ PartsDone(t) /\ ~(search[t].errors /\ search[t].legacy = <<>>)
  /\ ~search[t].retried /\ search[t].legacy = <<>> /\ search[t].custom = <<>>
  /\ \A i \in DOMAIN Adapters : search[t].adapters[i] = <<>>
  /\ search' = [search EXCEPT ![t] = Parts(TRUE)] /\ SearchOnly

MergeParts(t) ==
  /\ PartsDone(t) /\ ~(search[t].errors /\ search[t].legacy = <<>>)
  /\ search' = [search EXCEPT ![t].phase = "label", ![t].retried = FALSE, ![t].age = 0,
                              ![t].errors = FALSE, ![t].rows = MergedRows(search[t])]
  /\ SearchOnly

\* Each row is looked up by its label, in the library index: the cached one
\* while it is recent, none during a back-off, else a new one is asked for.
Labelled(s) == Len(s.names)
Labelling(t) == /\ search[t].phase = "label" /\ search[t].asking = -1
                /\ Labelled(search[t]) < Len(search[t].rows)
Recent == index.full /\ index.age < IndexTTL

Longer(a, b) == IF a > b THEN a ELSE b
\* The next row gets the id its label has in the library, if any, of a reading
\* that is so old, and that the search itself has waited for. A file system that
\* is listed in place of the index has no ids.
LookedUp(s, library, age, wait) ==
  [s EXCEPT !.asking = -1, !.seen = Longer(@, age), !.waited = Longer(@, wait),
            !.names = Append(@, library[Label(s.rows[Labelled(s) + 1])])]

UseIndex(t) ==
  /\ Labelling(t) /\ Recent
  /\ search' = [search EXCEPT ![t] = LookedUp(@, index.known, index.since, 0)]
  /\ SearchOnly

SkipIndex(t) ==
  /\ Labelling(t) /\ ~Recent /\ indexPause > 0
  /\ search' = [search EXCEPT ![t] = LookedUp(@, Untold, 0, 0)] /\ SearchOnly

AskIndex(t) ==
  /\ Labelling(t) /\ ~Recent /\ indexPause = 0
  /\ search' = [search EXCEPT ![t].asking = 0] /\ SearchOnly

\* Mutant: with the time it arrived.
ArrivedIndex(library, asked) ==
  [full |-> TRUE, known |-> library, age |-> 0, since |-> asked]
AskedIndex(library, asked) ==
  [full |-> TRUE, known |-> library, age |-> asked, since |-> asked]

\* The index is stored with the time it was asked for, and used for the row
\* however slow it was; an empty one is no cache, and is asked for again with
\* the next row.
IndexArrives(t) ==
  /\ search[t].asking >= 0
  /\ \/ \E library \in Libraries :
          /\ search' = [search EXCEPT ![t] = LookedUp(@, library, @.asking, @.asking)]
          /\ index' = AskedIndex(library, search[t].asking)
     \/ /\ search' = [search EXCEPT ![t] = LookedUp(@, Untold, 0, 0)]
        /\ index' = NoIndex
  /\ indexPause' = 0 /\ IndexOnly

IndexFails(t) ==
  /\ search[t].asking >= 0
  /\ search' = [search EXCEPT ![t] = LookedUp(@, Untold, 0, 0)]
  /\ indexPause' = IF IndexBackoff > search[t].asking THEN IndexBackoff - search[t].asking ELSE 0
  /\ UNCHANGED index /\ IndexOnly

\* A library refresh was accepted: nothing older is to be used.
RefreshLibrary ==
  /\ index.full \/ indexPause > 0
  /\ index' = NoIndex /\ indexPause' = 0
  /\ UNCHANGED <<search, pausedFor>>

\* The rows as they are told apart from here on: a row whose look-up gave an id
\* goes by that id, another by its title.
Identified(s) == [i \in DOMAIN s.rows |-> [s.rows[i] EXCEPT !.content = s.names[i]]]

\* A row joins the content of its identity and the release variant of its
\* label; a source that is listed for the variant already is not listed twice.
WithSource(variant, row) ==
  IF \E i \in DOMAIN variant.sources :
       variant.sources[i].source = row.source /\ variant.sources[i].url = row.url
  THEN variant ELSE [variant EXCEPT !.sources = Append(@, row)]

WithVariant(content, row) ==
  IF \E i \in DOMAIN content.variants : content.variants[i].name = row.variant
  THEN [content EXCEPT !.variants =
          [i \in DOMAIN @ |-> IF @[i].name = row.variant THEN WithSource(@[i], row) ELSE @[i]]]
  ELSE [content EXCEPT !.variants = Append(@, [name |-> row.variant, sources |-> <<row>>])]

WithRow(contents, row) ==
  IF \E i \in DOMAIN contents : contents[i].name = row.content
  THEN [i \in DOMAIN contents |->
          IF contents[i].name = row.content THEN WithVariant(contents[i], row) ELSE contents[i]]
  ELSE Append(contents, WithVariant([name |-> row.content, variants |-> <<>>], row))

Aggregated(rows) == FoldLeft(WithRow, <<>>, rows)

AnswerSearch(t) ==
  /\ search[t].phase = "label" /\ search[t].asking = -1
  /\ Labelled(search[t]) = Len(search[t].rows)
  /\ search' = [search EXCEPT ![t].phase = "answered", ![t].seen = 0, ![t].waited = 0]
  /\ SearchOnly

\* The tile of a content: the first source of its first variant.
Tile(content) == content.variants[1].sources[1]

\* Time passes, but not past the limit of a search that still waits.
Older(age, limit) == IF age < limit THEN age + 1 ELSE age
Younger(left) == IF left > 0 THEN left - 1 ELSE 0
Tick ==
  /\ \A t \in Threads : search[t].asked # {} => search[t].age < Timeout
  /\ search' = [t \in Threads |->
       [search[t] EXCEPT !.age = IF search[t].asked # {} THEN @ + 1 ELSE @,
                         !.asking = IF @ >= 0 THEN Older(@, IndexTTL) ELSE @]]
  /\ pausedFor' = [i \in DOMAIN Adapters |-> Younger(pausedFor[i])]
  /\ index' = [index EXCEPT !.age = Older(@, IndexTTL), !.since = Older(@, IndexTTL)]
  /\ indexPause' = Younger(indexPause)

\* What a search does without waiting for an adapter.
SearchProgress(t) ==
  \/ AskSite(t) \/ \E c \in Customs : CustomAnswers(t, c)
  \/ AdaptersTimeOut(t) \/ SearchFails(t) \/ Retry(t) \/ MergeParts(t)
  \/ UseIndex(t) \/ SkipIndex(t) \/ AskIndex(t) \/ IndexArrives(t) \/ IndexFails(t)
  \/ AnswerSearch(t)

SearchUsers ==
  \/ \E t \in Threads : StartSearch(t)
  \/ \E t \in Threads, i \in DOMAIN Adapters : AdapterAnswers(t, i)
  \/ RefreshLibrary

\* Part of the type invariant of the composition.
SearchTypeOK ==
  /\ \A i \in DOMAIN Adapters : pausedFor[i] \in 0..(Backoff - Timeout)
  /\ index.age \in 0..IndexTTL /\ index.since \in 0..IndexTTL /\ indexPause \in 0..IndexBackoff
  /\ \A t \in Threads :
       /\ search[t].age \in 0..Timeout
       /\ search[t].seen \in 0..IndexTTL
       /\ search[t].waited \in 0..IndexTTL
       /\ Labelled(search[t]) <= Len(search[t].rows)

\* The order of the sources, whichever answered first.
Rank(source) ==
  CASE \E i \in DOMAIN Sites : Sites[i] = source -> CHOOSE i \in DOMAIN Sites : Sites[i] = source
    [] source \in Customs -> Len(Sites) + 1
    [] OTHER -> Len(Sites) + 1 + (CHOOSE i \in DOMAIN Adapters : Adapters[i] = source)

\* No row that a source returned in time is lost, and every one is listed in the
\* one tile of the identity its look-up gave it, which is of the first source, in
\* the established order, that has a row of that identity. (One title whose rows
\* were told differently, the index being read, lost or refused in between, has
\* two tiles; two titles with one id have one.)
TileIsFirstSource ==
  \A t \in Threads : search[t].phase = "answered" =>
    LET rows == ToSet(Identified(search[t]))
        contents == Aggregated(Identified(search[t]))
    IN /\ ToSet(search[t].rows) =
            ToSet(search[t].legacy) \cup ToSet(search[t].custom)
              \cup UNION {ToSet(search[t].adapters[i]) : i \in DOMAIN Adapters}
       /\ {contents[i].name : i \in DOMAIN contents} = {row.content : row \in rows}
       /\ \A i, j \in DOMAIN contents : contents[i].name = contents[j].name => i = j
       /\ \A i \in DOMAIN contents : \A row \in rows :
            row.content = contents[i].name =>
              /\ Rank(Tile(contents[i]).source) <= Rank(row.source)
              /\ \E v \in DOMAIN contents[i].variants :
                   /\ contents[i].variants[v].name = row.variant
                   /\ row \in ToSet(contents[i].variants[v].sources)

\* What a search is told of the library was read from it less than the time to
\* live ago, also when the answer to that reading was slow; only what it asked
\* for itself may be as old as it had to wait for it.
IndexIsRecent ==
  \A t \in Threads : search[t].seen < IndexTTL \/ search[t].seen <= search[t].waited
=============================================================================
