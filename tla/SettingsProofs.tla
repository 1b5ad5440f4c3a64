--------------------------- MODULE SettingsProofs ---------------------------
(***************************************************************************)
(* Proofs about the admin requests: any number of threads, folders, URLs    *)
(* and adapters, in any interleaving, with restarts and folders that come   *)
(* and go at any point.                                                     *)
(*                                                                         *)
(* The argument is the history of a request: one that is "alone" is the     *)
(* only one under way, so what it read is still what the table or the       *)
(* directory holds when it assigns it to the globals of the process.  The   *)
(* data part is a count: the UNIQUE constraint leaves room for the sites    *)
(* that apply_persisted_configuration saves as sources.                     *)
(***************************************************************************)
EXTENDS Settings, FiniteSetTheorems, TLAPS

SavedRow == [blank : BOOLEAN, movie : SUBSET Folders, tv : SUBSET Folders]
AdapterIds == Adapters \cup {NewAdapter}
Registries == UNION {[ids -> Adapter] : ids \in SUBSET AdapterIds}
Globals == [movie : SUBSET Folders, tv : SUBSET Folders,
            media : SUBSET Folders, sites : SUBSET Urls]
Tasks == SetupTasks \cup SourceTasks \cup DropTasks \cup AdapterTasks
Phases == {"idle", "write", "apply", "assign", "sites", "list", "load", "failed"}
Reads == SavedRow \cup Source \cup (SUBSET Ids) \cup Adapter \cup Registries \cup {NoTask}
Request == [task : Tasks \cup {NoTask}, pc : Phases, read : Reads, alone : BOOLEAN]

\* The sources are a table with ids and UNIQUE URLs.
SourceTable(srcs) ==
  /\ DOMAIN srcs \subseteq Ids
  /\ srcs \in [DOMAIN srcs -> Source]
  /\ UniqueUrls(srcs)

\* What a thread read before it writes is of the kind its task needs.
ReadMatches(task, read) ==
  /\ task.op \in {"addRoot", "removeRoot"} => read \in SavedRow
  /\ task.op = "toggle" => read \in Source
  /\ task.op = "autoSetup" => read \in SUBSET Ids
  /\ task.op \in InPlace => read \in Adapter

WellFormed(r) ==
  /\ r.pc = "write" => r.task \in Tasks /\ ReadMatches(r.task, r.read)
  /\ r.pc = "assign" => r.read \in SavedRow
  /\ r.pc = "load" => r.read \in Registries

ValuesOK ==
  /\ saved \in SavedRow /\ SourceTable(sources)
  /\ running \in Globals /\ running.sites # {}
  /\ files \in Registries /\ loaded \in Registries
  /\ present \in SUBSET Folders /\ dropped \in SUBSET Urls
RequestsOK == admin \in [Admins -> Request] /\ \A a \in Admins : WellFormed(admin[a])

-----------------------------------------------------------------------------
(* Tables and registries.                                                   *)

LEMMA RegistryFacts ==
  ASSUME NEW f
  PROVE  f \in Registries <=> DOMAIN f \subseteq AdapterIds /\ f \in [DOMAIN f -> Adapter]
BY DEF Registries

\* The table has a free id for every URL it does not have, and one more.
LEMMA RoomForUrls ==
  ASSUME NEW srcs, SourceTable(srcs),
         NEW urls \in SUBSET Urls, urls \cap UrlsOf(srcs, DOMAIN srcs) = {}
  PROVE  /\ \E id \in [urls -> Ids] : IsInjective(id) /\ Range(id) \cap DOMAIN srcs = {}
         /\ Ids \ DOMAIN srcs # {}
<1> DEFINE h == [i \in DOMAIN srcs |-> srcs[i].url]
           free == Ids \ DOMAIN srcs
           n == Cardinality(urls)
<1>1. /\ IsFiniteSet(Urls) /\ MaxSources \in Nat /\ Cardinality(Urls) < MaxSources
      /\ IsFiniteSet(Ids) /\ Cardinality(Ids) = MaxSources
  BY SettingsAssumption, FS_Interval DEF Ids
<1>2. /\ IsFiniteSet(urls) /\ IsFiniteSet(Urls \ urls)
      /\ Cardinality(urls) \in Nat /\ Cardinality(Urls) \in Nat
      /\ Cardinality(Urls \ urls) = Cardinality(Urls) - n
  <2>1. Urls \cap urls = urls
    OBVIOUS
  <2>2. /\ IsFiniteSet(urls) /\ Cardinality(urls) \in Nat
        /\ Cardinality(Urls) \in Nat
    BY <1>1, FS_Subset, FS_CardinalityType
  <2>3. /\ IsFiniteSet(Urls \ urls)
        /\ Cardinality(Urls \ urls) = Cardinality(Urls) - Cardinality(Urls \cap urls)
    BY <1>1, FS_Difference, Zenon
  <2> QED BY <2>1, <2>2, <2>3
<1>3. h \in Injection(DOMAIN srcs, Urls \ urls)
  <2>1. h \in [DOMAIN srcs -> Urls \ urls]
    BY DEF SourceTable, Source, UrlsOf
  <2>2. IsInjective(h)
    BY DEF IsInjective, SourceTable, UniqueUrls
  <2> QED BY <2>1, <2>2 DEF Injection
<1>4. IsFiniteSet(DOMAIN srcs) /\ Cardinality(DOMAIN srcs) <= Cardinality(Urls) - n
  BY <1>2, <1>3, FS_Injection
<1>5. /\ IsFiniteSet(free) /\ Cardinality(free) \in Nat
      /\ Cardinality(free) > n
  <2>1. Ids \cap DOMAIN srcs = DOMAIN srcs
    BY DEF SourceTable
  <2>2. /\ IsFiniteSet(free)
        /\ Cardinality(free) = MaxSources - Cardinality(DOMAIN srcs)
    BY <1>1, <2>1, FS_Difference
  <2>3. Cardinality(DOMAIN srcs) \in Nat /\ Cardinality(free) \in Nat
    BY <1>4, <2>2, FS_CardinalityType
  <2> QED BY <1>1, <1>2, <1>4, <2>2, <2>3
<1>6. PICK f \in Bijection(urls, 1 .. n) : TRUE
  <2>1. IsFiniteSet(1 .. n) /\ Cardinality(1 .. n) = n
    BY <1>2, FS_Interval
  <2> QED BY <1>2, <2>1, FS_SameCardinalityBij DEF ExistsBijection
<1>7. PICK g \in Bijection(1 .. Cardinality(free), free) : TRUE
  BY <1>5, FS_CardinalityType DEF ExistsBijection
<1>8. free # {}
  BY <1>2, <1>5, FS_EmptySet
<1> DEFINE id == [u \in urls |-> g[f[u]]]
<1>9. /\ f \in [urls -> 1 .. n] /\ IsInjective(f)
      /\ g \in [1 .. Cardinality(free) -> free] /\ IsInjective(g)
  BY <1>6, <1>7 DEF Bijection, Injection
<1>10. \A u \in urls : f[u] \in 1 .. Cardinality(free)
  BY <1>2, <1>5, <1>9
<1> HIDE DEF n, free
<1>11. id \in [urls -> free] /\ IsInjective(id)
  BY <1>9, <1>10 DEF IsInjective
<1> QED BY <1>8, <1>11 DEF Range, free

\* What apply_persisted_configuration saves of the sites searched so far: a
\* table that still has each URL once, and every site enabled.
LEMMA SeededTable ==
  ASSUME SourceTable(sources),
         NEW urls \in SUBSET Urls, urls \cap UrlsOf(sources, DOMAIN sources) = {}
  PROVE  /\ SourceTable(Seeded(urls))
         /\ urls \subseteq UrlsOf(Seeded(urls), Enabled(Seeded(urls)))
<1> DEFINE id == CHOOSE f \in [urls -> Ids] :
                   IsInjective(f) /\ Range(f) \cap DOMAIN sources = {}
           urlOf(i) == CHOOSE u \in urls : id[u] = i
           grown == Seeded(urls)
<1>1. id \in [urls -> Ids] /\ IsInjective(id) /\ Range(id) \cap DOMAIN sources = {}
  BY RoomForUrls
<1> HIDE DEF id
<1>2. \A i \in Range(id) : urlOf(i) \in urls /\ id[urlOf(i)] = i
  BY <1>1 DEF Range
<1>3. \A u \in urls : id[u] \in Range(id) /\ urlOf(id[u]) = u
  BY <1>1, <1>2 DEF Range, IsInjective
<1> HIDE DEF urlOf
<1>4. grown = [i \in DOMAIN sources \cup Range(id) |->
                 IF i \in DOMAIN sources THEN sources[i]
                 ELSE [url |-> urlOf(i), parser |-> "compatible-search", enabled |-> TRUE]]
  BY DEF Seeded, id, urlOf
<1> HIDE DEF grown
<1>5. /\ DOMAIN grown = DOMAIN sources \cup Range(id)
      /\ \A i \in DOMAIN sources : grown[i] = sources[i]
      /\ \A i \in Range(id) : /\ grown[i].url = urlOf(i) /\ grown[i].enabled
                              /\ grown[i] \in Source
  BY <1>1, <1>2, <1>4 DEF Source, Parsers
<1>6. grown \in [DOMAIN grown -> Source]
  BY <1>4, <1>5 DEF SourceTable
<1>7. DOMAIN grown \subseteq Ids
  BY <1>1, <1>5 DEF SourceTable, Range
<1>8. UniqueUrls(grown)
  <2> SUFFICES ASSUME NEW i \in DOMAIN grown, NEW j \in DOMAIN grown,
                      grown[i].url = grown[j].url
               PROVE  i = j
    BY DEF UniqueUrls
  <2>1. \A k \in DOMAIN sources : sources[k].url \notin urls
    BY DEF UrlsOf
  <2> QED BY <1>2, <1>5, <2>1 DEF SourceTable, UniqueUrls
<1>9. \A u \in urls : \E i \in DOMAIN grown : grown[i].enabled /\ grown[i].url = u
  BY <1>3, <1>5
<1> QED BY <1>6, <1>7, <1>8, <1>9 DEF SourceTable, UrlsOf, Enabled, grown

\* A source that is written or removed by its id.
LEMMA PutSource ==
  ASSUME NEW srcs, SourceTable(srcs), NEW id \in Ids, NEW source \in Source
  PROVE  /\ DOMAIN Put(srcs, id, source) \subseteq Ids
         /\ Put(srcs, id, source) \in [DOMAIN Put(srcs, id, source) -> Source]
BY DEF SourceTable, Put

LEMMA WithoutSource ==
  ASSUME NEW srcs, SourceTable(srcs), NEW id
  PROVE  SourceTable(Without(srcs, id))
BY DEF SourceTable, Without, UniqueUrls

LEMMA PutAdapter ==
  ASSUME NEW f \in Registries, NEW id \in AdapterIds, NEW adapter \in Adapter
  PROVE  Put(f, id, adapter) \in Registries /\ Without(f, id) \in Registries
<1>1. DOMAIN f \subseteq AdapterIds /\ f \in [DOMAIN f -> Adapter]
  BY RegistryFacts
<1>2. /\ DOMAIN Put(f, id, adapter) \subseteq AdapterIds
      /\ Put(f, id, adapter) \in [DOMAIN Put(f, id, adapter) -> Adapter]
  BY <1>1 DEF Put
<1>3. /\ DOMAIN Without(f, id) \subseteq AdapterIds
      /\ Without(f, id) \in [DOMAIN Without(f, id) -> Adapter]
  BY <1>1 DEF Without
<1> QED BY <1>2, <1>3, RegistryFacts

LEMMA ChangedAdapter ==
  ASSUME NEW f \in Registries, NEW id \in DOMAIN f, NEW b \in BOOLEAN
  PROVE  /\ [f EXCEPT ![id].enabled = b] \in Registries
         /\ [f EXCEPT ![id].passed = b] \in Registries
<1>1. DOMAIN f \subseteq AdapterIds /\ f \in [DOMAIN f -> Adapter]
  BY RegistryFacts
<1>2. /\ [f[id] EXCEPT !.enabled = b] \in Adapter
      /\ [f[id] EXCEPT !.passed = b] \in Adapter
  BY <1>1 DEF Adapter
<1>3. /\ [f EXCEPT ![id].enabled = b] \in [DOMAIN f -> Adapter]
      /\ [f EXCEPT ![id].passed = b] \in [DOMAIN f -> Adapter]
  BY <1>1, <1>2
<1> QED BY <1>1, <1>3, RegistryFacts

\* What apply_persisted_configuration leaves is some site to search.
LEMMA SomeSiteRemains ==
  ASSUME NEW srcs, Compatible(srcs) # {}
  PROVE  UrlsOf(srcs, Compatible(srcs)) # {}
BY DEF UrlsOf

-----------------------------------------------------------------------------
(* What the steps do to the requests.                                       *)

LEMMA TaskKinds ==
  /\ \A t \in SetupTasks : t.op \in {"save", "addRoot", "removeRoot"}
  /\ \A t \in SourceTasks : t.op \in {"saveSource", "autoSetup", "toggle", "delete"}
  /\ \A t \in DropTasks : t.op = "drop"
  /\ \A t \in AdapterTasks : t.op \in {"toggleAdapter", "toggleLoaded", "deleteAdapter",
                                        "testAdapter", "retestAdapter", "saveAdapter"}
  /\ (SetupTasks \cup SourceTasks) \cap (DropTasks \cup AdapterTasks) = {}
  /\ DropTasks \cap AdapterTasks = {}
<1>1. \A t \in SetupTasks : t.op \in {"save", "addRoot", "removeRoot"}
  BY DEF SetupTasks
<1>2. \A t \in SourceTasks : t.op \in {"saveSource", "autoSetup", "toggle", "delete"}
  BY DEF SourceTasks
<1>3. \A t \in AdapterTasks : t.op \in {"toggleAdapter", "toggleLoaded", "deleteAdapter",
                                         "testAdapter", "retestAdapter", "saveAdapter"}
  BY DEF AdapterTasks
<1>4. \A t \in DropTasks : t.op = "drop"
  BY DEF DropTasks
<1> QED BY <1>1, <1>2, <1>3, <1>4

\* A thread goes on with its request, with a new value read or the old one.
LEMMA RequestGoesOn ==
  ASSUME NEW r \in Request, NEW pc \in Phases, NEW read \in Reads
  PROVE  /\ [r EXCEPT !.pc = pc] \in Request
         /\ [r EXCEPT !.pc = pc, !.read = read] \in Request
         /\ [r EXCEPT !.alone = FALSE] \in Request
BY DEF Request

LEMMA GotoEffect ==
  ASSUME RequestsOK, NEW a \in Admins, NEW pc \in Phases, Goto(a, pc)
  PROVE  /\ admin' \in [Admins -> Request]
         /\ \A b \in Admins \ {a} : admin'[b] = admin[b]
         /\ admin'[a].pc = pc /\ admin'[a].task = admin[a].task
         /\ admin'[a].read = admin[a].read /\ admin'[a].alone = admin[a].alone
<1>1. admin[a] \in Request /\ admin[a].read \in Reads
  BY DEF RequestsOK, Request
<1>2. [admin[a] EXCEPT !.pc = pc] \in Request
  BY <1>1, RequestGoesOn
<1>3. admin' = [admin EXCEPT ![a] = [admin[a] EXCEPT !.pc = pc]]
  BY DEF Goto
<1>4. /\ [admin[a] EXCEPT !.pc = pc].pc = pc
      /\ [admin[a] EXCEPT !.pc = pc].task = admin[a].task
      /\ [admin[a] EXCEPT !.pc = pc].read = admin[a].read
      /\ [admin[a] EXCEPT !.pc = pc].alone = admin[a].alone
  BY <1>1 DEF Request
<1> DEFINE r == [admin[a] EXCEPT !.pc = pc]
<1> HIDE DEF r
<1>5. admin' = [admin EXCEPT ![a] = r] /\ r \in Request
  BY <1>2, <1>3 DEF r
<1>6. admin' \in [Admins -> Request] /\ admin'[a] = r
      /\ \A b \in Admins \ {a} : admin'[b] = admin[b]
  BY <1>5 DEF RequestsOK
<1> QED BY <1>4, <1>6 DEF r

LEMMA ReplacedEffect ==
  ASSUME RequestsOK, NEW a \in Admins, NEW r \in Request, admin' = [admin EXCEPT ![a] = r]
  PROVE  /\ admin' \in [Admins -> Request]
         /\ \A b \in Admins \ {a} : admin'[b] = admin[b]
         /\ admin'[a] = r
BY DEF RequestsOK

LEMMA EndsEffect ==
  ASSUME RequestsOK, NEW a \in Admins, Ends(a)
  PROVE  /\ admin' \in [Admins -> Request]
         /\ \A b \in Admins \ {a} : admin'[b] = admin[b]
         /\ admin'[a].pc = "idle" /\ WellFormed(admin'[a])
<1>1. Quiet \in Request /\ Quiet.pc = "idle"
  BY DEF Quiet, Request, Phases, Reads
<1>2. admin' \in [Admins -> Request] /\ admin'[a] = Quiet
      /\ \A b \in Admins \ {a} : admin'[b] = admin[b]
  BY <1>1 DEF Ends, RequestsOK
<1> QED BY <1>1, <1>2 DEF WellFormed

-----------------------------------------------------------------------------
(* The inductive invariant.                                                 *)

\* The request is one of the configuration, or of the adapters.
Configuring(a) ==
  \/ admin[a].pc \in {"apply", "assign", "sites", "failed"}
  \/ /\ admin[a].pc = "write"
     /\ admin[a].task \notin DropTasks \cup AdapterTasks
Registering(a) ==
  \/ admin[a].pc \in {"list", "load"}
  \/ /\ admin[a].pc = "write"
     /\ admin[a].task \in AdapterTasks

FoldersRun ==
  /\ saved.movie # {} => running.movie = saved.movie
  /\ saved.tv # {} => running.tv = saved.tv
  /\ running.media = (saved.movie \cup saved.tv) \cap present
Searchable(srcs, all) == UrlsOf(srcs, IF all THEN Enabled(srcs) ELSE Compatible(srcs))
SitesRun ==
  /\ running.sites = Searchable(sources, seeded) \cup dropped
  /\ running.sites # {}

\* What a request that is alone has read is what is there.
AloneInv ==
  \A a \in Admins : admin[a].alone /\ admin[a].pc # "idle" =>
    /\ \A b \in Admins \ {a} : admin[b].pc = "idle"
    /\ admin[a].pc = "assign" => admin[a].read = saved
    /\ admin[a].pc = "sites" => FoldersRun
    /\ admin[a].pc = "load" => admin[a].read = files
SettledInv == settled => FoldersRun /\ SitesRun /\ \A a \in Admins : ~Configuring(a)
AgreedInv == agreed => loaded = files /\ \A a \in Admins : ~Registering(a)

SettingsInv == ValuesOK /\ RequestsOK /\ AloneInv /\ SettledInv /\ AgreedInv

LEMMA InitValues == ASSUME Init PROVE ValuesOK /\ RequestsOK
<1>1. saved \in SavedRow
  BY DEF Init, SavedRow
<1>2. SourceTable(sources)
  BY DEF Init, SourceTable, UniqueUrls
<1>3. running \in Globals /\ running.sites # {}
  BY SettingsAssumption DEF Init, Environment, Globals
<1>4. files \in Registries /\ loaded \in Registries
  <2>1. files \in [Adapters -> Adapter] /\ DOMAIN files \subseteq AdapterIds
    BY DEF Init, Adapter, AdapterIds
  <2>2. loaded = files
    BY DEF Init
  <2> QED BY <2>1, <2>2, RegistryFacts
<1>8. present \in SUBSET Folders /\ dropped \in SUBSET Urls
  BY DEF Init
<1>5. /\ Quiet \in Request /\ Quiet.pc = "idle" /\ "apply" \in Phases
      /\ NoTask \in Reads
  BY DEF Quiet, Request, Phases, Reads
<1>6. [Quiet EXCEPT !.pc = "apply"] \in Request /\ [Quiet EXCEPT !.pc = "apply"].pc = "apply"
  BY <1>5, RequestGoesOn DEF Quiet
<1>7. RequestsOK
  BY <1>5, <1>6 DEF Init, RequestsOK, WellFormed
<1> QED BY <1>1, <1>2, <1>3, <1>4, <1>7, <1>8 DEF ValuesOK

-----------------------------------------------------------------------------
(* Every step keeps the values in their types.                              *)

LEMMA WrittenSettings ==
  ASSUME ValuesOK, RequestsOK, NEW a \in Admins, WriteSettings(a)
  PROVE  saved' \in SavedRow
<1> DEFINE task == admin[a].task
           read == admin[a].read
<1>1. /\ task \in SetupTasks /\ task.op \in {"save", "addRoot", "removeRoot"}
      /\ ReadMatches(task, read)
  BY TaskKinds DEF WriteSettings, RequestsOK, WellFormed
<1>2. CASE task.op = "save"
  <2>1. task.movie \in SUBSET Folders /\ task.tv \in SUBSET Folders
    BY <1>1, <1>2, SettingsAssumption DEF SetupTasks
  <2>2. saved' = [blank |-> FALSE, movie |-> task.movie, tv |-> task.tv]
    BY <1>2 DEF WriteSettings
  <2> QED BY <2>1, <2>2 DEF SavedRow
<1>3. CASE task.op = "addRoot"
  <2>1. /\ task.folder \in Folders /\ task.kind \in {"movie", "tv"}
        /\ read \in SavedRow
    BY <1>1, <1>3 DEF SetupTasks, ReadMatches
  <2>2. saved' = [read EXCEPT ![task.kind] = @ \cup {task.folder}]
    BY <1>3 DEF WriteSettings
  <2>3. CASE task.kind = "movie"
    BY <2>1, <2>2, <2>3 DEF SavedRow
  <2>4. CASE task.kind = "tv"
    BY <2>1, <2>2, <2>4 DEF SavedRow
  <2> QED BY <2>1, <2>3, <2>4
<1>4. CASE task.op = "removeRoot"
  <2>1. read \in SavedRow
    BY <1>1, <1>4 DEF ReadMatches
  <2>2. saved' = [read EXCEPT !.movie = @ \ {task.folder}, !.tv = @ \ {task.folder}]
    BY <1>4 DEF WriteSettings
  <2> QED BY <2>1, <2>2 DEF SavedRow
<1> QED BY <1>1, <1>2, <1>3, <1>4

\* The UNIQUE constraint, and a free id for a source of a new URL.
LEMMA WrittenSources ==
  ASSUME ValuesOK, RequestsOK, NEW a \in Admins, WriteSource(a)
  PROVE  SourceTable(sources')
<1> DEFINE task == admin[a].task
           read == admin[a].read
           after == Written(task, read)
<1>1. /\ task \in SourceTasks /\ ReadMatches(task, read)
      /\ task.op \in {"saveSource", "autoSetup", "toggle", "delete"}
  BY TaskKinds DEF WriteSource, RequestsOK, WellFormed
<1>2. SourceTable(sources)
  BY DEF ValuesOK
<1>3. DOMAIN after \subseteq Ids /\ after \in [DOMAIN after -> Source]
  <2>1. CASE task.op = "saveSource"
    <3> DEFINE source == [url |-> task.url, parser |-> task.parser, enabled |-> TRUE]
    <3>1. task.id \in Ids /\ source \in Source
      BY <1>1, <2>1 DEF SourceTasks, Source
    <3>2. after = Put(sources, task.id, source)
      BY <2>1 DEF Written
    <3> HIDE DEF source, after
    <3> QED BY <1>2, <3>1, <3>2, PutSource
  <2>2. CASE task.op = "autoSetup"
    <3> DEFINE source == [url |-> task.url, parser |-> "custom-authorized", enabled |-> TRUE]
               id == IF read # {} THEN CHOOSE i \in read : TRUE ELSE FreeId(sources)
    <3>1. source \in Source /\ read \in SUBSET Ids
      BY <1>1, <2>2 DEF SourceTasks, Source, Parsers, ReadMatches
    <3>2. FreeId(sources) \in Ids
      <4>1. {} \cap UrlsOf(sources, DOMAIN sources) = {} /\ {} \in SUBSET Urls
        OBVIOUS
      <4>2. \E i \in Ids : i \notin DOMAIN sources
        BY <1>2, <4>1, RoomForUrls
      <4> QED BY <4>2 DEF FreeId
    <3>3. id \in Ids
      BY <3>1, <3>2
    <3>4. after = Put(sources, id, source)
      BY <2>2 DEF Written
    <3> HIDE DEF source, id, after
    <3> QED BY <1>2, <3>1, <3>3, <3>4, PutSource
  <2>3. CASE task.op = "toggle"
    <3> DEFINE source == [read EXCEPT !.enabled = task.enabled]
    <3>1. task.id \in Ids /\ task.enabled \in BOOLEAN /\ read \in Source
      BY <1>1, <2>3 DEF SourceTasks, ReadMatches
    <3>2. source \in Source
      BY <3>1 DEF Source
    <3>3. after = Put(sources, task.id, source)
      BY <2>3 DEF Written
    <3> HIDE DEF source, after
    <3> QED BY <1>2, <3>1, <3>2, <3>3, PutSource
  <2>4. CASE task.op = "delete"
    <3>1. after = Without(sources, task.id)
      BY <2>4 DEF Written
    <3> HIDE DEF after
    <3> QED BY <1>2, <3>1, WithoutSource DEF SourceTable
  <2> QED BY <1>1, <2>1, <2>2, <2>3, <2>4
<1>4. \/ sources' = sources
      \/ sources' = after /\ UniqueUrls(after)
  BY DEF WriteSource
<1> HIDE DEF after
<1> QED BY <1>2, <1>3, <1>4 DEF SourceTable

LEMMA FilesWritten ==
  ASSUME files \in Registries, NEW task \in AdapterTasks, Allowed(task),
         NEW held, task.op \in InPlace => held \in Adapter
  PROVE  /\ FilesAfter(task, held) \in Registries
         /\ task.op \in InPlace => /\ task.id \in DOMAIN FilesAfter(task, held)
                                  /\ FilesAfter(task, held)[task.id] \in Adapter
<1>1. task.op \in {"toggleAdapter", "toggleLoaded", "deleteAdapter", "testAdapter",
                   "retestAdapter", "saveAdapter"}
  BY TaskKinds
<1> DEFINE after == FilesAfter(task, held)
<1>2. CASE task.op \in {"toggleAdapter", "retestAdapter"}
  <2>1. CASE task.op = "toggleAdapter"
    <3>1. /\ task.enabled \in BOOLEAN /\ task.id \in DOMAIN files
          /\ after = [files EXCEPT ![task.id].enabled = task.enabled]
      BY <2>1 DEF AdapterTasks, Allowed, FilesAfter
    <3> HIDE DEF after
    <3>2. after \in Registries
      BY <3>1, ChangedAdapter
    <3> QED BY <2>1, <3>2 DEF InPlace, after
  <2>2. CASE task.op = "retestAdapter"
    <3>1. /\ task.passed \in BOOLEAN /\ task.id \in DOMAIN files
          /\ after = [files EXCEPT ![task.id].passed = task.passed]
      BY <2>2 DEF AdapterTasks, Allowed, FilesAfter
    <3> HIDE DEF after
    <3>2. after \in Registries
      BY <3>1, ChangedAdapter
    <3> QED BY <2>2, <3>2 DEF InPlace, after
  <2> QED BY <1>2, <2>1, <2>2
<1>3. CASE task.op = "deleteAdapter"
  <2>1. after = Without(files, task.id)
    BY <1>3 DEF FilesAfter
  <2>2. DOMAIN files \subseteq AdapterIds /\ files \in [DOMAIN files -> Adapter]
    BY RegistryFacts
  <2>3. DOMAIN after \subseteq AdapterIds /\ after \in [DOMAIN after -> Adapter]
    BY <2>1, <2>2 DEF Without
  <2>4. after \in Registries
    BY <2>3, RegistryFacts
  <2> QED BY <1>3, <2>4 DEF InPlace
<1>4. CASE task.op \in InPlace
  <2>1. PICK adapter \in Adapter : after = Put(files, task.id, adapter)
    <3>1. CASE task.op = "toggleLoaded"
      <4>1. task.enabled \in BOOLEAN /\ held \in Adapter
        BY <1>4, <3>1 DEF AdapterTasks
      <4>2. [held EXCEPT !.enabled = task.enabled] \in Adapter
        BY <4>1 DEF Adapter
      <4> QED BY <3>1, <4>2 DEF FilesAfter
    <3>2. CASE task.op = "testAdapter"
      <4>1. task.passed \in BOOLEAN /\ held \in Adapter
        BY <1>4, <3>2 DEF AdapterTasks
      <4>2. [held EXCEPT !.passed = task.passed] \in Adapter
        BY <4>1 DEF Adapter
      <4> QED BY <3>2, <4>2 DEF FilesAfter
    <3> QED BY <1>4, <3>1, <3>2 DEF InPlace
  <2> HIDE DEF after
  <2>2. task.id \in AdapterIds
    BY <1>4 DEF InPlace, AdapterTasks, AdapterIds
  <2>3. after \in Registries
    BY <2>1, <2>2, PutAdapter
  <2>4. task.id \in DOMAIN after /\ after[task.id] = adapter
    BY <2>1 DEF Put
  <2> QED BY <2>3, <2>4 DEF after
<1>5. CASE task.op = "saveAdapter"
  <2> DEFINE adapter == [enabled |-> task.enabled /\ task.ready, passed |-> task.ready]
  <2>1. /\ SavedAs(task) \in AdapterIds
        /\ task.enabled \in BOOLEAN /\ task.ready \in BOOLEAN
    BY <1>5 DEF AdapterTasks, AdapterIds, SavedAs
  <2>2. adapter \in Adapter
    BY <2>1 DEF Adapter
  <2>3. after = Put(files, SavedAs(task), adapter)
    BY <1>5 DEF FilesAfter
  <2> HIDE DEF adapter, after
  <2>4. after \in Registries
    BY <2>1, <2>2, <2>3, PutAdapter
  <2> QED BY <1>5, <2>4 DEF InPlace, after
<1> QED BY <1>1, <1>2, <1>3, <1>4, <1>5 DEF InPlace

LEMMA WrittenAdapters ==
  ASSUME ValuesOK, RequestsOK, NEW a \in Admins, WriteAdapter(a) \/ WriteFails(a)
  PROVE  files' \in Registries /\ loaded' \in Registries
<1>1. PICK task : task = admin[a].task
  OBVIOUS
<1>2. /\ task \in AdapterTasks /\ ReadMatches(task, admin[a].read)
      /\ files \in Registries /\ loaded \in Registries
  BY <1>1 DEF WriteAdapter, WriteFails, RequestsOK, WellFormed, ValuesOK
<1>3. task.op \in InPlace => Allowed(task)
  BY DEF InPlace, Allowed
<1>4. InList(task) => loaded[task.id] \in Adapter
  BY <1>2, RegistryFacts DEF InList
<1>5. InList(task) => Changed(task) \in Registries
  <2> SUFFICES ASSUME InList(task) PROVE Changed(task) \in Registries
    OBVIOUS
  <2>1. PICK changed : changed = FilesAfter(task, loaded[task.id])[task.id]
    OBVIOUS
  <2>2. changed \in Adapter
    BY <1>2, <1>3, <1>4, <2>1, FilesWritten DEF InList
  <2>3. Changed(task) = [loaded EXCEPT ![task.id] = changed]
    BY <2>1 DEF Changed
  <2>4. DOMAIN loaded \subseteq AdapterIds /\ loaded \in [DOMAIN loaded -> Adapter]
    BY <1>2, RegistryFacts
  <2>5. /\ [loaded EXCEPT ![task.id] = changed] \in [DOMAIN loaded -> Adapter]
        /\ DOMAIN [loaded EXCEPT ![task.id] = changed] = DOMAIN loaded
    BY <2>2, <2>4
  <2> QED BY <2>3, <2>4, <2>5, RegistryFacts
<1>6. CASE WriteFails(a)
  BY <1>1, <1>2, <1>5, <1>6 DEF WriteFails
<1>7. CASE WriteAdapter(a)
  <2>1. Allowed(task)
    BY <1>1, <1>7 DEF WriteAdapter
  <2>2. \/ files' = FilesAfter(task, admin[a].read) /\ loaded' = loaded
        \/ /\ InList(task)
           /\ files' = FilesAfter(task, loaded[task.id])
           /\ loaded' = Changed(task)
    BY <1>1, <1>7 DEF WriteAdapter
  <2>3. FilesAfter(task, admin[a].read) \in Registries
    BY <1>2, <2>1, FilesWritten DEF ReadMatches
  <2>4. InList(task) => FilesAfter(task, loaded[task.id]) \in Registries
    BY <1>2, <1>4, <2>1, FilesWritten
  <2> QED BY <1>2, <1>5, <2>2, <2>3, <2>4
<1> QED BY <1>6, <1>7

\* The three ways apply_persisted_configuration finds the sites to search.
LEMMA AppliedSources ==
  ASSUME ValuesOK, NEW a \in Admins, ApplySources(a)
  PROVE  /\ SourceTable(sources')
         /\ \/ UNCHANGED running /\ Goto(a, "failed") /\ UNCHANGED <<up, settled, dropped>>
            \/ /\ running' = [running EXCEPT !.sites = running'.sites]
               /\ running'.sites \in SUBSET Urls /\ SitesRun'
               /\ settled' = admin[a].alone /\ dropped' = {} /\ Ends(a)
<1>1. /\ SourceTable(sources) /\ running \in Globals
      /\ running.sites \in SUBSET Urls /\ running.sites # {}
  BY DEF ValuesOK, Globals
<1>2. \A sites : [running EXCEPT !.sites = sites].sites = sites
  BY <1>1 DEF Globals
<1>3. \A srcs, all : SourceTable(srcs) => Searchable(srcs, all) \in SUBSET Urls
  BY DEF SourceTable, Source, UrlsOf, Enabled, Compatible, Searchable
<1>4. ASSUME NEW all \in BOOLEAN, seeded' = all, SourceTable(sources'),
             Searchable(sources', all) # {}, Searching(a, Searchable(sources', all))
      PROVE  /\ running' = [running EXCEPT !.sites = running'.sites]
             /\ running'.sites \in SUBSET Urls /\ SitesRun'
             /\ settled' = admin[a].alone /\ dropped' = {} /\ Ends(a)
  <2> DEFINE sites == Searchable(sources', all)
  <2>1. /\ running' = [running EXCEPT !.sites = sites]
        /\ settled' = admin[a].alone /\ dropped' = {} /\ Ends(a)
    BY <1>4 DEF Searching
  <2>2. running'.sites = sites
    <3> HIDE DEF sites
    <3> QED BY <1>2, <2>1
  <2>3. sites \in SUBSET Urls /\ sites # {}
    BY <1>3, <1>4
  <2>4. SitesRun'
    BY <1>4, <2>1, <2>2, <2>3 DEF SitesRun
  <2> HIDE DEF sites
  <2> QED BY <2>1, <2>2, <2>3, <2>4
<1>5. CASE /\ Compatible(sources) # {} /\ sources' = sources /\ seeded' = FALSE
           /\ Searching(a, UrlsOf(sources, Compatible(sources)))
  <2>1. UrlsOf(sources, Compatible(sources)) # {}
    BY <1>5, SomeSiteRemains
  <2>2. Searchable(sources', FALSE) = UrlsOf(sources, Compatible(sources))
    BY <1>5 DEF Searchable
  <2> QED BY <1>1, <1>4, <1>5, <2>1, <2>2
<1>6. CASE /\ Compatible(sources) = {} /\ Taken = {}
           /\ sources' = Seeded(running.sites) /\ seeded' = TRUE
           /\ Searching(a, UrlsOf(sources', Enabled(sources')))
  <2>1. running.sites \cap UrlsOf(sources, DOMAIN sources) = {}
    BY <1>6 DEF Taken
  <2>2. /\ SourceTable(sources')
        /\ running.sites \subseteq UrlsOf(sources', Enabled(sources'))
    BY <1>1, <1>6, <2>1, SeededTable
  <2>3. Searchable(sources', TRUE) = UrlsOf(sources', Enabled(sources'))
    BY DEF Searchable
  <2>4. UrlsOf(sources', Enabled(sources')) # {}
    BY <1>1, <2>2
  <2> QED BY <1>4, <1>6, <2>2, <2>3, <2>4
<1>7. CASE /\ \E before \in SUBSET (running.sites \ Taken) : sources' = Seeded(before)
           /\ Goto(a, "failed") /\ UNCHANGED <<running, settled, seeded, dropped, up>>
  <2>1. PICK before \in SUBSET (running.sites \ Taken) : sources' = Seeded(before)
    BY <1>7
  <2>2. before \in SUBSET Urls /\ before \cap UrlsOf(sources, DOMAIN sources) = {}
    BY <1>1 DEF Taken
  <2> QED BY <1>1, <1>7, <2>1, <2>2, SeededTable
<1> QED BY <1>5, <1>6, <1>7 DEF ApplySources

\* What apply_persisted_configuration assigns of the saved folders.
LEMMA AppliedSettings ==
  ASSUME ValuesOK, RequestsOK, NEW a \in Admins, ApplySettings(a)
  PROVE  /\ running' \in Globals /\ running'.sites = running.sites
         /\ admin[a].read.movie # {} => running'.movie = admin[a].read.movie
         /\ admin[a].read.tv # {} => running'.tv = admin[a].read.tv
         /\ running'.media = (admin[a].read.movie \cup admin[a].read.tv) \cap present
<1>1. PICK read : read = admin[a].read
  OBVIOUS
<1>2. read \in SavedRow
  BY <1>1 DEF ApplySettings, RequestsOK, WellFormed
<1>3. running' = [running EXCEPT !.movie = IF read.movie # {} THEN read.movie ELSE @,
                                 !.tv = IF read.tv # {} THEN read.tv ELSE @,
                                 !.media = (read.movie \cup read.tv) \cap present]
  BY <1>1 DEF ApplySettings
<1>4. running \in Globals
  BY DEF ValuesOK
<1> QED BY <1>1, <1>2, <1>3, <1>4 DEF SavedRow, Globals

LEMMA ValuesStep ==
  ASSUME ValuesOK, RequestsOK, Next
  PROVE  ValuesOK'
<1>1. CASE \E a \in Admins : WriteSettings(a)
  <2>1. UNCHANGED <<sources, running, files, loaded, present, dropped>>
    BY <1>1 DEF WriteSettings, registry, history
  <2> QED BY <1>1, <2>1, WrittenSettings DEF ValuesOK
<1>2. CASE \E a \in Admins : WriteSource(a)
  <2>1. UNCHANGED <<saved, running, files, loaded, present, dropped>>
    BY <1>2 DEF WriteSource, registry, history
  <2> QED BY <1>2, <2>1, WrittenSources DEF ValuesOK
<1>3. CASE \E a \in Admins : ApplyRead(a)
  <2>1. UNCHANGED <<sources, running, files, loaded, present, dropped>>
    BY <1>3 DEF ApplyRead, registry, history
  <2>2. \/ saved' = saved
        \/ saved' = [blank |-> FALSE, movie |-> running.movie, tv |-> running.tv]
    BY <1>3 DEF ApplyRead
  <2>3. running.movie \in SUBSET Folders /\ running.tv \in SUBSET Folders
    BY DEF ValuesOK, Globals
  <2>4. [blank |-> FALSE, movie |-> running.movie, tv |-> running.tv] \in SavedRow
    BY <2>3 DEF SavedRow
  <2>5. saved' \in SavedRow
    BY <2>2, <2>4 DEF ValuesOK
  <2> QED BY <2>1, <2>5 DEF ValuesOK
<1>4. CASE \E a \in Admins : ApplySettings(a)
  <2>1. UNCHANGED <<saved, sources, files, loaded, present, dropped>>
    BY <1>4 DEF ApplySettings, table, registry, history
  <2> QED BY <1>4, <2>1, AppliedSettings DEF ValuesOK
<1>5. CASE \E a \in Admins : ApplySources(a)
  <2>1. UNCHANGED <<saved, files, loaded, present>>
    BY <1>5 DEF ApplySources, registry
  <2>2. SourceTable(sources')
    BY <1>5, AppliedSources
  <2>3. \/ running' = running /\ dropped' = dropped
        \/ /\ running' = [running EXCEPT !.sites = running'.sites]
           /\ running'.sites \in SUBSET Urls /\ running'.sites # {} /\ dropped' = {}
    BY <1>5, AppliedSources DEF SitesRun
  <2>4. running' \in Globals /\ running'.sites # {} /\ dropped' \in SUBSET Urls
    BY <2>3 DEF ValuesOK, Globals
  <2> QED BY <2>1, <2>2, <2>4 DEF ValuesOK
<1>6. CASE \E a \in Admins : WriteAdapter(a) \/ WriteFails(a)
  <2>1. UNCHANGED <<saved, sources, running, present, dropped>>
    BY <1>6 DEF WriteAdapter, WriteFails, table, history
  <2> QED BY <1>6, <2>1, WrittenAdapters DEF ValuesOK
<1>7. CASE \E a \in Admins : LoadAdapters(a)
  <2>1. UNCHANGED <<saved, sources, running, files, present, dropped>>
    BY <1>7 DEF LoadAdapters, table
  <2>2. loaded' \in Registries
    BY <1>7 DEF LoadAdapters, RequestsOK, WellFormed
  <2> QED BY <2>1, <2>2 DEF ValuesOK
<1>8. CASE Restart
  <2>1. /\ UNCHANGED <<saved, sources, files, present>>
        /\ loaded' = files /\ dropped' = {}
    BY <1>8 DEF Restart, table
  <2>2. running' \in Globals /\ running'.sites # {}
    BY <1>8, SettingsAssumption DEF Restart, Environment, Globals
  <2> QED BY <2>1, <2>2 DEF ValuesOK
<1>9. CASE \E a \in Admins : Begin(a) \/ Refuse(a) \/ ListAdapters(a)
  <2>1. UNCHANGED <<saved, sources, running, files, loaded, present, dropped>>
    BY <1>9 DEF Begin, Refuse, ListAdapters, table, registry, history
  <2> QED BY <2>1 DEF ValuesOK
<1>10. CASE \E a \in Admins : DropSource(a)
  <2>1. PICK id : /\ sources' = Without(sources, id)
                  /\ dropped' = dropped \cup
                       (UrlsOf(sources, {id} \cap DOMAIN sources) \cap running.sites)
    BY <1>10 DEF DropSource
  <2>2. UNCHANGED <<saved, running, files, loaded, present>>
    BY <1>10 DEF DropSource, registry
  <2>3. SourceTable(sources') /\ dropped' \in SUBSET Urls
    BY <2>1, WithoutSource DEF ValuesOK, Globals
  <2> QED BY <2>2, <2>3 DEF ValuesOK
<1>11. CASE FolderChanges
  <2>1. UNCHANGED <<saved, sources, running, files, loaded, dropped>>
    BY <1>11 DEF FolderChanges, table, registry
  <2>2. present' \in SUBSET Folders
    BY <1>11 DEF FolderChanges, ValuesOK
  <2> QED BY <2>1, <2>2 DEF ValuesOK
<1> QED BY <1>10, <1>11, <1>1, <1>2, <1>3, <1>4, <1>5, <1>6, <1>7, <1>8, <1>9 DEF Next

-----------------------------------------------------------------------------
(* Every step keeps the requests well formed.                               *)

LEMMA BeginEffect ==
  ASSUME ValuesOK, RequestsOK, NEW a \in Admins, Begin(a)
  PROVE  /\ admin' \in [Admins -> Request] /\ admin[a].pc = "idle"
         /\ \A b \in Admins \ {a} :
              /\ admin'[b].pc = admin[b].pc /\ admin'[b].task = admin[b].task
              /\ admin'[b].read = admin[b].read /\ ~admin'[b].alone
         /\ admin'[a].pc = "write" /\ (admin'[a].alone <=> Busy = {})
         /\ admin'[a].task \in Tasks /\ ReadMatches(admin'[a].task, admin'[a].read)
         /\ settled' = (settled /\ admin'[a].task \in DropTasks \cup AdapterTasks)
         /\ agreed' = (agreed /\ admin'[a].task \notin AdapterTasks)
<1>1. PICK task \in Tasks :
        /\ Accepted(task)
        /\ admin' = [b \in Admins |->
             IF b = a THEN [task |-> task, pc |-> "write", read |-> ReadBy(task),
                            alone |-> Busy = {}]
             ELSE [admin[b] EXCEPT !.alone = FALSE]]
        /\ settled' = (settled /\ task \in DropTasks \cup AdapterTasks)
        /\ agreed' = (agreed /\ task \notin AdapterTasks)
  BY DEF Begin, Tasks
<1>2. ReadBy(task) \in Reads /\ ReadMatches(task, ReadBy(task))
  <2>1. CASE task.op \in {"addRoot", "removeRoot"}
    BY <2>1 DEF ReadBy, ReadMatches, Reads, ValuesOK, InPlace
  <2>2. CASE task.op = "toggle"
    <3>1. sources[task.id] \in Source
      BY <1>1, <2>2 DEF Accepted, ValuesOK, SourceTable, InPlace
    <3> QED BY <2>2, <3>1 DEF ReadBy, ReadMatches, Reads, InPlace
  <2>3. CASE task.op = "autoSetup"
    <3>1. {i \in DOMAIN sources : sources[i].url = task.url} \in SUBSET Ids
      BY DEF ValuesOK, SourceTable
    <3> QED BY <2>3, <3>1 DEF ReadBy, ReadMatches, Reads, InPlace
  <2>4. CASE task.op \in InPlace
    <3>1. loaded[task.id] \in Adapter
      BY <1>1, <2>4, RegistryFacts DEF Accepted, ValuesOK, InPlace
    <3> QED BY <2>4, <3>1 DEF ReadBy, ReadMatches, Reads, InPlace
  <2>5. CASE task.op \notin {"addRoot", "removeRoot", "toggle", "autoSetup"} \cup InPlace
    <3>1. ReadBy(task) = NoTask
      BY <2>5 DEF ReadBy
    <3> QED BY <2>5, <3>1 DEF ReadMatches, Reads
  <2> QED BY <2>1, <2>2, <2>3, <2>4, <2>5
<1> DEFINE mine == [task |-> task, pc |-> "write", read |-> ReadBy(task), alone |-> Busy = {}]
<1>3. mine \in Request
  BY <1>2 DEF Request, Phases
<1>4. \A b \in Admins : /\ [admin[b] EXCEPT !.alone = FALSE] \in Request
                        /\ [admin[b] EXCEPT !.alone = FALSE].pc = admin[b].pc
                        /\ [admin[b] EXCEPT !.alone = FALSE].task = admin[b].task
                        /\ [admin[b] EXCEPT !.alone = FALSE].read = admin[b].read
                        /\ ~[admin[b] EXCEPT !.alone = FALSE].alone
  BY DEF RequestsOK, Request
<1>5. /\ mine.pc = "write" /\ mine.task = task /\ mine.read = ReadBy(task)
      /\ mine.alone <=> Busy = {}
  OBVIOUS
<1>6. /\ admin'[a] = mine
      /\ \A b \in Admins \ {a} : admin'[b] = [admin[b] EXCEPT !.alone = FALSE]
  BY <1>1
<1> HIDE DEF mine
<1>7. admin' \in [Admins -> Request]
  <2>1. \A b \in Admins : admin'[b] \in Request
    BY <1>3, <1>4, <1>6
  <2>2. admin' = [b \in Admins |-> admin'[b]]
    BY <1>1
  <2> QED BY <2>1, <2>2
<1>8. admin[a].pc = "idle"
  BY DEF Begin
<1> QED BY <1>1, <1>2, <1>4, <1>5, <1>6, <1>7, <1>8

\* A step of thread a that leaves the other threads as they are.
OthersWait(a) ==
  /\ admin' \in [Admins -> Request]
  /\ \A b \in Admins \ {a} : admin'[b] = admin[b]

LEMMA ReadRow ==
  ASSUME ValuesOK, RequestsOK, Next, NEW a \in Admins, ApplyRead(a)
  PROVE  /\ OthersWait(a) /\ admin'[a].pc = "assign"
         /\ admin'[a].read = saved' /\ admin'[a].alone = admin[a].alone
<1>1. PICK row : row = saved'
  OBVIOUS
<1> DEFINE r == [admin[a] EXCEPT !.pc = "assign", !.read = row]
<1>2. admin' = [admin EXCEPT ![a] = r]
  BY <1>1 DEF ApplyRead
<1>3. row \in Reads /\ "assign" \in Phases /\ admin[a] \in Request
  BY <1>1, ValuesStep DEF ValuesOK, Reads, Phases, RequestsOK
<1>4. r \in Request /\ r.pc = "assign" /\ r.read = row /\ r.alone = admin[a].alone
  BY <1>3, RequestGoesOn DEF Request
<1> HIDE DEF r
<1> QED BY <1>1, <1>2, <1>4, ReplacedEffect DEF OthersWait

LEMMA ReadFiles ==
  ASSUME ValuesOK, RequestsOK, NEW a \in Admins, ListAdapters(a)
  PROVE  /\ OthersWait(a) /\ admin'[a].pc = "load"
         /\ admin'[a].read = files /\ admin'[a].alone = admin[a].alone
<1> DEFINE r == [admin[a] EXCEPT !.pc = "load", !.read = files]
<1>1. admin' = [admin EXCEPT ![a] = r]
  BY DEF ListAdapters
<1>2. files \in Reads /\ "load" \in Phases /\ admin[a] \in Request
  BY DEF ValuesOK, Reads, Phases, RequestsOK
<1>3. r \in Request /\ r.pc = "load" /\ r.read = files /\ r.alone = admin[a].alone
  BY <1>2, RequestGoesOn DEF Request
<1>4. PICK q : q = r
  OBVIOUS
<1> HIDE DEF r
<1> QED BY <1>1, <1>3, <1>4, ReplacedEffect DEF OthersWait

LEMMA RequestsStep ==
  ASSUME ValuesOK, RequestsOK, Next
  PROVE  RequestsOK'
<1>1. ASSUME NEW a \in Admins, Begin(a) PROVE RequestsOK'
  BY <1>1, BeginEffect DEF RequestsOK, WellFormed
<1>2. ASSUME NEW a \in Admins, NEW pc \in {"apply", "failed", "sites", "list"}, Goto(a, pc)
      PROVE  RequestsOK'
  <2>1. pc \in Phases
    BY DEF Phases
  <2> QED BY <1>2, <2>1, GotoEffect DEF RequestsOK, WellFormed
<1>3. ASSUME NEW a \in Admins, Ends(a) PROVE RequestsOK'
  BY <1>3, EndsEffect DEF RequestsOK
<1>4. ASSUME NEW a \in Admins, ApplyRead(a) PROVE RequestsOK'
  BY <1>4, ReadRow, ValuesStep DEF RequestsOK, WellFormed, ValuesOK, OthersWait
<1>5. ASSUME NEW a \in Admins, ListAdapters(a) PROVE RequestsOK'
  BY <1>5, ReadFiles DEF RequestsOK, WellFormed, ValuesOK, OthersWait
<1>6. CASE Restart
  <2>1. Quiet \in Request /\ Quiet.pc = "idle" /\ "apply" \in Phases /\ NoTask \in Reads
    BY DEF Quiet, Request, Phases, Reads
  <2>2. [Quiet EXCEPT !.pc = "apply"] \in Request /\ [Quiet EXCEPT !.pc = "apply"].pc = "apply"
    BY <2>1, RequestGoesOn DEF Quiet
  <2>3. admin' = [a \in Admins |-> IF a = CHOOSE b \in Admins : TRUE
                                   THEN [Quiet EXCEPT !.pc = "apply"] ELSE Quiet]
    BY <1>6 DEF Restart
  <2> QED BY <2>1, <2>2, <2>3 DEF RequestsOK, WellFormed
<1>7. ASSUME NEW a \in Admins, ApplySources(a) PROVE RequestsOK'
  BY <1>2, <1>3, <1>7, AppliedSources
<1>8. ASSUME NEW a \in Admins,
             WriteSettings(a) \/ WriteSource(a) \/ ApplySettings(a) \/ Refuse(a)
               \/ DropSource(a) \/ WriteAdapter(a) \/ WriteFails(a) \/ LoadAdapters(a)
      PROVE  RequestsOK'
  <2>1. Ends(a) \/ Goto(a, "apply") \/ Goto(a, "failed") \/ Goto(a, "sites") \/ Goto(a, "list")
    BY <1>8 DEF WriteSettings, WriteSource, DropSource, ApplySettings, Refuse, WriteAdapter,
                WriteFails, LoadAdapters
  <2> QED BY <1>2, <1>3, <2>1
<1>9. CASE FolderChanges
  <2>1. admin' = [a \in Admins |-> [admin[a] EXCEPT !.alone = FALSE]]
    BY <1>9 DEF FolderChanges
  <2>2. \A a \in Admins : /\ [admin[a] EXCEPT !.alone = FALSE] \in Request
                          /\ WellFormed([admin[a] EXCEPT !.alone = FALSE])
    BY DEF RequestsOK, Request, WellFormed
  <2> QED BY <2>1, <2>2 DEF RequestsOK
<1> QED BY <1>1, <1>4, <1>5, <1>6, <1>7, <1>8, <1>9 DEF Next

-----------------------------------------------------------------------------
(* Every step keeps the histories true.                                     *)

\* A request that is alone is the only one that can take a step.
LEMMA AloneGoesOn ==
  ASSUME AloneInv, NEW a \in Admins, OthersWait(a), admin[a].pc # "idle",
         \/ admin'[a].pc = "idle"
         \/ /\ admin'[a].alone = admin[a].alone
            /\ admin[a].alone =>
                 /\ admin'[a].pc = "assign" => admin'[a].read = saved'
                 /\ admin'[a].pc = "sites" => FoldersRun'
                 /\ admin'[a].pc = "load" => admin'[a].read = files'
  PROVE  AloneInv'
<1> SUFFICES ASSUME NEW c \in Admins, admin'[c].alone, admin'[c].pc # "idle"
             PROVE  /\ \A b \in Admins \ {c} : admin'[b].pc = "idle"
                    /\ admin'[c].pc = "assign" => admin'[c].read = saved'
                    /\ admin'[c].pc = "sites" => FoldersRun'
                    /\ admin'[c].pc = "load" => admin'[c].read = files'
  BY DEF AloneInv
<1>1. c = a
  BY DEF AloneInv, OthersWait
<1>2. \A b \in Admins \ {a} : admin[b].pc = "idle"
  BY <1>1 DEF AloneInv
<1>3. \A b \in Admins \ {a} : admin'[b].pc = "idle"
  BY <1>2 DEF OthersWait
<1> QED BY <1>1, <1>3

\* Which thread moves, and to where.
LEMMA StepEffect ==
  ASSUME ValuesOK, RequestsOK, NEW a \in Admins
  PROVE  /\ WriteSettings(a) \/ WriteSource(a)
              => OthersWait(a) /\ admin'[a].alone = admin[a].alone
                   /\ admin'[a].pc \in {"apply", "failed"}
         /\ ApplySettings(a)
              => OthersWait(a) /\ admin'[a].alone = admin[a].alone /\ admin'[a].pc = "sites"
         /\ WriteAdapter(a)
              => OthersWait(a) /\ admin'[a].alone = admin[a].alone /\ admin'[a].pc = "list"
         /\ Refuse(a) \/ DropSource(a) \/ WriteFails(a) \/ LoadAdapters(a)
              => OthersWait(a) /\ admin'[a].pc = "idle"
         /\ Goto(a, "failed")
              => OthersWait(a) /\ admin'[a].alone = admin[a].alone /\ admin'[a].pc = "failed"
         /\ Ends(a) => OthersWait(a) /\ admin'[a].pc = "idle"
<1>1. ASSUME NEW pc \in {"apply", "failed", "sites", "list"}, Goto(a, pc)
      PROVE  OthersWait(a) /\ admin'[a].alone = admin[a].alone /\ admin'[a].pc = pc
  <2>1. pc \in Phases
    BY DEF Phases
  <2> QED BY <1>1, <2>1, GotoEffect DEF OthersWait
<1>2. Ends(a) => OthersWait(a) /\ admin'[a].pc = "idle"
  BY EndsEffect DEF OthersWait
<1>3. /\ WriteSettings(a) => Goto(a, "apply")
      /\ WriteSource(a) => Goto(a, "apply") \/ Goto(a, "failed")
      /\ ApplySettings(a) => Goto(a, "sites")
      /\ WriteAdapter(a) => Goto(a, "list")
      /\ Refuse(a) \/ DropSource(a) \/ WriteFails(a) \/ LoadAdapters(a) => Ends(a)
  BY DEF WriteSettings, WriteSource, ApplySettings, WriteAdapter, Refuse, DropSource,
         WriteFails, LoadAdapters
<1> QED BY <1>1, <1>2, <1>3

LEMMA AloneStep ==
  ASSUME SettingsInv, Next
  PROVE  AloneInv'
<1>1. ValuesOK /\ RequestsOK /\ AloneInv
  BY DEF SettingsInv
<1>2. ASSUME NEW a \in Admins, Begin(a) PROVE AloneInv'
  <2>1. \A b \in Admins \ {a} : ~admin'[b].alone
    BY <1>1, <1>2, BeginEffect
  <2>2. admin'[a].pc = "write"
    BY <1>1, <1>2, BeginEffect
  <2>3. admin'[a].alone => \A b \in Admins \ {a} : admin'[b].pc = "idle"
    <3>1. Busy = {} => \A b \in Admins : admin[b].pc = "idle"
      BY DEF Busy
    <3> QED BY <1>1, <1>2, <3>1, BeginEffect
  <2> QED BY <2>1, <2>2, <2>3 DEF AloneInv
<1>3. ASSUME NEW a \in Admins, WriteSettings(a) \/ WriteSource(a) \/ WriteAdapter(a)
      PROVE  AloneInv'
  <2>1. admin[a].pc = "write"
    BY <1>3 DEF WriteSettings, WriteSource, WriteAdapter
  <2> QED BY <1>1, <1>3, <2>1, StepEffect, AloneGoesOn
<1>4. ASSUME NEW a \in Admins, ApplyRead(a) PROVE AloneInv'
  <2>1. admin[a].pc = "apply"
    BY <1>4 DEF ApplyRead
  <2> QED BY <1>1, <1>4, <2>1, ReadRow, AloneGoesOn
<1>5. ASSUME NEW a \in Admins, ApplySettings(a) PROVE AloneInv'
  <2>1. admin[a].pc = "assign" /\ saved' = saved /\ present' = present
    BY <1>5 DEF ApplySettings, table
  <2>2. admin[a].alone => admin[a].read = saved
    BY <1>1, <2>1 DEF AloneInv
  <2>3. admin[a].alone => FoldersRun'
    BY <1>1, <1>5, <2>1, <2>2, AppliedSettings DEF FoldersRun
  <2> QED BY <1>1, <1>5, <2>1, <2>3, StepEffect, AloneGoesOn
<1>6. ASSUME NEW a \in Admins, ApplySources(a) PROVE AloneInv'
  <2>1. admin[a].pc = "sites"
    BY <1>6 DEF ApplySources
  <2> QED BY <1>1, <1>6, <2>1, AppliedSources, StepEffect, AloneGoesOn
<1>7. ASSUME NEW a \in Admins, Refuse(a) \/ DropSource(a) \/ WriteFails(a) \/ LoadAdapters(a)
      PROVE  AloneInv'
  <2>1. admin[a].pc # "idle"
    BY <1>7 DEF Refuse, DropSource, WriteFails, LoadAdapters
  <2> QED BY <1>1, <1>7, <2>1, StepEffect, AloneGoesOn
<1>8. ASSUME NEW a \in Admins, ListAdapters(a) PROVE AloneInv'
  <2>1. admin[a].pc = "list" /\ files' = files
    BY <1>8 DEF ListAdapters, registry
  <2> QED BY <1>1, <1>8, <2>1, ReadFiles, AloneGoesOn
<1>9. CASE Restart
  <2>1. admin' = [a \in Admins |-> IF a = CHOOSE b \in Admins : TRUE
                                   THEN [Quiet EXCEPT !.pc = "apply"] ELSE Quiet]
    BY <1>9 DEF Restart
  <2>2. Quiet.pc = "idle" /\ [Quiet EXCEPT !.pc = "apply"].pc = "apply"
    BY DEF Quiet
  <2> QED BY <2>1, <2>2 DEF AloneInv
<1>10. CASE FolderChanges
  <2>1. \A a \in Admins : ~admin'[a].alone
    BY <1>1, <1>10 DEF FolderChanges, RequestsOK, Request
  <2> QED BY <2>1 DEF AloneInv
<1> QED BY <1>2, <1>3, <1>4, <1>5, <1>6, <1>7, <1>8, <1>9, <1>10 DEF Next

\* A source that is deleted without applying that is still searched.
LEMMA DroppedSearched ==
  ASSUME NEW srcs, SourceTable(srcs), NEW id, NEW all, NEW gone, NEW sites,
         sites = Searchable(srcs, all) \cup gone
  PROVE  sites = Searchable(Without(srcs, id), all)
                   \cup (gone \cup (UrlsOf(srcs, {id} \cap DOMAIN srcs) \cap sites))
<1> DEFINE ids == IF all THEN Enabled(srcs) ELSE Compatible(srcs)
<1>1. ids \subseteq DOMAIN srcs
  BY DEF Enabled, Compatible
<1>2. (IF all THEN Enabled(Without(srcs, id)) ELSE Compatible(Without(srcs, id))) = ids \ {id}
  BY DEF Enabled, Compatible, Without
<1>3. /\ Searchable(srcs, all) = {srcs[i].url : i \in ids}
      /\ Searchable(Without(srcs, id), all) = {srcs[i].url : i \in ids \ {id}}
  <2>1. Searchable(Without(srcs, id), all) = {Without(srcs, id)[i].url : i \in ids \ {id}}
    BY <1>2 DEF Searchable, UrlsOf
  <2>2. \A i \in ids \ {id} : Without(srcs, id)[i] = srcs[i]
    BY <1>1 DEF Without
  <2> HIDE DEF ids
  <2>3. {Without(srcs, id)[i].url : i \in ids \ {id}} = {srcs[i].url : i \in ids \ {id}}
    BY <2>2
  <2>4. Searchable(srcs, all) = {srcs[i].url : i \in ids}
    BY DEF Searchable, UrlsOf, ids
  <2> QED BY <2>1, <2>3, <2>4
<1>4. UrlsOf(srcs, {id} \cap DOMAIN srcs) = {srcs[i].url : i \in {id} \cap DOMAIN srcs}
  BY DEF UrlsOf
<1> HIDE DEF ids
<1> QED BY <1>1, <1>3, <1>4

\* The steps of a configuration request.
LEMMA SettledStep ==
  ASSUME SettingsInv, Next
  PROVE  SettledInv'
<1>1. ValuesOK /\ RequestsOK /\ AloneInv /\ SettledInv
  BY DEF SettingsInv
<1>2. ASSUME NEW a \in Admins, Begin(a) PROVE SettledInv'
  <2>1. UNCHANGED <<saved, sources, running, present, seeded, dropped>>
    BY <1>2 DEF Begin, table
  <2>2. settled' = (settled /\ admin'[a].task \in DropTasks \cup AdapterTasks)
    BY <1>1, <1>2, BeginEffect
  <2>3. settled' => FoldersRun' /\ SitesRun'
    BY <1>1, <2>1, <2>2 DEF SettledInv, SitesRun, FoldersRun
  <2>4. ASSUME settled', NEW b \in Admins PROVE ~Configuring(b)'
    BY <1>1, <1>2, <2>2, <2>4, BeginEffect DEF SettledInv, Configuring
  <2> QED BY <2>3, <2>4 DEF SettledInv
<1>3. ASSUME NEW a \in Admins,
             WriteSettings(a) \/ WriteSource(a) \/ ApplyRead(a) \/ ApplySettings(a) \/ Refuse(a)
      PROVE  SettledInv'
  <2>1. Configuring(a)
    BY <1>3, TaskKinds DEF WriteSettings, WriteSource, ApplyRead, ApplySettings, Refuse,
                           Configuring
  <2>2. settled' = settled
    BY <1>3 DEF WriteSettings, WriteSource, ApplyRead, ApplySettings, Refuse, history
  <2> QED BY <1>1, <2>1, <2>2 DEF SettledInv
<1>4. ASSUME NEW a \in Admins, ApplySources(a) PROVE SettledInv'
  <2>1. Configuring(a) /\ admin[a].pc = "sites" /\ saved' = saved /\ present' = present
    BY <1>4 DEF ApplySources, Configuring
  <2>2. CASE settled' = settled
    BY <1>1, <2>1, <2>2 DEF SettledInv
  <2>3. CASE ~admin[a].alone /\ settled' = admin[a].alone
    BY <2>3 DEF SettledInv
  <2>4. CASE /\ admin[a].alone /\ Ends(a) /\ SitesRun'
             /\ running' = [running EXCEPT !.sites = running'.sites]
    <3>1. running'.movie = running.movie /\ running'.tv = running.tv
          /\ running'.media = running.media
      BY <1>1, <2>4 DEF ValuesOK, Globals
    <3>2. FoldersRun'
      BY <1>1, <2>1, <2>4, <3>1 DEF AloneInv, FoldersRun
    <3>3. \A b \in Admins : admin'[b].pc = "idle"
      BY <1>1, <2>1, <2>4, StepEffect DEF AloneInv, OthersWait
    <3> QED BY <2>4, <3>2, <3>3 DEF SettledInv, Configuring
  <2> QED BY <1>1, <1>4, <2>2, <2>3, <2>4, AppliedSources
<1>5. ASSUME NEW a \in Admins,
             WriteAdapter(a) \/ WriteFails(a) \/ ListAdapters(a) \/ LoadAdapters(a)
      PROVE  SettledInv'
  <2>1. UNCHANGED <<saved, sources, running, present, seeded, dropped, settled>>
    BY <1>5 DEF WriteAdapter, WriteFails, ListAdapters, LoadAdapters, table, history
  <2>2. OthersWait(a) /\ admin'[a].pc \in {"list", "load", "idle"}
    BY <1>1, <1>5, StepEffect, ReadFiles
  <2>3. settled' => FoldersRun' /\ SitesRun'
    BY <1>1, <2>1 DEF SettledInv, SitesRun, FoldersRun
  <2>4. ASSUME settled', NEW b \in Admins PROVE ~Configuring(b)'
    BY <1>1, <2>1, <2>2, <2>4 DEF SettledInv, Configuring, OthersWait
  <2> QED BY <2>3, <2>4 DEF SettledInv
<1>6. CASE Restart \/ FolderChanges
  BY <1>6 DEF Restart, FolderChanges, SettledInv
<1>7. ASSUME NEW a \in Admins, DropSource(a) PROVE SettledInv'
  <2>1. PICK id : /\ sources' = Without(sources, id)
                  /\ dropped' = dropped \cup
                       (UrlsOf(sources, {id} \cap DOMAIN sources) \cap running.sites)
    BY <1>7 DEF DropSource
  <2>2. UNCHANGED <<saved, running, present, seeded, settled>>
    BY <1>7 DEF DropSource
  <2>3. OthersWait(a) /\ admin'[a].pc = "idle"
    BY <1>1, <1>7, StepEffect
  <2>4. ASSUME settled', NEW b \in Admins PROVE ~Configuring(b)'
    BY <1>1, <2>2, <2>3, <2>4 DEF SettledInv, Configuring, OthersWait
  <2>5. settled' => FoldersRun'
    BY <1>1, <2>2 DEF SettledInv, FoldersRun
  <2>6. settled => SitesRun'
    <3>1. SourceTable(sources)
      BY <1>1 DEF ValuesOK
    <3> SUFFICES ASSUME SitesRun PROVE SitesRun'
      BY <1>1 DEF SettledInv
    <3> QED BY <2>1, <2>2, <3>1, DroppedSearched DEF SitesRun
  <2> QED BY <2>2, <2>4, <2>5, <2>6 DEF SettledInv
<1> QED BY <1>2, <1>3, <1>4, <1>5, <1>6, <1>7 DEF Next

\* The steps of an adapter request.
LEMMA AgreedStep ==
  ASSUME SettingsInv, Next
  PROVE  AgreedInv'
<1>1. ValuesOK /\ RequestsOK /\ AloneInv /\ AgreedInv
  BY DEF SettingsInv
<1>2. ASSUME NEW a \in Admins, Begin(a) PROVE AgreedInv'
  <2>1. UNCHANGED <<files, loaded>>
    BY <1>2 DEF Begin, registry
  <2>2. agreed' = (agreed /\ admin'[a].task \notin AdapterTasks)
    BY <1>1, <1>2, BeginEffect
  <2>3. ASSUME agreed', NEW b \in Admins PROVE ~Registering(b)'
    BY <1>1, <1>2, <2>2, <2>3, BeginEffect DEF AgreedInv, Registering
  <2> QED BY <1>1, <2>1, <2>2, <2>3 DEF AgreedInv
<1>3. ASSUME NEW a \in Admins,
             WriteSettings(a) \/ WriteSource(a) \/ DropSource(a) \/ ApplyRead(a)
               \/ ApplySettings(a) \/ ApplySources(a) \/ Refuse(a)
      PROVE  AgreedInv'
  <2>1. UNCHANGED <<files, loaded, agreed>>
    BY <1>3 DEF WriteSettings, WriteSource, DropSource, ApplyRead, ApplySettings, ApplySources,
                Refuse, registry, history
  <2>2. OthersWait(a) /\ admin'[a].pc \notin {"write", "list", "load"}
    BY <1>1, <1>3, StepEffect, ReadRow, AppliedSources
  <2>3. ASSUME agreed', NEW b \in Admins PROVE ~Registering(b)'
    BY <1>1, <2>1, <2>2, <2>3 DEF AgreedInv, Registering, OthersWait
  <2> QED BY <1>1, <2>1, <2>3 DEF AgreedInv
<1>4. ASSUME NEW a \in Admins, WriteAdapter(a) \/ WriteFails(a) \/ ListAdapters(a)
      PROVE  AgreedInv'
  <2>1. Registering(a) /\ agreed' = agreed
    BY <1>4 DEF WriteAdapter, WriteFails, ListAdapters, Registering, history
  <2> QED BY <1>1, <2>1 DEF AgreedInv
<1>5. ASSUME NEW a \in Admins, LoadAdapters(a) PROVE AgreedInv'
  <2>1. /\ agreed' = admin[a].alone /\ admin[a].pc = "load"
        /\ loaded' = admin[a].read /\ files' = files
    BY <1>5 DEF LoadAdapters
  <2>2. agreed' => loaded' = files' /\ \A b \in Admins \ {a} : admin[b].pc = "idle"
    BY <1>1, <2>1 DEF AloneInv
  <2>3. agreed' => \A b \in Admins : admin'[b].pc = "idle"
    BY <1>1, <1>5, <2>2, StepEffect DEF OthersWait
  <2> QED BY <2>2, <2>3 DEF AgreedInv, Registering
<1>6. CASE Restart
  <2>1. loaded' = files /\ files' = files
    BY <1>6 DEF Restart
  <2>2. admin' = [a \in Admins |-> IF a = CHOOSE b \in Admins : TRUE
                                   THEN [Quiet EXCEPT !.pc = "apply"] ELSE Quiet]
    BY <1>6 DEF Restart
  <2>3. Quiet.pc = "idle" /\ [Quiet EXCEPT !.pc = "apply"].pc = "apply"
    BY DEF Quiet
  <2> QED BY <2>1, <2>2, <2>3 DEF AgreedInv, Registering
<1>7. CASE FolderChanges
  <2>1. UNCHANGED <<files, loaded, agreed>>
    BY <1>7 DEF FolderChanges, registry
  <2>2. \A a \in Admins : admin'[a].pc = admin[a].pc /\ admin'[a].task = admin[a].task
    BY <1>1, <1>7 DEF FolderChanges, RequestsOK, Request
  <2> QED BY <1>1, <2>1, <2>2 DEF AgreedInv, Registering
<1> QED BY <1>2, <1>3, <1>4, <1>5, <1>6, <1>7 DEF Next

LEMMA SettingsInitInv == ASSUME Init PROVE SettingsInv
<1>1. /\ admin = [a \in Admins |-> IF a = CHOOSE b \in Admins : TRUE
                                   THEN [Quiet EXCEPT !.pc = "apply"] ELSE Quiet]
      /\ ~settled /\ loaded = files
  BY DEF Init
<1>2. Quiet.pc = "idle" /\ [Quiet EXCEPT !.pc = "apply"].pc = "apply"
  BY DEF Quiet
<1>3. AloneInv /\ SettledInv /\ AgreedInv
  BY <1>1, <1>2 DEF AloneInv, SettledInv, AgreedInv, Registering
<1> QED BY <1>3, InitValues DEF SettingsInv

LEMMA SettingsNextInv == ASSUME SettingsInv, [Next]_vars PROVE SettingsInv'
<1>1. CASE Next
  BY <1>1, ValuesStep, RequestsStep, AloneStep, SettledStep, AgreedStep DEF SettingsInv
<1>2. CASE UNCHANGED vars
  BY <1>2 DEF SettingsInv, vars, ValuesOK, RequestsOK, AloneInv, SettledInv,
              AgreedInv, FoldersRun, SitesRun, Configuring, Registering
<1> QED BY <1>1, <1>2

LEMMA SettingsInvariant == Spec => []SettingsInv
BY SettingsInitInv, SettingsNextInv, PTL DEF Spec

-----------------------------------------------------------------------------
\* Every value the requests read, write and assign has its type, however they
\* interleave, and no URL is in the table of sources twice
\* (content_sources.base_url is UNIQUE).
THEOREM SettingsTypeCorrect == Spec => []TypeOK
<1>1. SettingsInv => TypeOK
  <2> SUFFICES ASSUME SettingsInv PROVE TypeOK
    OBVIOUS
  <2>1. ValuesOK /\ RequestsOK
    BY DEF SettingsInv
  <2>2. DOMAIN sources \subseteq Ids /\ Range(sources) \subseteq Source /\ UniqueUrls(sources)
    BY <2>1 DEF ValuesOK, SourceTable, Range
  <2>3. /\ DOMAIN files \subseteq AdapterIds /\ Range(files) \subseteq Adapter
        /\ DOMAIN loaded \subseteq AdapterIds /\ Range(loaded) \subseteq Adapter
    BY <2>1, RegistryFacts DEF ValuesOK, Range
  <2>4. \A a \in Admins : admin[a].pc \in Phases
    BY <2>1 DEF RequestsOK, Request
  <2> QED BY <2>1, <2>2, <2>3, <2>4
          DEF TypeOK, ValuesOK, SavedRow, Globals, AdapterIds, Phases
<1> QED BY <1>1, SettingsInvariant, PTL

\* What an administrator saved is what the process runs, when the request was
\* the only one, did not fail and no folder came or went meanwhile:
\* apply_persisted_configuration leaves nothing of the configuration before
\* it, and some site to search.  The sites are exact: those of the compatible
\* sources, or of every enabled source after the sites were saved as sources,
\* and those whose source was deleted since without applying that.
THEOREM SavedConfigurationRuns == Spec => []SettledConfigurationRuns
<1>1. SettingsInv => SettledConfigurationRuns
  BY DEF SettingsInv, SettledInv, SitesRun, FoldersRun, Searchable, SettledConfigurationRuns
<1> QED BY <1>1, SettingsInvariant, PTL

\* ENABLED_ADAPTERS[:] = ADAPTERS.list() of a request that was the only one
\* leaves a search with the adapters whose files are enabled and tested.
THEOREM StoredAdaptersAreSearched == Spec => []SearchUsesStoredAdapters
<1>1. SettingsInv => SearchUsesStoredAdapters
  BY DEF SettingsInv, AgreedInv, SearchUsesStoredAdapters, Searched
<1> QED BY <1>1, SettingsInvariant, PTL
=============================================================================
