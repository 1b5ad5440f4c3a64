------------------------------ MODULE Settings ------------------------------
(* What an administrator configures in the web application and what the     *)
(* running process uses (web_app.py, library_backend.py, adapter_storage.py): *)
(* the settings and sources in SQLite, the environment and globals            *)
(* apply_persisted_configuration derives from them, the adapter files and     *)
(* the list loaded from them.  Every admin request has a thread of its own    *)
(* and holds no lock, so requests interleave between their reads and writes.  *)
EXTENDS Integers, FiniteSets, Sequences, Functions

CONSTANTS
  Admins,          \* threads that serve admin requests
  Folders,         \* media folders that may be configured
  Urls,            \* base URLs of sources
  EnvFolders,      \* [movie, tv]: the folders the environment starts with
  EnvUrls,         \* BOLLYFLIX_SITES of the environment, or the default
  MaxSources,      \* room for one row per URL and one more
  Adapters,        \* adapter ids that have a file at the start
  NewAdapter,      \* the id of an adapter that is saved later
  NoTask,
  MaxRequests      \* bound on admin requests and restarts

\* Sites come from the environment or the default, never none.
ASSUME SettingsAssumption ==
  /\ IsFiniteSet(Urls) /\ MaxSources \in Nat /\ Cardinality(Urls) < MaxSources
  /\ EnvFolders \in [movie : SUBSET Folders, tv : SUBSET Folders]
  /\ EnvUrls \subseteq Urls /\ EnvUrls # {}

VARIABLES
  saved,      \* table app_settings: [blank, movie, tv]
  sources,    \* table content_sources: [id -> [url, parser, enabled]]
  running,    \* MOVIES_PATHS, TV_SHOWS_PATHS, MEDIA_LIBRARY_PATHS, BOLLYFLIX_SITES
  files,      \* the adapter files: [id -> [enabled, passed]]
  loaded,     \* ENABLED_ADAPTERS
  present,    \* the folders that are on the disk
  admin,      \* [Admins -> the request a thread serves]
  up,         \* the process runs
  settled,    \* history: the last configuration request was alone and succeeded
  agreed,     \* history: the last adapter request was alone and succeeded
  seeded,     \* history: the last configuration saved the sites as sources
  dropped,    \* history: sites whose source was deleted without applying that
  requests

vars == <<saved, sources, running, files, loaded, present, admin, up,
          settled, agreed, seeded, dropped, requests>>
table == <<saved, sources>>
registry == <<files, loaded>>
history == <<settled, agreed, seeded, dropped>>

Parsers == {"compatible-search", "custom-authorized"}
Source == [url : Urls, parser : Parsers, enabled : BOOLEAN]
Adapter == [enabled : BOOLEAN, passed : BOOLEAN]
Ids == 1 .. MaxSources

Enabled(srcs) == {i \in DOMAIN srcs : srcs[i].enabled}
Compatible(srcs) == {i \in Enabled(srcs) : srcs[i].parser = "compatible-search"}
UrlsOf(srcs, ids) == {srcs[i].url : i \in ids}
UniqueUrls(srcs) == \A i, j \in DOMAIN srcs : srcs[i].url = srcs[j].url => i = j
FreeId(srcs) == CHOOSE i \in Ids : i \notin DOMAIN srcs
Put(f, key, value) == [k \in DOMAIN f \cup {key} |-> IF k = key THEN value ELSE f[k]]
Without(f, key) == [k \in DOMAIN f \ {key} |-> f[k]]

Environment == [movie |-> EnvFolders.movie, tv |-> EnvFolders.tv, media |-> {},
                sites |-> EnvUrls]
\* "alone" is history: no other request ran while this one did.
Quiet == [task |-> NoTask, pc |-> "idle", read |-> NoTask, alone |-> TRUE]

Init ==
  /\ saved = [blank |-> TRUE, movie |-> {}, tv |-> {}]
  /\ sources = <<>>
  /\ running = Environment
  /\ files = [a \in Adapters |-> [enabled |-> TRUE, passed |-> TRUE]]
  /\ loaded = files /\ present = Folders
  /\ admin = [a \in Admins |-> IF a = CHOOSE b \in Admins : TRUE
                               THEN [Quiet EXCEPT !.pc = "apply"] ELSE Quiet]
  /\ up = FALSE /\ settled = FALSE /\ agreed = TRUE
  /\ seeded = FALSE /\ dropped = {} /\ requests = 0

Busy == {a \in Admins : admin[a].pc # "idle"}
Goto(a, pc) == admin' = [admin EXCEPT ![a].pc = pc]
Ends(a) == admin' = [admin EXCEPT ![a] = Quiet]

(* ---------------------------- the requests ----------------------------- *)

SetupTasks ==
  [op : {"save"}, movie : SUBSET Folders, tv : {EnvFolders.tv}]
  \cup [op : {"addRoot"}, folder : Folders, kind : {"movie", "tv"}]
  \cup [op : {"removeRoot"}, folder : Folders]
SourceTasks ==
  [op : {"saveSource"}, id : Ids, url : Urls, parser : Parsers]
  \cup [op : {"autoSetup"}, url : Urls]
  \cup [op : {"toggle"}, id : Ids, enabled : BOOLEAN]
  \cup [op : {"delete"}, id : Ids]
\* The delete of the page of all sources, which applies nothing.
DropTasks == [op : {"drop"}, id : Ids]
AdapterTasks ==
  [op : {"toggleAdapter", "toggleLoaded"}, id : Adapters, enabled : BOOLEAN]
  \cup [op : {"deleteAdapter"}, id : Adapters]
  \cup [op : {"testAdapter", "retestAdapter"}, id : Adapters, passed : BOOLEAN]
  \cup [op : {"saveAdapter"}, id : Adapters \cup {NewAdapter},
        mode : {"", "new", "update"}, enabled : BOOLEAN, ready : BOOLEAN]

\* The page of all sources takes the adapter out of ENABLED_ADAPTERS and
\* changes it there; the page of the adapters reads its file.
InPlace == {"toggleLoaded", "testAdapter"}

\* What a request reads before it writes: the lists of roots, the source it
\* updates, the adapter it tests.
ReadBy(task) ==
  CASE task.op \in {"addRoot", "removeRoot"} -> saved
    [] task.op = "toggle" -> sources[task.id]
    [] task.op = "autoSetup" -> {i \in DOMAIN sources : sources[i].url = task.url}
    [] task.op \in InPlace -> loaded[task.id]
    [] OTHER -> NoTask

\* A folder that is configured or does not exist, a source or an adapter that
\* is not there, is refused.
Accepted(task) ==
  CASE task.op = "addRoot" -> task.folder \in present \ (saved.movie \cup saved.tv)
    [] task.op \in {"toggle", "drop"} -> task.id \in DOMAIN sources
    [] task.op \in InPlace -> task.id \in DOMAIN loaded
    [] OTHER -> TRUE

Begin(a) ==
  /\ up /\ admin[a].pc = "idle"
  /\ requests < MaxRequests /\ requests' = requests + 1
  /\ \E task \in SetupTasks \cup SourceTasks \cup DropTasks \cup AdapterTasks :
       /\ Accepted(task)
       /\ admin' = [b \in Admins |->
            IF b = a THEN [task |-> task, pc |-> "write", read |-> ReadBy(task),
                           alone |-> Busy = {}]
            ELSE [admin[b] EXCEPT !.alone = FALSE]]
       /\ settled' = (settled /\ task \in DropTasks \cup AdapterTasks)
       /\ agreed' = (agreed /\ task \notin AdapterTasks)
  /\ UNCHANGED <<table, running, registry, present, up, seeded, dropped>>

\* Folders come and go behind the requests' back: a mount, a user.
FolderChanges ==
  /\ requests < MaxRequests /\ requests' = requests + 1
  /\ \E folder \in Folders :
       present' = IF folder \in present THEN present \ {folder} ELSE present \cup {folder}
  /\ settled' = FALSE
  /\ admin' = [a \in Admins |-> [admin[a] EXCEPT !.alone = FALSE]]
  /\ UNCHANGED <<table, running, registry, up, agreed, seeded, dropped>>

(* --------------------- writes of settings and sources ------------------ *)

WriteSettings(a) ==
  /\ admin[a].pc = "write" /\ admin[a].task \in SetupTasks
  /\ LET task == admin[a].task
     IN saved' = CASE task.op = "save" ->
                        [blank |-> FALSE, movie |-> task.movie, tv |-> task.tv]
                   [] task.op = "addRoot" ->
                        [admin[a].read EXCEPT ![task.kind] = @ \cup {task.folder}]
                   [] task.op = "removeRoot" ->
                        [admin[a].read EXCEPT !.movie = @ \ {task.folder},
                                              !.tv = @ \ {task.folder}]
  /\ Goto(a, "apply")
  /\ UNCHANGED <<sources, running, registry, present, up, history, requests>>

\* An automatic setup updates the source of the host it was read for; saving
\* and toggling upsert by id, whatever happened to the row since.
Written(task, read) ==
  CASE task.op = "saveSource" ->
         Put(sources, task.id, [url |-> task.url, parser |-> task.parser, enabled |-> TRUE])
    [] task.op = "autoSetup" ->
         Put(sources, IF read # {} THEN CHOOSE i \in read : TRUE ELSE FreeId(sources),
             [url |-> task.url, parser |-> "custom-authorized", enabled |-> TRUE])
    [] task.op = "toggle" -> Put(sources, task.id, [read EXCEPT !.enabled = task.enabled])
    [] task.op = "delete" -> Without(sources, task.id)

WriteSource(a) ==
  /\ admin[a].pc = "write" /\ admin[a].task \in SourceTasks
  /\ LET after == Written(admin[a].task, admin[a].read)
     IN IF UniqueUrls(after)
        THEN sources' = after /\ Goto(a, "apply")
        ELSE sources' = sources /\ Goto(a, "failed")
  /\ UNCHANGED <<saved, running, registry, present, up, history, requests>>

\* The page of all sources deletes the row and leaves BOLLYFLIX_SITES alone.
DropSource(a) ==
  /\ admin[a].pc = "write" /\ admin[a].task \in DropTasks
  /\ LET id == admin[a].task.id
     IN /\ sources' = Without(sources, id)
        /\ dropped' = dropped \cup (UrlsOf(sources, {id} \cap DOMAIN sources) \cap running.sites)
  /\ Ends(a)
  /\ UNCHANGED <<saved, running, registry, present, up, settled, agreed, seeded, requests>>

(* --------------------- apply_persisted_configuration ------------------- *)

\* The first boot migrates the environment into the table.
ApplyRead(a) ==
  /\ admin[a].pc = "apply"
  /\ saved' = IF saved.blank
              THEN [blank |-> FALSE, movie |-> running.movie, tv |-> running.tv]
              ELSE saved
  /\ admin' = [admin EXCEPT ![a].pc = "assign", ![a].read = saved']
  /\ UNCHANGED <<sources, running, registry, present, up, history, requests>>

\* An empty list leaves the folders of the environment as they are; the media
\* library is looked for in the folders that exist.
ApplySettings(a) ==
  /\ admin[a].pc = "assign"
  /\ LET read == admin[a].read
     IN running' = [running EXCEPT !.movie = IF read.movie # {} THEN read.movie ELSE @,
                                   !.tv = IF read.tv # {} THEN read.tv ELSE @,
                                   !.media = (read.movie \cup read.tv) \cap present]
  /\ Goto(a, "sites")
  /\ UNCHANGED <<table, registry, present, up, history, requests>>

\* Without an enabled compatible source, the sites the process searches now
\* are saved as sources, one after the other; then every enabled source is
\* searched, a custom one too.  A URL that a disabled or a custom source has already violates a
\* UNIQUE constraint: the request, or the start of the process, fails there.
Seeded(urls) ==
  LET id == CHOOSE f \in [urls -> Ids] : IsInjective(f) /\ Range(f) \cap DOMAIN sources = {}
  IN [i \in DOMAIN sources \cup Range(id) |->
        IF i \in DOMAIN sources THEN sources[i]
        ELSE [url |-> CHOOSE u \in urls : id[u] = i,
              parser |-> "compatible-search", enabled |-> TRUE]]
\* Mutant: the insert ignores what is there.
NoneTaken == {}
Taken == running.sites \cap UrlsOf(sources, DOMAIN sources)

\* Mutant: the sites searched so far stay.
SearchingMore(a, sites) ==
  /\ running' = [running EXCEPT !.sites = @ \cup sites]
  /\ settled' = admin[a].alone /\ dropped' = {} /\ up' = TRUE
  /\ Ends(a)

Searching(a, sites) ==
  /\ running' = [running EXCEPT !.sites = sites]
  /\ settled' = admin[a].alone /\ dropped' = {} /\ up' = TRUE
  /\ Ends(a)

ApplySources(a) ==
  /\ admin[a].pc = "sites"
  /\ \/ /\ Compatible(sources) # {}
        /\ sources' = sources /\ seeded' = FALSE
        /\ Searching(a, UrlsOf(sources, Compatible(sources)))
     \/ /\ Compatible(sources) = {} /\ Taken = {}
        /\ sources' = Seeded(running.sites) /\ seeded' = TRUE
        /\ Searching(a, UrlsOf(sources', Enabled(sources')))
     \/ /\ Compatible(sources) = {} /\ Taken # {}
        /\ \E before \in SUBSET (running.sites \ Taken) : sources' = Seeded(before)
        /\ Goto(a, "failed")
        /\ UNCHANGED <<running, settled, seeded, dropped, up>>
  /\ UNCHANGED <<saved, registry, present, agreed, requests>>

\* The answer is an error, or the start of the process is given up.
Refuse(a) ==
  /\ admin[a].pc = "failed"
  /\ Ends(a)
  /\ UNCHANGED <<table, running, registry, present, up, history, requests>>

(* --------------------------- the adapter files ------------------------- *)

\* A save under an id that is taken makes a new one if it was told to.
SavedAs(task) ==
  IF task.mode = "new" /\ task.id \in DOMAIN files THEN NewAdapter ELSE task.id

\* A request on a file that is not there, or a save under an id that is taken,
\* is refused; a test writes the file whether or not it is still there.
Allowed(task) ==
  CASE task.op \in {"toggleAdapter", "retestAdapter", "deleteAdapter"} ->
         task.id \in DOMAIN files
    [] task.op = "saveAdapter" ->
         SavedAs(task) \notin DOMAIN files \/ task.mode = "update"
    [] OTHER -> TRUE

\* The files after a request that holds the adapter "held" of the list.
FilesAfter(task, held) ==
  CASE task.op = "toggleAdapter" -> [files EXCEPT ![task.id].enabled = task.enabled]
    [] task.op = "retestAdapter" -> [files EXCEPT ![task.id].passed = task.passed]
    [] task.op = "deleteAdapter" -> Without(files, task.id)
    [] task.op = "toggleLoaded" -> Put(files, task.id, [held EXCEPT !.enabled = task.enabled])
    [] task.op = "testAdapter" -> Put(files, task.id, [held EXCEPT !.passed = task.passed])
    [] task.op = "saveAdapter" ->
         Put(files, SavedAs(task), [enabled |-> task.enabled /\ task.ready,
                                    passed |-> task.ready])

\* The adapter a request holds is the list's own, changed before it is
\* written, unless the list was loaded anew since.
InList(task) == task.op \in InPlace /\ task.id \in DOMAIN loaded
Changed(task) == [loaded EXCEPT ![task.id] = FilesAfter(task, loaded[task.id])[task.id]]

WriteAdapter(a) ==
  /\ admin[a].pc = "write" /\ admin[a].task \in AdapterTasks
  /\ LET task == admin[a].task
     IN /\ Allowed(task)
        /\ \/ files' = FilesAfter(task, admin[a].read) /\ loaded' = loaded
           \/ /\ InList(task)
              /\ files' = FilesAfter(task, loaded[task.id])
              /\ loaded' = Changed(task)
  /\ Goto(a, "list")
  /\ UNCHANGED <<table, running, present, up, history, requests>>

\* The request is refused, or its write fails (a full disk): it ends and
\* loads nothing, but what it changed in the list stays changed.
WriteFails(a) ==
  /\ admin[a].pc = "write" /\ admin[a].task \in AdapterTasks
  /\ LET task == admin[a].task
     IN loaded' = loaded \/ (InList(task) /\ loaded' = Changed(task))
  /\ Ends(a)
  /\ UNCHANGED <<table, running, files, present, up, history, requests>>

\* ENABLED_ADAPTERS[:] = ADAPTERS.list(): the files are read, then assigned.
ListAdapters(a) ==
  /\ admin[a].pc = "list"
  /\ admin' = [admin EXCEPT ![a].pc = "load", ![a].read = files]
  /\ UNCHANGED <<table, running, registry, present, up, history, requests>>

LoadAdapters(a) ==
  /\ admin[a].pc = "load"
  /\ loaded' = admin[a].read
  /\ agreed' = admin[a].alone
  /\ Ends(a)
  /\ UNCHANGED <<table, running, files, present, up, settled, seeded, dropped, requests>>

\* Mutant: the result of the test is not looked at.
EnabledAdapters == {a \in DOMAIN loaded : loaded[a].enabled}

\* The adapters a search may use.
Searched == {a \in DOMAIN loaded : loaded[a].enabled /\ loaded[a].passed}

\* The process stops at any point and starts again: main() loads the adapter
\* files and applies the configuration before it serves requests.
Restart ==
  /\ requests < MaxRequests /\ requests' = requests + 1
  /\ running' = Environment
  /\ loaded' = files
  /\ up' = FALSE /\ settled' = FALSE /\ agreed' = TRUE
  /\ seeded' = FALSE /\ dropped' = {}
  /\ admin' = [a \in Admins |-> IF a = CHOOSE b \in Admins : TRUE
                                THEN [Quiet EXCEPT !.pc = "apply"] ELSE Quiet]
  /\ UNCHANGED <<table, files, present>>

Next ==
  \/ \E a \in Admins :
       \/ Begin(a) \/ WriteSettings(a) \/ WriteSource(a) \/ DropSource(a)
       \/ ApplyRead(a) \/ ApplySettings(a) \/ ApplySources(a) \/ Refuse(a)
       \/ WriteAdapter(a) \/ WriteFails(a) \/ ListAdapters(a) \/ LoadAdapters(a)
  \/ FolderChanges
  \/ Restart

Spec == Init /\ [][Next]_vars
-----------------------------------------------------------------------------
\* The values the program keeps, and the UNIQUE constraint on the URLs.
TypeOK ==
  /\ saved \in [blank : BOOLEAN, movie : SUBSET Folders, tv : SUBSET Folders]
  /\ DOMAIN sources \subseteq Ids /\ Range(sources) \subseteq Source
  /\ UniqueUrls(sources)
  /\ running \in [movie : SUBSET Folders, tv : SUBSET Folders,
                  media : SUBSET Folders, sites : SUBSET Urls]
  /\ DOMAIN files \subseteq Adapters \cup {NewAdapter} /\ Range(files) \subseteq Adapter
  /\ DOMAIN loaded \subseteq Adapters \cup {NewAdapter} /\ Range(loaded) \subseteq Adapter
  /\ present \subseteq Folders /\ dropped \subseteq Urls
  /\ \A a \in Admins : admin[a].pc \in
       {"idle", "write", "apply", "assign", "sites", "list", "load", "failed"}

\* After a configuration request that no other one overlapped and that did
\* not fail, and after a start, the process runs what the tables and the disk
\* say, whatever it ran before: the saved folders (a list that was emptied
\* excepted), of the media library those that exist, and for the sites every
\* enabled compatible source (apply_persisted_configuration: "Load Admin Setup
\* values into the running process without a restart").  Two exceptions are
\* the code's: when there was no such source, so that the sites were saved as
\* sources, the custom sources are searched too (against the comment "Do not
\* send generic selector-configured sources through it"); and a source that
\* the page of all sources deleted since is searched on.
SettledConfigurationRuns ==
  up /\ settled =>
    /\ saved.movie # {} => running.movie = saved.movie
    /\ saved.tv # {} => running.tv = saved.tv
    /\ running.media = (saved.movie \cup saved.tv) \cap present
    /\ running.sites =
         UrlsOf(sources, IF seeded THEN Enabled(sources) ELSE Compatible(sources)) \cup dropped
    /\ running.sites # {}

\* After an adapter request that no other one overlapped and whose write
\* succeeded, a search uses the adapters whose files are enabled and tested,
\* and no other (the /api/adapters and /api/admin/sources handlers).
SearchUsesStoredAdapters ==
  agreed => Searched = {a \in DOMAIN files : files[a].enabled /\ files[a].passed}

\* The automatic setup of a site that has a source already updates that
\* source; when nothing else runs it never ends in a unique-constraint error
\* (admin_setup_post: "that must upgrade/update the existing source, not fail
\* with a database unique-constraint error").
AutoSetupUpdatesSource ==
  \A a \in Admins :
    admin[a].pc = "failed" /\ admin[a].alone /\ admin[a].task # NoTask =>
      admin[a].task.op # "autoSetup"
=============================================================================
