------------------------------ MODULE Library ------------------------------
(* The local media library (library_backend.py, class LibraryService): the *)
(* scan thread, the rename of a matched item, the manual match, over the   *)
(* SQLite tables media_items and media_files and the files on disk.        *)
(*                                                                         *)
(* A directory name stands for the title and the year clean_title reads in *)
(* it; a content for the size and the modification time of a file.  A row  *)
(* is known by its fingerprint, which takes the path relative to the root, *)
(* so one file copied to two roots has one row.  A scan and a rename hold  *)
(* different locks, so their steps interleave; so do the changes other     *)
(* programs make to the disk.                                              *)
EXTENDS Integers, Sequences, FiniteSets, SequencesExt

CONSTANTS
  Roots,         \* the configured roots, in the order a scan takes them
  Dirs,          \* names of directories in a root
  TitleIn,       \* [Dirs -> Titles]: normalized_title(clean_title(name))
  YearIn,        \* [Dirs -> Years \cup {None}]
  DirFor,        \* DirFor[t][y]: the directory "t (y)" of a rename
  Titles, Years, None,
  RawNames,      \* names files have before any rename
  FoundFolders,  \* folders other programs may put files in
  Contents,
  InitialFiles,  \* the files on disk at the start
  TmdbTitles,    \* titles TMDB may answer with
  TmdbYear,      \* the year TMDB gives the title of a manual match
  MaxItems, MaxRows,
  MaxRequests,   \* bound on scans, renames and manual matches
  MaxChanges     \* bound on faults, crashes and changes of other programs

Folders == [root : Range(Roots), dir : Dirs]
FileNames == (RawNames \X {0}) \cup (Dirs \X (1 .. MaxRows))
Paths == [folder : Folders, name : FileNames]

\* What the names and the bounds are.
ASSUME LibraryAssumption ==
  /\ Roots \in Seq(Range(Roots))
  /\ TitleIn \in [Dirs -> Titles] /\ TmdbTitles \subseteq Titles
  /\ None \notin Years
  /\ YearIn \in [Dirs -> Years \cup {None}]
  /\ TmdbYear \in [TmdbTitles -> Years \cup {None}]
  /\ \A t \in TmdbTitles, y \in Years \cup {None} : DirFor[t][y] \in Dirs
  /\ FoundFolders \subseteq Folders
  /\ MaxItems \in Nat /\ MaxRows \in Nat
  /\ DOMAIN InitialFiles \subseteq Paths
  /\ InitialFiles \in [DOMAIN InitialFiles -> Contents]

VARIABLES
  folders,  \* folders that exist
  files,    \* [path -> content] for the paths that exist
  mounted,  \* roots that can be read
  items,    \* media_items: [id -> record]
  rows,     \* media_files: [id -> record]
  scan,     \* the scan thread and what it holds in local variables
  rename,   \* the rename request under way
  requests, changes

vars == <<folders, files, mounted, items, rows, scan, rename, requests, changes>>
db == <<items, rows>>
fs == <<folders, files, mounted>>
bounds == <<requests, changes>>

Item == [root : Range(Roots), norm : Titles, title : Titles,
         year : Years \cup {None}, folder : Folders, available : BOOLEAN,
         matched : BOOLEAN, needsMatch : BOOLEAN, manual : BOOLEAN, mixed : BOOLEAN]
Row == [item : 1 .. MaxItems, path : Paths, content : Contents, active : BOOLEAN]

\* "calm", "before" and "stuck" are history: nothing else touched what the scan
\* reads or the rename moves, what was there when it began, and a move of its
\* rollback failed.  So is "mixed" of an item: a rename of another item moved
\* one of its files.
IdleScan == [pc |-> "idle", item |-> 0, roots |-> <<>>, dirs |-> {},
             files |-> {}, parsed |-> <<>>, seen |-> {}, todo |-> {},
             calm |-> TRUE, before |-> {}]
IdleRename == [pc |-> "idle", item |-> 0, from |-> None, to |-> None,
               moves |-> <<>>, next |-> 1, moved |-> <<>>,
               folderMoved |-> FALSE, stuck |-> FALSE, calm |-> TRUE, before |-> <<>>]

Init ==
  /\ folders = {p.folder : p \in DOMAIN InitialFiles}
  /\ files = InitialFiles
  /\ mounted = Range(Roots)
  /\ items = <<>> /\ rows = <<>>
  /\ scan = IdleScan /\ rename = IdleRename
  /\ requests = 0 /\ changes = 0

Requested == requests < MaxRequests /\ requests' = requests + 1
Changed == changes < MaxChanges /\ changes' = changes + 1
Put(f, key, value) == [k \in DOMAIN f \cup {key} |-> IF k = key THEN value ELSE f[k]]
Fresh(f, max) == CHOOSE k \in 1 .. max : k \notin DOMAIN f
HasRoom(f, max) == \E k \in 1 .. max : k \notin DOMAIN f
Readable(f) == f \in folders /\ f.root \in mounted
OnDisk(p) == p \in DOMAIN files /\ p.folder.root \in mounted
RowsOf(rs, i) == {k \in DOMAIN rs : rs[k].item = i}
ActiveOf(rs, i) == {k \in RowsOf(rs, i) : rs[k].active}

(* ------------------------------ the scan ------------------------------- *)

StartScan ==
  /\ scan.pc = "idle" /\ Requested
  /\ \/ scan' = [IdleScan EXCEPT !.pc = "root", !.roots = Roots]
     \/ \E i \in DOMAIN items : scan' = [IdleScan EXCEPT !.pc = "rescan", !.item = i]
  /\ UNCHANGED <<db, fs, rename, changes>>

\* rglob lists the root first; a root that cannot be read is skipped.
EnterRoot ==
  /\ scan.pc = "root" /\ scan.roots # <<>>
  /\ IF Head(scan.roots) \in mounted
     THEN scan' = [scan EXCEPT !.pc = "walk",
                     !.dirs = {f \in folders : f.root = Head(scan.roots)}]
     ELSE scan' = [scan EXCEPT !.roots = Tail(@)]
  /\ UNCHANGED <<db, fs, rename, bounds>>

WalkFolder ==
  /\ scan.pc = "walk" /\ scan.files = {} /\ scan.parsed = <<>>
  /\ \E f \in scan.dirs :
       scan' = [scan EXCEPT !.dirs = @ \ {f},
                            !.files = {p \in DOMAIN files : OnDisk(p) /\ p.folder = f}]
  /\ UNCHANGED <<db, fs, rename, bounds>>

\* is_file, parse_media_file and its stat; a rescan also compares the title.
StatFile ==
  /\ scan.pc = "walk" /\ scan.parsed = <<>>
  /\ \E p \in scan.files :
       scan' = [scan EXCEPT !.files = @ \ {p},
                  !.parsed = IF OnDisk(p)
                                /\ (scan.item # 0 => TitleIn[p.folder.dir] = items[scan.item].norm)
                             THEN <<p, files[p]>> ELSE <<>>]
  /\ UNCHANGED <<db, fs, rename, bounds>>

Matching(r, t, y) ==
  {i \in DOMAIN items : items[i].root = r /\ items[i].norm = t /\ items[i].year = y}

NewItem(f) ==
  [root |-> f.root, norm |-> TitleIn[f.dir], title |-> TitleIn[f.dir], year |-> YearIn[f.dir],
   folder |-> f, available |-> TRUE, matched |-> FALSE, needsMatch |-> FALSE,
   manual |-> FALSE, mixed |-> FALSE]

\* Mutant: the year is not looked at.
TitleChoices(f) ==
  LET same == {i \in DOMAIN items : items[i].root = f.root /\ items[i].norm = TitleIn[f.dir]}
  IN IF same # {} THEN {<<i, items>> : i \in same}
     ELSE {<<Fresh(items, MaxItems), Put(items, Fresh(items, MaxItems), NewItem(f))>>}

\* The item a file of folder f goes to, with the table that results: the one
\* of its title and year, else one without a year, which takes the year, else
\* a new one.
ItemChoices(f) ==
  LET exact == Matching(f.root, TitleIn[f.dir], YearIn[f.dir])
      legacy == Matching(f.root, TitleIn[f.dir], None)
      new == Fresh(items, MaxItems)
  IN IF exact # {} THEN {<<i, items>> : i \in exact}
     ELSE IF legacy # {} THEN {<<i, [items EXCEPT ![i].year = YearIn[f.dir]]>> : i \in legacy}
     ELSE {<<new, Put(items, new, NewItem(f))>>}

\* Mutant: each file found is a new row.
AlwaysFresh(p, c) == Fresh(rows, MaxRows)

\* A row is found by its fingerprint, in whatever root the file lies: the
\* path in the root, the size and the modification time.
Fingerprint(p, c) == <<p.folder.dir, p.name, c>>
RowFor(p, c) ==
  LET same == {k \in DOMAIN rows :
                 Fingerprint(rows[k].path, rows[k].content) = Fingerprint(p, c)}
  IN IF same # {} THEN CHOOSE k \in same : TRUE ELSE Fresh(rows, MaxRows)

Recalculated(its, rs, i) == [its EXCEPT ![i].available = ActiveOf(rs, i) # {}]

\* The item a row of another root is taken from is not recalculated.
UpsertFile ==
  /\ scan.pc = "walk" /\ scan.parsed # <<>>
  /\ HasRoom(items, MaxItems) /\ HasRoom(rows, MaxRows)
  /\ LET p == scan.parsed[1]
         c == scan.parsed[2]
     IN \E choice \in ItemChoices(p.folder) :
          /\ rows' = Put(rows, RowFor(p, c),
                         [item |-> choice[1], path |-> p, content |-> c, active |-> TRUE])
          /\ items' = Recalculated(choice[2], rows', choice[1])
          /\ scan' = [scan EXCEPT !.parsed = <<>>, !.seen = @ \cup {choice[1]}]
  /\ UNCHANGED <<fs, rename, bounds>>

Walked == scan.pc = "walk" /\ scan.dirs = {} /\ scan.files = {} /\ scan.parsed = <<>>

\* Mutant: items whose files are gone stay available.
KeepStale ==
  /\ Walked /\ scan.item = 0
  /\ scan' = [scan EXCEPT !.pc = "root", !.roots = Tail(@)]
  /\ UNCHANGED <<db, fs, rename, bounds>>

\* The end of a root: its items that no file was seen of become unavailable.
StalePass ==
  /\ Walked /\ scan.item = 0
  /\ items' = [i \in DOMAIN items |->
                 IF items[i].root = Head(scan.roots) /\ i \notin scan.seen
                 THEN [items[i] EXCEPT !.available = FALSE] ELSE items[i]]
  /\ scan' = [scan EXCEPT !.pc = "root", !.roots = Tail(@)]
  /\ UNCHANGED <<rows, fs, rename, bounds>>

ReadUnmatched ==
  /\ scan.pc = "root" /\ scan.roots = <<>>
  /\ scan' = [scan EXCEPT !.pc = "match",
                !.todo = {i \in DOMAIN items : ~items[i].matched /\ ~items[i].needsMatch}]
  /\ UNCHANGED <<db, fs, rename, bounds>>

\* The answer of TMDB replaces the title, never the year or the normalized
\* title; no answer asks for a match by hand.
Refreshed(i) ==
  {[items EXCEPT ![i].needsMatch = TRUE]} \cup
  {[items EXCEPT ![i].title = t, ![i].matched = TRUE, ![i].needsMatch = FALSE] :
     t \in TmdbTitles}

MatchItem ==
  /\ scan.pc = "match"
  /\ \E i \in scan.todo :
       items' \in Refreshed(i) /\ scan' = [scan EXCEPT !.todo = @ \ {i}]
  /\ UNCHANGED <<rows, fs, rename, bounds>>

\* The folder a rescan walks is the one of the item's smallest path, active
\* or not, else the one the item was found in.
FolderOf(i) ==
  IF RowsOf(rows, i) # {} THEN {rows[k].path.folder : k \in RowsOf(rows, i)}
                          ELSE {items[i].folder}

RescanOpen ==
  /\ scan.pc = "rescan"
  /\ \E f \in FolderOf(scan.item) :
       IF Readable(f)
       THEN /\ rows' = [k \in DOMAIN rows |->
                          IF rows[k].item = scan.item
                          THEN [rows[k] EXCEPT !.active = FALSE] ELSE rows[k]]
            /\ scan' = [scan EXCEPT !.pc = "walk", !.dirs = {f},
                          !.before = {rows[k].path : k \in ActiveOf(rows, scan.item)}]
       ELSE UNCHANGED rows /\ scan' = [scan EXCEPT !.pc = "warned"]
  /\ UNCHANGED <<items, fs, rename, bounds>>

RescanClose ==
  /\ Walked /\ scan.item # 0
  /\ items' = Recalculated(items, rows, scan.item)
  /\ scan' = [scan EXCEPT !.pc = "match", !.todo = {scan.item}]
  /\ UNCHANGED <<rows, fs, rename, bounds>>

ScanDone ==
  /\ scan.pc = "match" /\ scan.todo = {}
  /\ scan' = [scan EXCEPT !.pc = "completed"]
  /\ UNCHANGED <<db, fs, rename, bounds>>

\* Any exception ends the scan where it is.
ScanFails ==
  /\ scan.pc \in {"root", "walk", "match", "rescan"} /\ Changed
  /\ scan' = [scan EXCEPT !.pc = "warned"]
  /\ UNCHANGED <<db, fs, rename, requests>>

\* The finally block: the row of the job is written and the lock released.
FinishScan ==
  /\ scan.pc \in {"completed", "warned"}
  /\ scan' = IdleScan
  /\ UNCHANGED <<db, fs, rename, bounds>>

(* ----------------------- the match and the rename ---------------------- *)

\* A match by hand moves the item to the title and year of TMDB, unless
\* another item of the root has them (a UNIQUE constraint).
ManualMatch ==
  /\ Requested
  /\ \E i \in DOMAIN items, t \in TmdbTitles :
       LET year == IF TmdbYear[t] # None THEN TmdbYear[t] ELSE items[i].year
       IN /\ year # None => Matching(items[i].root, t, year) \subseteq {i}
          /\ items' = [items EXCEPT ![i].title = t, ![i].norm = t, ![i].year = year,
                         ![i].matched = TRUE, ![i].needsMatch = FALSE, ![i].manual = TRUE]
  /\ scan' = [scan EXCEPT !.calm = FALSE]
  /\ UNCHANGED <<rows, fs, rename, changes>>

Numbered(f, n) == [folder |-> f, name |-> <<f.dir, n>>]

\* The names a plan gives the files, in the order of their names: the first
\* number that no earlier file takes and no other file on disk has.
PlannedNames(order, target) ==
  LET number[n \in 1 .. Len(order)] ==
        CHOOSE k \in 1 .. MaxRows :
          LET Free(j) == /\ \A m \in 1 .. n - 1 : number[m] # j
                         /\ Numbered(target, j) \in DOMAIN files
                              => Numbered(target, j) = rows[order[n]].path
          IN Free(k) /\ \A j \in 1 .. k - 1 : ~Free(j)
  IN [n \in 1 .. Len(order) |->
        [row |-> order[n], from |-> rows[order[n]].path, to |-> Numbered(target, number[n]),
         content |-> rows[order[n]].content]]

\* A rename stays in the root of its item.
TargetOf(item) == [root |-> item.root, dir |-> DirFor[item.title][item.year]]

\* rename_matched_files up to its first change: every refusal is a conjunct.
PlanRename ==
  /\ rename.pc = "idle" /\ Requested
  /\ \E i \in DOMAIN items :
       LET item == items[i]
           target == TargetOf(item)
       IN /\ item.matched
          /\ ActiveOf(rows, i) # {}
          /\ Readable(item.folder)
          /\ \A k \in ActiveOf(rows, i) : OnDisk(rows[k].path)
          /\ item.folder # target => target \notin folders
          /\ \E order \in SetToSeqs(ActiveOf(rows, i)) :
               /\ \A n \in DOMAIN order : PlannedNames(order, target)[n].to \in Paths
               /\ rename' = [IdleRename EXCEPT
                               !.pc = IF item.folder # target THEN "folder" ELSE "files",
                               !.item = i, !.from = item.folder, !.to = target,
                               !.moves = PlannedNames(order, target), !.before = files]
  /\ UNCHANGED <<db, fs, scan, changes>>

MovedFolder(from, to) ==
  LET here == {p \in DOMAIN files : p.folder # from}
      there == {p \in Paths : p.folder = to /\ [p EXCEPT !.folder = from] \in DOMAIN files}
  IN /\ folders' = (folders \ {from}) \cup {to}
     /\ files' = [p \in here \cup there |->
                    IF p \in there THEN files[[p EXCEPT !.folder = from]] ELSE files[p]]

MovedFile(from, to) ==
  files' = [p \in (DOMAIN files \ {from}) \cup {to} |-> IF p = to THEN files[from] ELSE files[p]]

ScanDisturbed == scan' = [scan EXCEPT !.calm = FALSE]
Undoing == rename' = [rename EXCEPT !.pc = "undo"]

MoveFolder ==
  /\ rename.pc = "folder"
  /\ ScanDisturbed
  /\ IF Readable(rename.from) /\ rename.to \notin folders
     THEN /\ MovedFolder(rename.from, rename.to)
          /\ rename' = [rename EXCEPT !.pc = "files", !.folderMoved = TRUE]
     ELSE UNCHANGED <<folders, files>> /\ Undoing
  /\ UNCHANGED <<db, mounted, bounds>>

\* Where a planned file is once the folder has moved; a file outside that
\* folder makes relative_to raise.
SourceNow(move) ==
  IF rename.folderMoved THEN [move.from EXCEPT !.folder = rename.to] ELSE move.from
Movable(move) ==
  /\ rename.folderMoved => move.from.folder = rename.from
  /\ OnDisk(SourceNow(move))
  /\ SourceNow(move) # move.to => move.to \notin DOMAIN files

MoveFile ==
  /\ rename.pc = "files" /\ rename.next <= Len(rename.moves)
  /\ ScanDisturbed
  /\ LET move == rename.moves[rename.next]
         source == SourceNow(move)
     IN IF Movable(move)
        THEN /\ IF source # move.to THEN MovedFile(source, move.to) ELSE UNCHANGED files
             /\ rename' = [rename EXCEPT !.next = @ + 1,
                  !.moves[rename.next].content = files[source],
                  !.moved = IF source # move.to THEN Append(@, <<source, move.to>>) ELSE @]
        ELSE UNCHANGED files /\ Undoing
  /\ UNCHANGED <<db, folders, mounted, bounds>>

\* The row of a moved file, with its size and time after the move.  A row has
\* its path in the root of its item, which a scan may have changed meanwhile.
\* Mutant: the path is not written.
RestampedRow(row, move) == [row EXCEPT !.content = move.content]
InRoot(p, r) == [folder |-> [root |-> r, dir |-> p.folder.dir], name |-> p.name]
RenamedRow(row, move) ==
  [row EXCEPT !.path = InRoot(move.to, items[row.item].root), !.content = move.content]

\* The rows after the first n updates of a commit.
Updated(n) ==
  [k \in DOMAIN rows |->
     LET moveOf == {m \in 1 .. n : rename.moves[m].row = k}
     IN IF moveOf = {} THEN rows[k]
        ELSE RenamedRow(rows[k], rename.moves[CHOOSE m \in moveOf : TRUE])]
NoneTwice(rs) ==
  \A j, k \in DOMAIN rs : j # k =>
    Fingerprint(rs[j].path, rs[j].content) # Fingerprint(rs[k].path, rs[k].content)

\* One transaction, row by row; the fingerprint is UNIQUE, so a row a scan
\* inserted for a new path, or the row of a copy that was renamed in another
\* root before, makes it fail.
CommitRename ==
  /\ rename.pc = "files" /\ rename.next > Len(rename.moves)
  /\ ScanDisturbed
  /\ IF \A n \in DOMAIN rename.moves : NoneTwice(Updated(n))
     THEN /\ rows' = Updated(Len(rename.moves))
          /\ items' = [i \in DOMAIN items |->
               [items[i] EXCEPT
                  !.folder = IF i = rename.item THEN rename.to ELSE @,
                  !.mixed = @ \/ (i # rename.item /\ \E n \in DOMAIN rename.moves :
                                     rows[rename.moves[n].row].item = i)]]
          /\ rename' = [rename EXCEPT !.pc = "renamed"]
     ELSE UNCHANGED db /\ Undoing
  /\ UNCHANGED <<fs, bounds>>

\* A move of the rollback happens if the file is there and its old place is
\* free.
UndoFile ==
  /\ rename.pc = "undo" /\ rename.moved # <<>>
  /\ ScanDisturbed
  /\ LET back == Last(rename.moved)
     IN IF OnDisk(back[2]) /\ back[1] \notin DOMAIN files
        THEN MovedFile(back[2], back[1]) ELSE UNCHANGED files
  /\ rename' = [rename EXCEPT !.moved = Front(@)]
  /\ UNCHANGED <<db, folders, mounted, bounds>>

\* Mutant: only the files are put back.
LeaveFolder ==
  /\ rename.pc = "undo" /\ rename.moved = <<>>
  /\ ScanDisturbed /\ rename' = [rename EXCEPT !.pc = "refused"]
  /\ UNCHANGED <<db, fs, bounds>>

UndoFolder ==
  /\ rename.pc = "undo" /\ rename.moved = <<>>
  /\ ScanDisturbed
  /\ IF rename.folderMoved /\ Readable(rename.to) /\ rename.from \notin folders
     THEN MovedFolder(rename.to, rename.from) ELSE UNCHANGED <<folders, files>>
  /\ rename' = [rename EXCEPT !.pc = "refused"]
  /\ UNCHANGED <<db, mounted, bounds>>

\* An OSError of a move of the rollback is swallowed: the file, or the folder,
\* stays where it is and the rollback goes on.
UndoFails ==
  /\ rename.pc = "undo" /\ Changed
  /\ ScanDisturbed
  /\ IF rename.moved # <<>>
     THEN rename' = [rename EXCEPT !.moved = Front(@), !.stuck = TRUE]
     ELSE rename.folderMoved /\ rename' = [rename EXCEPT !.pc = "refused", !.stuck = TRUE]
  /\ UNCHANGED <<db, fs, requests>>

\* The destination refuses a write, or the database is locked.
RenameFails ==
  /\ rename.pc \in {"folder", "files"} /\ Changed
  /\ Undoing
  /\ UNCHANGED <<db, fs, scan, requests>>

EndRename ==
  /\ rename.pc \in {"renamed", "refused"}
  /\ rename' = IdleRename
  /\ UNCHANGED <<db, fs, scan, bounds>>

(* ------------------ other programs, and the process -------------------- *)

Disturbed == ScanDisturbed /\ rename' = [rename EXCEPT !.calm = FALSE]

\* A new file, another one in the place of a file, or a copy of a file of
\* another root with its time.
AddFile ==
  /\ Changed /\ Disturbed
  /\ \E p \in DOMAIN files \cup [folder : FoundFolders, name : RawNames \X {0}],
        c \in Contents :
       /\ \/ c \notin Range(files) \cup {rows[k].content : k \in DOMAIN rows}
          \/ \E q \in DOMAIN files : Fingerprint(q, files[q]) = Fingerprint(p, c)
       /\ files' = Put(files, p, c) /\ folders' = folders \cup {p.folder}
  /\ UNCHANGED <<db, mounted, requests>>

RemoveFile ==
  /\ Changed /\ Disturbed
  /\ \E p \in DOMAIN files : files' = [q \in DOMAIN files \ {p} |-> files[q]]
  /\ UNCHANGED <<db, folders, mounted, requests>>

MountChanges ==
  /\ Changed /\ Disturbed
  /\ \E r \in Range(Roots) :
       mounted' = IF r \in mounted THEN mounted \ {r} ELSE mounted \cup {r}
  /\ UNCHANGED <<db, folders, files, requests>>

\* Both threads die with the process; nothing resumes them.
Crash ==
  /\ Changed
  /\ scan' = IdleScan /\ rename' = IdleRename
  /\ UNCHANGED <<db, fs, requests>>

ScanStep ==
  \/ EnterRoot \/ WalkFolder \/ StatFile \/ UpsertFile \/ StalePass \/ ReadUnmatched
  \/ MatchItem \/ RescanOpen \/ RescanClose \/ ScanDone \/ FinishScan
RenameStep ==
  MoveFolder \/ MoveFile \/ CommitRename \/ UndoFile \/ UndoFolder \/ EndRename
Environment ==
  AddFile \/ RemoveFile \/ MountChanges \/ Crash \/ ScanFails \/ RenameFails \/ UndoFails

Next ==
  \/ StartScan \/ ManualMatch \/ PlanRename
  \/ ScanStep \/ RenameStep \/ Environment

Spec == Init /\ [][Next]_vars
-----------------------------------------------------------------------------
\* The values the program keeps, and the UNIQUE constraints of its tables.
TypeOK ==
  /\ folders \subseteq Folders /\ mounted \subseteq Range(Roots)
  /\ DOMAIN files \subseteq Paths /\ Range(files) \subseteq Contents
  /\ DOMAIN items \subseteq 1 .. MaxItems /\ Range(items) \subseteq Item
  /\ DOMAIN rows \subseteq 1 .. MaxRows /\ Range(rows) \subseteq Row
  /\ NoneTwice(rows)
  /\ \A i \in DOMAIN items : items[i].year # None =>
       Matching(items[i].root, items[i].norm, items[i].year) = {i}
  /\ scan.pc \in {"idle", "root", "walk", "rescan", "match", "completed", "warned"}
  /\ rename.pc \in {"idle", "folder", "files", "undo", "renamed", "refused"}
  /\ scan.item \in 0 .. MaxItems /\ rename.item \in 0 .. MaxItems

HasRow(p, i) ==
  \E k \in ActiveOf(rows, i) : rows[k].path = p /\ rows[k].content = files[p]

\* The file p for the table: itself, and its copies in the other roots.
Copies(p) ==
  {q \in DOMAIN files : OnDisk(q) /\ Fingerprint(q, files[q]) = Fingerprint(p, files[p])}

\* A full scan that completed while nothing else touched the disk or the
\* tables has found what is there: each file of a readable root is an active
\* row of an available item of its title, or a copy of it in another root is;
\* and an item of such a root is available only if a file of its title is
\* there, which is its active row unless another root has a copy of it.
\* Earlier crashes, failed rescans and renames, deletions and moves do not
\* matter (LibraryService._scan_worker, _upsert_file).
ScanReflectsDisk ==
  scan.pc = "completed" /\ scan.item = 0 /\ scan.calm =>
    /\ \A p \in DOMAIN files : OnDisk(p) =>
         \E q \in Copies(p), i \in DOMAIN items :
           items[i].available /\ items[i].norm = TitleIn[p.folder.dir] /\ HasRow(q, i)
    /\ \A i \in DOMAIN items :
         items[i].available /\ items[i].root \in mounted =>
           \E p \in DOMAIN files :
             /\ p.folder.root = items[i].root /\ TitleIn[p.folder.dir] = items[i].norm
             /\ HasRow(p, i) \/ Copies(p) # {p}

\* Two films of one name and different years are never one item, whatever
\* the order their files and a file without a year are found in.  Two things
\* move an item to another year: a match by hand, and the rename of such an
\* item if a scan has given one of its files to another item meanwhile
\* (LibraryService._upsert_file, the comment on remakes).
YearsStayApart ==
  \A j, k \in DOMAIN rows :
    /\ rows[j].item = rows[k].item
    /\ ~items[rows[j].item].manual /\ ~items[rows[j].item].mixed
    /\ {YearIn[rows[j].path.folder.dir], YearIn[rows[k].path.folder.dir]} \subseteq Years
    => YearIn[rows[j].path.folder.dir] = YearIn[rows[k].path.folder.dir]

\* Each file of disk is somewhere, whole: none was lost or written over.
NoneLost(disk) ==
  \E now \in [DOMAIN disk -> DOMAIN files] :
    IsInjective(now) /\ \A p \in DOMAIN disk : files[now[p]] = disk[p]

\* A rename that fails, at any of its moves or in the database, loses no file,
\* even if moves of its rollback fail too and the rollback goes on; if none of
\* them failed, every file and the folder are back.  Other programs did not
\* touch the disk meanwhile (LibraryService.rename_matched_files).
FailedRenameRestoresDisk ==
  rename.pc = "refused" /\ rename.calm =>
    NoneLost(rename.before) /\ (~rename.stuck => files = rename.before)

\* A rename that succeeds leaves each file it moved where the tables say it
\* is, even if a scan ran at the same time under its own lock, with two
\* exceptions: the plan had two rows of one path (a file that was replaced
\* keeps its old row), or the scan gave the row to a copy in another root
\* (LibraryService.rename_matched_files).
RenamedRowsExist ==
  rename.pc = "renamed" /\ rename.calm
    /\ (\A m, n \in DOMAIN rename.moves :
          rename.moves[m].from = rename.moves[n].from => m = n) =>
    \A n \in DOMAIN rename.moves :
      LET row == rows[rename.moves[n].row]
      IN row.path.folder.root = rename.to.root =>
           row.path \in DOMAIN files /\ row.content = files[row.path]

\* A rescan that completed while nothing else touched the disk or the tables
\* keeps what it had of the files that are still there
\* (LibraryService._rescan_item_files: "every file discovered below turns
\* active again").
RescanKeepsFiles ==
  scan.pc = "completed" /\ scan.item # 0 /\ scan.calm =>
    \A p \in scan.before : p \in DOMAIN files =>
      \E k \in DOMAIN rows : rows[k].path = p /\ rows[k].active
=============================================================================
