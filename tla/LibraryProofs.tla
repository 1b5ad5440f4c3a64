---------------------------- MODULE LibraryProofs ----------------------------
(***************************************************************************)
(* Proofs about the local library: any number of folders, files, items and *)
(* requests, a scan and a rename in any interleaving, with faults, crashes  *)
(* and other programs at the disk.                                         *)
(*                                                                         *)
(* The proofs go by what an action may touch: few actions change the disk,  *)
(* few the items, few the rows.  One invariant per question carries it from *)
(* the first step of a scan or a rename to the last.                       *)
(***************************************************************************)
EXTENDS Library, FiniteSetTheorems, TLAPS

Disks == UNION {[D -> Contents] : D \in SUBSET Paths}
Move == [row : 1 .. MaxRows, from : Paths, to : Paths, content : Contents]

ScanPhases == {"idle", "root", "walk", "rescan", "match", "completed", "warned"}
Scan == [pc : ScanPhases, item : 0 .. MaxItems, roots : Seq(Range(Roots)),
         dirs : SUBSET Folders, files : SUBSET Paths,
         parsed : {<<>>} \cup (Paths \X Contents), seen : SUBSET (1 .. MaxItems),
         todo : SUBSET (1 .. MaxItems), calm : BOOLEAN, before : SUBSET Paths]

RenamePhases == {"idle", "folder", "files", "undo", "renamed", "refused"}
Rename == [pc : RenamePhases, item : 0 .. MaxItems, from : Folders \cup {None},
           to : Folders \cup {None}, moves : Seq(Move), next : Nat \ {0},
           moved : Seq(Paths \X Paths), folderMoved : BOOLEAN, stuck : BOOLEAN,
           calm : BOOLEAN, before : Disks]

\* The disk: each file lies in a folder that exists.
DiskOK ==
  /\ folders \subseteq Folders /\ mounted \subseteq Range(Roots)
  /\ files \in Disks
  /\ \A p \in DOMAIN files : p.folder \in folders

\* The tables, with their UNIQUE constraints.
ItemKeysUnique ==
  \A i, j \in DOMAIN items :
    items[i].year # None /\ items[i].root = items[j].root
      /\ items[i].norm = items[j].norm /\ items[i].year = items[j].year => i = j
ItemsOK ==
  /\ DOMAIN items \subseteq 1 .. MaxItems
  /\ items \in [DOMAIN items -> Item]
  /\ \A i \in DOMAIN items : /\ items[i].root = items[i].folder.root
                             /\ items[i].matched => items[i].title \in TmdbTitles
FingerprintsUnique ==
  \A j, k \in DOMAIN rows :
    Fingerprint(rows[j].path, rows[j].content) = Fingerprint(rows[k].path, rows[k].content)
      => j = k
RowsOK ==
  /\ DOMAIN rows \subseteq 1 .. MaxRows
  /\ rows \in [DOMAIN rows -> Row]
  /\ \A k \in DOMAIN rows : /\ rows[k].item \in DOMAIN items
                            /\ rows[k].path.folder.root = items[rows[k].item].root

ScanOK ==
  /\ scan \in Scan
  /\ scan.item # 0 => scan.item \in DOMAIN items
  /\ scan.seen \subseteq DOMAIN items /\ scan.todo \subseteq DOMAIN items
  /\ scan.pc = "walk" /\ scan.item = 0 => scan.roots # <<>>
  /\ scan.pc = "rescan" => scan.item # 0

\* A rename under way: its item, its two folders in the root of the item, and
\* a plan with one move for each row.
PlanOK ==
  /\ rename.item \in DOMAIN items /\ rename.from \in Folders /\ rename.to \in Folders
  /\ rename.from.root = items[rename.item].root
  /\ rename.to.root = items[rename.item].root
  /\ \A n \in DOMAIN rename.moves :
       rename.moves[n].row \in DOMAIN rows /\ rename.moves[n].to.folder = rename.to
  /\ \A m, n \in DOMAIN rename.moves :
       rename.moves[m].row = rename.moves[n].row => m = n
RenameOK ==
  /\ rename \in Rename
  /\ rename.pc # "idle" => PlanOK
  /\ rename.pc = "folder" => /\ rename.moved = <<>> /\ rename.next = 1
                             /\ ~rename.folderMoved /\ rename.from # rename.to
  /\ rename.pc = "files" => /\ rename.to \in folders
                            /\ rename.folderMoved <=> rename.from # rename.to
  /\ rename.pc \in {"files", "undo"} =>
       \A n \in DOMAIN rename.moved : rename.moved[n][1].folder \in folders

LibraryInv ==
  /\ DiskOK
  /\ ItemsOK /\ ItemKeysUnique
  /\ RowsOK /\ FingerprintsUnique
  /\ ScanOK /\ RenameOK
-----------------------------------------------------------------------------
(* ------------------- who changes the disk and the tables --------------- *)

LEMMA WhoChangesTheDisk ==
  [Next]_vars => \/ UNCHANGED fs
                 \/ MoveFolder \/ MoveFile \/ UndoFile \/ UndoFolder
                 \/ AddFile \/ RemoveFile \/ MountChanges
BY DEF Next, ScanStep, RenameStep, Environment, vars, db, fs, bounds, StartScan, ManualMatch,
   PlanRename, EnterRoot, WalkFolder, StatFile, UpsertFile, StalePass, ReadUnmatched,
   MatchItem, RescanOpen, RescanClose, ScanDone, FinishScan, CommitRename, EndRename,
   Crash, ScanFails, RenameFails, UndoFails

LEMMA WhoWritesItems ==
  [Next]_vars => \/ UNCHANGED items
                 \/ UpsertFile \/ StalePass \/ MatchItem \/ RescanClose
                 \/ ManualMatch \/ CommitRename
BY DEF Next, ScanStep, RenameStep, Environment, vars, db, fs, bounds, StartScan,
   PlanRename, EnterRoot, WalkFolder, StatFile, ReadUnmatched, RescanOpen, ScanDone,
   FinishScan, MoveFolder, MoveFile, UndoFile, UndoFolder, EndRename, AddFile, RemoveFile,
   MountChanges, Crash, ScanFails, RenameFails, UndoFails

LEMMA WhoWritesRows ==
  [Next]_vars => UNCHANGED rows \/ UpsertFile \/ RescanOpen \/ CommitRename
BY DEF Next, ScanStep, RenameStep, Environment, vars, db, fs, bounds, StartScan,
   ManualMatch, PlanRename, EnterRoot, WalkFolder, StatFile, StalePass, ReadUnmatched,
   MatchItem, RescanClose, ScanDone, FinishScan, MoveFolder, MoveFile, UndoFile,
   UndoFolder, EndRename, AddFile, RemoveFile, MountChanges, Crash, ScanFails, RenameFails,
   UndoFails

(* ------------------------------ helpers -------------------------------- *)

LEMMA RangeHolds == ASSUME NEW f, NEW k \in DOMAIN f PROVE f[k] \in Range(f)
BY DEF Range

LEMMA RangeTyped ==
  ASSUME NEW f, NEW S PROVE (Range(f) \subseteq S) <=> \A k \in DOMAIN f : f[k] \in S
BY DEF Range

LEMMA FreshIsNew ==
  ASSUME NEW f, NEW max, HasRoom(f, max)
  PROVE  Fresh(f, max) \in 1 .. max /\ Fresh(f, max) \notin DOMAIN f
BY DEF HasRoom, Fresh

LEMMA PutGives ==
  ASSUME NEW f, NEW key, NEW value
  PROVE  /\ DOMAIN Put(f, key, value) = DOMAIN f \cup {key}
         /\ Put(f, key, value)[key] = value
         /\ \A k \in DOMAIN f : k # key => Put(f, key, value)[k] = f[k]
BY DEF Put

LEMMA PutTyped ==
  ASSUME NEW S, NEW f, f \in [DOMAIN f -> S], NEW key, NEW value \in S
  PROVE  Put(f, key, value) \in [DOMAIN f \cup {key} -> S]
BY DEF Put

LEMMA DiskMember ==
  ASSUME NEW d
  PROVE  d \in Disks <=> DOMAIN d \subseteq Paths /\ d \in [DOMAIN d -> Contents]
BY DEF Disks

LEMMA FrontOf ==
  ASSUME NEW S, NEW s \in Seq(S), s # <<>>
  PROVE  /\ Front(s) \in Seq(S) /\ Len(Front(s)) = Len(s) - 1
         /\ Last(s) = s[Len(s)] /\ s[Len(s)] \in S
         /\ \A n \in 1 .. Len(s) - 1 : Front(s)[n] = s[n]
<1>1. PICK n \in Nat : Len(s) = n + 1
  <2>1. Len(s) \in Nat \ {0} OBVIOUS
  <2> QED BY <2>1
<1>2. Front(s) = SubSeq(s, 1, n) BY <1>1 DEF Front
<1>3. Len(SubSeq(s, 1, n)) = n
  <2>1. CASE n = 0 BY <2>1
  <2>2. CASE n # 0 BY <1>1, <2>2
  <2> QED BY <2>1, <2>2
<1>4. \A k \in 1 .. n : SubSeq(s, 1, n)[k] = s[k] BY <1>1
<1>5. Front(s) \in Seq(S)  BY DEF Front
<1>6. Last(s) = s[Len(s)] /\ s[Len(s)] \in S  BY DEF Last
<1> QED  BY <1>1, <1>2, <1>3, <1>4, <1>5, <1>6

LEMMA FolderFields ==
  ASSUME NEW f \in Folders PROVE f.root \in Range(Roots) /\ f.dir \in Dirs
BY DEF Folders

\* The folder of a rename is in the root of its item.
LEMMA TargetGiven ==
  ASSUME NEW item \in Item, item.title \in TmdbTitles
  PROVE  TargetOf(item) \in Folders /\ TargetOf(item).root = item.root
BY LibraryAssumption DEF TargetOf, Folders, Item

LEMMA SameFingerprint ==
  ASSUME NEW p, NEW c, NEW q, NEW d
  PROVE  Fingerprint(p, c) = Fingerprint(q, d) <=>
           p.folder.dir = q.folder.dir /\ p.name = q.name /\ c = d
BY DEF Fingerprint

LEMMA PathFields ==
  ASSUME NEW p \in Paths, NEW f \in Folders
  PROVE  /\ p.folder \in Folders
         /\ [p EXCEPT !.folder = f] \in Paths
         /\ [p EXCEPT !.folder = f].folder = f
         /\ [p EXCEPT !.folder = f].name = p.name
BY DEF Paths

(* ------------------------------ the disk ------------------------------- *)

\* The disk d after its file s moved to t, and after its folder a became b.
FileImage(d, s, t) == [p \in (DOMAIN d \ {s}) \cup {t} |-> IF p = t THEN d[s] ELSE d[p]]
FolderImage(d, a, b) ==
  LET here == {p \in DOMAIN d : p.folder # a}
      there == {p \in Paths : p.folder = b /\ [p EXCEPT !.folder = a] \in DOMAIN d}
  IN [p \in here \cup there |-> IF p \in there THEN d[[p EXCEPT !.folder = a]] ELSE d[p]]

LEMMA FileImageTyped ==
  ASSUME NEW d \in Disks, NEW s \in DOMAIN d, NEW t \in Paths
  PROVE  FileImage(d, s, t) \in Disks
<1>1. DOMAIN d \subseteq Paths /\ d \in [DOMAIN d -> Contents]  BY DiskMember
<1>2. FileImage(d, s, t) \in [(DOMAIN d \ {s}) \cup {t} -> Contents]  BY <1>1 DEF FileImage
<1>3. (DOMAIN d \ {s}) \cup {t} \in SUBSET Paths  BY <1>1
<1> QED  BY <1>2, <1>3 DEF Disks

LEMMA FolderImageTyped ==
  ASSUME NEW d \in Disks, NEW a, NEW b
  PROVE  /\ FolderImage(d, a, b) \in Disks
         /\ \A p \in DOMAIN FolderImage(d, a, b) : p.folder = b \/ (p \in DOMAIN d /\ p.folder # a)
<1> DEFINE here == {p \in DOMAIN d : p.folder # a}
           there == {p \in Paths : p.folder = b /\ [p EXCEPT !.folder = a] \in DOMAIN d}
<1>1. DOMAIN d \subseteq Paths /\ d \in [DOMAIN d -> Contents]  BY DiskMember
<1>2. FolderImage(d, a, b) \in [here \cup there -> Contents]  BY <1>1 DEF FolderImage
<1>3. here \cup there \in SUBSET Paths  BY <1>1
<1>4. FolderImage(d, a, b) \in Disks  BY <1>2, <1>3 DEF Disks
<1>5. DOMAIN FolderImage(d, a, b) = here \cup there  BY DEF FolderImage
<1> QED  BY <1>4, <1>5

LEMMA DiskStep == LibraryInv /\ [Next]_vars => DiskOK'
<1> SUFFICES ASSUME LibraryInv, [Next]_vars PROVE DiskOK'  OBVIOUS
<1> USE DEF LibraryInv
<1>1. CASE UNCHANGED fs  BY <1>1 DEF DiskOK, fs, Disks, Paths
<1>2. CASE MoveFolder
  <2>1. CASE Readable(rename.from) /\ rename.to \notin folders
    <3>1. /\ files' = FolderImage(files, rename.from, rename.to)
          /\ folders' = (folders \ {rename.from}) \cup {rename.to} /\ mounted' = mounted
      BY <1>2, <2>1 DEF MoveFolder, MovedFolder, FolderImage
    <3>2. rename.to \in Folders  BY <1>2 DEF MoveFolder, RenameOK, PlanOK
    <3> QED  BY <3>1, <3>2, FolderImageTyped DEF DiskOK
  <2>2. CASE ~(Readable(rename.from) /\ rename.to \notin folders)
    BY <1>2, <2>2 DEF MoveFolder, DiskOK
  <2> QED  BY <2>1, <2>2
<1>3. CASE MoveFile
  <2> DEFINE move == rename.moves[rename.next]
             source == SourceNow(move)
  <2>1. move.to \in Paths /\ move.to.folder \in folders
    <3>1. rename.next \in DOMAIN rename.moves  BY <1>3 DEF MoveFile, RenameOK, Rename
    <3>2. move \in Move  BY <3>1 DEF RenameOK, Rename
    <3> QED  BY <1>3, <3>1, <3>2 DEF MoveFile, RenameOK, PlanOK, Move
  <2>2. UNCHANGED <<folders, mounted>>  BY <1>3 DEF MoveFile
  <2>3. CASE Movable(move) /\ source # move.to
    <3>1. files' = FileImage(files, source, move.to) /\ source \in DOMAIN files
      BY <1>3, <2>3 DEF MoveFile, MovedFile, FileImage, Movable, OnDisk
    <3>2. \A p \in DOMAIN files' : p \in DOMAIN files \/ p = move.to  BY <3>1 DEF FileImage
    <3> QED  BY <2>1, <2>2, <3>1, <3>2, FileImageTyped DEF DiskOK
  <2>4. CASE ~(Movable(move) /\ source # move.to)
    BY <1>3, <2>4 DEF MoveFile, DiskOK
  <2> QED  BY <2>3, <2>4
<1>4. CASE UndoFile
  <2> DEFINE back == Last(rename.moved)
  <2>1. back[1] \in Paths /\ back[1].folder \in folders
    <3>1. rename.moved \in Seq(Paths \X Paths) /\ rename.moved # <<>>
      BY <1>4 DEF UndoFile, RenameOK, Rename
    <3>2. Len(rename.moved) \in DOMAIN rename.moved  BY <3>1
    <3>3. back = rename.moved[Len(rename.moved)]  BY DEF Last
    <3> QED  BY <1>4, <3>1, <3>2, <3>3 DEF UndoFile, RenameOK
  <2>2. UNCHANGED <<folders, mounted>>  BY <1>4 DEF UndoFile
  <2>3. CASE OnDisk(back[2]) /\ back[1] \notin DOMAIN files
    <3>1. files' = FileImage(files, back[2], back[1]) /\ back[2] \in DOMAIN files
      BY <1>4, <2>3 DEF UndoFile, MovedFile, FileImage, OnDisk
    <3>2. \A p \in DOMAIN files' : p \in DOMAIN files \/ p = back[1]  BY <3>1 DEF FileImage
    <3> QED  BY <2>1, <2>2, <3>1, <3>2, FileImageTyped DEF DiskOK
  <2>4. CASE ~(OnDisk(back[2]) /\ back[1] \notin DOMAIN files)
    BY <1>4, <2>4 DEF UndoFile, DiskOK
  <2> QED  BY <2>3, <2>4
<1>5. CASE UndoFolder
  <2>1. mounted' = mounted /\ rename.from \in Folders  BY <1>5 DEF UndoFolder, RenameOK, PlanOK
  <2>2. CASE rename.folderMoved /\ Readable(rename.to) /\ rename.from \notin folders
    <3>1. /\ files' = FolderImage(files, rename.to, rename.from)
          /\ folders' = (folders \ {rename.to}) \cup {rename.from}
      BY <1>5, <2>2 DEF UndoFolder, MovedFolder, FolderImage
    <3> QED  BY <2>1, <3>1, FolderImageTyped DEF DiskOK
  <2>3. CASE ~(rename.folderMoved /\ Readable(rename.to) /\ rename.from \notin folders)
    BY <1>5, <2>1, <2>3 DEF UndoFolder, DiskOK
  <2> QED  BY <2>2, <2>3
<1>6. CASE AddFile
  <2>1. PICK p \in DOMAIN files \cup [folder : FoundFolders, name : RawNames \X {0}],
             c \in Contents : files' = Put(files, p, c) /\ folders' = folders \cup {p.folder}
    BY <1>6 DEF AddFile
  <2>2. p \in Paths /\ p.folder \in Folders
    <3>1. CASE p \in DOMAIN files  BY <3>1, DiskMember DEF DiskOK, Paths
    <3>2. CASE p \in [folder : FoundFolders, name : RawNames \X {0}]
      <4>1. FoundFolders \subseteq Folders  BY LibraryAssumption
      <4> QED  BY <3>2, <4>1 DEF Paths, FileNames
    <3> QED  BY <3>1, <3>2
  <2>3. files \in [DOMAIN files -> Contents] /\ DOMAIN files \subseteq Paths
    BY DiskMember DEF DiskOK
  <2>4. files' \in [DOMAIN files \cup {p} -> Contents]  BY <2>1, <2>3, PutTyped
  <2>5. files' \in Disks  BY <2>2, <2>3, <2>4 DEF Disks
  <2>6. mounted' = mounted  BY <1>6 DEF AddFile
  <2> QED  BY <2>1, <2>2, <2>4, <2>5, <2>6 DEF DiskOK
<1>7. CASE RemoveFile
  <2>1. PICK p \in DOMAIN files : files' = [q \in DOMAIN files \ {p} |-> files[q]]
    BY <1>7 DEF RemoveFile
  <2>2. files \in [DOMAIN files -> Contents] /\ DOMAIN files \subseteq Paths
    BY DiskMember DEF DiskOK
  <2>3. files' \in Disks  BY <2>1, <2>2 DEF Disks
  <2> QED  BY <1>7, <2>1, <2>3 DEF RemoveFile, DiskOK
<1>8. CASE MountChanges  BY <1>8 DEF MountChanges, DiskOK
<1> QED  BY <1>1, <1>2, <1>3, <1>4, <1>5, <1>6, <1>7, <1>8, WhoChangesTheDisk

(* ----------------------- one file of a scan ---------------------------- *)

\* The file p of content c became the row k of the item i: the item is the one
\* of the title and the year of p, and was without a year or new if it was not.
UpsertedItem(i, p) ==
  /\ i \in 1 .. MaxItems
  /\ DOMAIN items' = DOMAIN items \cup {i}
  /\ items' \in [DOMAIN items \cup {i} -> Item]
  /\ \A j \in DOMAIN items : j # i => items'[j] = items[j]
  /\ items'[i].root = p.folder.root /\ items'[i].norm = TitleIn[p.folder.dir]
  /\ items'[i].year = YearIn[p.folder.dir] /\ items'[i].available
  /\ \A j \in DOMAIN items :
       items[j].root = p.folder.root /\ items[j].norm = TitleIn[p.folder.dir]
         /\ items[j].year = YearIn[p.folder.dir] /\ YearIn[p.folder.dir] # None => j = i
  /\ i \in DOMAIN items =>
       /\ items[i].root = p.folder.root /\ items[i].norm = TitleIn[p.folder.dir]
       /\ items[i].year \in {YearIn[p.folder.dir], None}
       /\ items'[i].folder = items[i].folder /\ items'[i].title = items[i].title
       /\ items'[i].matched = items[i].matched
       /\ items'[i].manual = items[i].manual /\ items'[i].mixed = items[i].mixed
  /\ i \notin DOMAIN items => items'[i].folder = p.folder /\ ~items'[i].matched

UpsertedRow(k, i, p, c) ==
  /\ k \in 1 .. MaxRows
  /\ rows' = Put(rows, k, [item |-> i, path |-> p, content |-> c, active |-> TRUE])
  /\ k \in DOMAIN rows => Fingerprint(rows[k].path, rows[k].content) = Fingerprint(p, c)
  /\ \A j \in DOMAIN rows :
       Fingerprint(rows[j].path, rows[j].content) = Fingerprint(p, c) => j = k

LEMMA ChosenItem ==
  ASSUME ItemsOK, ItemKeysUnique, HasRoom(items, MaxItems),
         NEW f \in Folders, NEW choice \in ItemChoices(f)
  PROVE  LET i == choice[1]
             its == choice[2]
         IN /\ i \in 1 .. MaxItems
            /\ its \in [DOMAIN items \cup {i} -> Item]
            /\ \A j \in DOMAIN items : j # i => its[j] = items[j]
            /\ its[i].root = f.root /\ its[i].norm = TitleIn[f.dir] /\ its[i].year = YearIn[f.dir]
            /\ \A j \in DOMAIN items :
                 items[j].root = f.root /\ items[j].norm = TitleIn[f.dir]
                   /\ items[j].year = YearIn[f.dir] /\ YearIn[f.dir] # None => j = i
            /\ i \in DOMAIN items =>
                 /\ items[i].root = f.root /\ items[i].norm = TitleIn[f.dir]
                 /\ items[i].year \in {YearIn[f.dir], None}
                 /\ its[i].folder = items[i].folder /\ its[i].title = items[i].title
                 /\ its[i].matched = items[i].matched
                 /\ its[i].manual = items[i].manual /\ its[i].mixed = items[i].mixed
            /\ i \notin DOMAIN items => its[i].folder = f /\ ~its[i].matched
<1> DEFINE exact == Matching(f.root, TitleIn[f.dir], YearIn[f.dir])
           legacy == Matching(f.root, TitleIn[f.dir], None)
           new == Fresh(items, MaxItems)
<1>1. YearIn[f.dir] \in Years \cup {None} /\ f.root \in Range(Roots) /\ TitleIn[f.dir] \in Titles
  BY FolderFields, LibraryAssumption
<1>2. items \in [DOMAIN items -> Item] /\ DOMAIN items \subseteq 1 .. MaxItems  BY DEF ItemsOK
<1>3. CASE exact # {}
  <2>1. PICK i \in exact : choice = <<i, items>>  BY <1>3 DEF ItemChoices
  <2>2. /\ i \in DOMAIN items /\ items[i].root = f.root /\ items[i].norm = TitleIn[f.dir]
        /\ items[i].year = YearIn[f.dir]
    BY DEF Matching
  <2>3. DOMAIN items \cup {i} = DOMAIN items  BY <2>2
  <2>4. choice[1] = i /\ choice[2] = items  BY <2>1
  <2> QED  BY <1>2, <2>2, <2>3, <2>4 DEF ItemKeysUnique
<1>4. CASE exact = {} /\ legacy # {}
  <2>1. PICK i \in legacy : choice = <<i, [items EXCEPT ![i].year = YearIn[f.dir]]>>
    BY <1>4 DEF ItemChoices
  <2>2. /\ i \in DOMAIN items /\ items[i].root = f.root /\ items[i].norm = TitleIn[f.dir]
        /\ items[i].year = None
    BY DEF Matching
  <2>3. DOMAIN items \cup {i} = DOMAIN items  BY <2>2
  <2>4. choice[1] = i /\ choice[2] = [items EXCEPT ![i].year = YearIn[f.dir]]  BY <2>1
  <2>5. items[i] \in Item  BY <1>2, <2>2
  <2>6. [items[i] EXCEPT !.year = YearIn[f.dir]] \in Item  BY <1>1, <2>5 DEF Item
  <2>7. choice[2][i] = [items[i] EXCEPT !.year = YearIn[f.dir]]  BY <1>2, <2>2, <2>4
  <2>8. choice[2] \in [DOMAIN items -> Item]  BY <1>2, <2>2, <2>4, <2>6
  <2>9. /\ choice[2][i].year = YearIn[f.dir]
        /\ choice[2][i].root = items[i].root /\ choice[2][i].norm = items[i].norm
        /\ choice[2][i].folder = items[i].folder /\ choice[2][i].title = items[i].title
        /\ choice[2][i].matched = items[i].matched
        /\ choice[2][i].manual = items[i].manual /\ choice[2][i].mixed = items[i].mixed
    BY <2>5, <2>7 DEF Item
  <2>10. \A j \in DOMAIN items : j # i => choice[2][j] = items[j]  BY <2>4
  <2>11. \A j \in DOMAIN items : ~(items[j].root = f.root /\ items[j].norm = TitleIn[f.dir]
                                    /\ items[j].year = YearIn[f.dir])
    BY <1>4 DEF Matching
  <2> HIDE DEF exact, legacy, new
  <2> QED  BY <1>2, <2>2, <2>3, <2>4, <2>8, <2>9, <2>10, <2>11
<1>5. CASE exact = {} /\ legacy = {}
  <2>1. choice = <<new, Put(items, new, NewItem(f))>>  BY <1>5 DEF ItemChoices
  <2>2. new \in 1 .. MaxItems /\ new \notin DOMAIN items  BY FreshIsNew
  <2>3. NewItem(f) \in Item  BY <1>1, LibraryAssumption DEF NewItem, Item
  <2>4. choice[1] = new /\ choice[2] = Put(items, new, NewItem(f))  BY <2>1
  <2>5. choice[2] \in [DOMAIN items \cup {new} -> Item]  BY <1>2, <2>3, <2>4 DEF Put
  <2>6. choice[2][new] = NewItem(f) /\ \A j \in DOMAIN items : j # new => choice[2][j] = items[j]
    BY <2>4 DEF Put
  <2>7. /\ choice[2][new].root = f.root /\ choice[2][new].norm = TitleIn[f.dir]
        /\ choice[2][new].year = YearIn[f.dir]
        /\ choice[2][new].folder = f /\ ~choice[2][new].matched
    BY <2>6 DEF NewItem
  <2>8. \A j \in DOMAIN items : ~(items[j].root = f.root /\ items[j].norm = TitleIn[f.dir]
                                   /\ items[j].year = YearIn[f.dir])
    BY <1>5 DEF Matching
  <2> HIDE DEF exact, legacy, new
  <2> QED  BY <2>2, <2>4, <2>5, <2>6, <2>7, <2>8
<1> QED  BY <1>3, <1>4, <1>5

LEMMA Upserted ==
  ASSUME LibraryInv, UpsertFile
  PROVE  LET p == scan.parsed[1]
             c == scan.parsed[2]
         IN /\ p \in Paths /\ c \in Contents
            /\ \E i, k : /\ UpsertedItem(i, p) /\ UpsertedRow(k, i, p, c)
                         /\ scan' = [scan EXCEPT !.parsed = <<>>, !.seen = @ \cup {i}]
<1> DEFINE p == scan.parsed[1]
           c == scan.parsed[2]
           k == RowFor(p, c)
<1>1. p \in Paths /\ c \in Contents
  <2>1. scan.parsed \in Paths \X Contents  BY DEF UpsertFile, LibraryInv, ScanOK, Scan
  <2> QED  BY <2>1
<1>2. p.folder \in Folders  BY <1>1 DEF Paths
<1>3. PICK choice \in ItemChoices(p.folder) :
        /\ rows' = Put(rows, k, [item |-> choice[1], path |-> p, content |-> c, active |-> TRUE])
        /\ items' = Recalculated(choice[2], rows', choice[1])
        /\ scan' = [scan EXCEPT !.parsed = <<>>, !.seen = @ \cup {choice[1]}]
  BY DEF UpsertFile
<1> DEFINE i == choice[1]
           its == choice[2]
<1>4. UpsertedRow(k, i, p, c)
  <2> DEFINE same == {j \in DOMAIN rows :
                        Fingerprint(rows[j].path, rows[j].content) = Fingerprint(p, c)}
  <2>1. CASE same # {}
    <3>1. k \in same  BY <2>1 DEF RowFor
    <3>2. /\ k \in DOMAIN rows
          /\ Fingerprint(rows[k].path, rows[k].content) = Fingerprint(p, c)
      BY <3>1
    <3>3. k \in 1 .. MaxRows  BY <3>2 DEF LibraryInv, RowsOK
    <3> HIDE DEF same, k
    <3> QED  BY <1>3, <3>2, <3>3 DEF UpsertedRow, LibraryInv, FingerprintsUnique
  <2>2. CASE same = {}
    <3>1. k = Fresh(rows, MaxRows)  BY <2>2 DEF RowFor
    <3>2. k \in 1 .. MaxRows /\ k \notin DOMAIN rows  BY <3>1, FreshIsNew DEF UpsertFile
    <3>3. \A j \in DOMAIN rows :
            Fingerprint(rows[j].path, rows[j].content) # Fingerprint(p, c)
      BY <2>2
    <3> HIDE DEF same, k
    <3> QED  BY <1>3, <3>2, <3>3 DEF UpsertedRow
  <2> QED  BY <2>1, <2>2
<1>5. rows'[k] = [item |-> i, path |-> p, content |-> c, active |-> TRUE] /\ k \in DOMAIN rows'
  BY <1>3 DEF Put
<1>6. ActiveOf(rows', i) # {}
  <2>1. rows'[k].item = i /\ rows'[k].active  BY <1>5
  <2> QED  BY <1>5, <2>1 DEF ActiveOf, RowsOf
<1>7. items' = [its EXCEPT ![i].available = TRUE]  BY <1>3, <1>6 DEF Recalculated
<1>8. UpsertedItem(i, p)
  <2> HIDE DEF i, its
  <2>1. /\ i \in 1 .. MaxItems
        /\ its \in [DOMAIN items \cup {i} -> Item]
        /\ \A j \in DOMAIN items : j # i => its[j] = items[j]
        /\ its[i].root = p.folder.root /\ its[i].norm = TitleIn[p.folder.dir]
        /\ its[i].year = YearIn[p.folder.dir]
        /\ \A j \in DOMAIN items :
             items[j].root = p.folder.root /\ items[j].norm = TitleIn[p.folder.dir]
               /\ items[j].year = YearIn[p.folder.dir] /\ YearIn[p.folder.dir] # None => j = i
        /\ i \in DOMAIN items =>
             /\ items[i].root = p.folder.root /\ items[i].norm = TitleIn[p.folder.dir]
             /\ items[i].year \in {YearIn[p.folder.dir], None}
             /\ its[i].folder = items[i].folder /\ its[i].title = items[i].title
             /\ its[i].matched = items[i].matched
             /\ its[i].manual = items[i].manual /\ its[i].mixed = items[i].mixed
        /\ i \notin DOMAIN items => its[i].folder = p.folder /\ ~its[i].matched
    <3>1. ItemsOK /\ ItemKeysUnique /\ HasRoom(items, MaxItems)
      BY DEF UpsertFile, LibraryInv
    <3> HIDE DEF p
    <3> QED  BY <1>2, <3>1, ChosenItem DEF i, its
  <2>2. its[i] \in Item  BY <2>1
  <2>3. items'[i] = [its[i] EXCEPT !.available = TRUE]  BY <1>7, <2>1
  <2>4. [its[i] EXCEPT !.available = TRUE] \in Item  BY <2>2 DEF Item
  <2>5. /\ items'[i].root = its[i].root /\ items'[i].norm = its[i].norm
        /\ items'[i].year = its[i].year /\ items'[i].available
        /\ items'[i].folder = its[i].folder /\ items'[i].title = its[i].title
        /\ items'[i].matched = its[i].matched
        /\ items'[i].manual = its[i].manual /\ items'[i].mixed = its[i].mixed
    BY <2>2, <2>3 DEF Item
  <2>6. DOMAIN items' = DOMAIN items \cup {i} /\ items' \in [DOMAIN items \cup {i} -> Item]
    BY <1>7, <2>1, <2>3, <2>4
  <2>7. \A j \in DOMAIN items : j # i => items'[j] = items[j]  BY <1>7, <2>1
  <2> QED  BY <2>1, <2>5, <2>6, <2>7 DEF UpsertedItem
<1> QED  BY <1>1, <1>3, <1>4, <1>8

(* ----------------------------- the tables ------------------------------ *)

\* What a scan writes of an item besides its files: not what the item is.
SameFilms ==
  /\ DOMAIN items' = DOMAIN items /\ items' \in [DOMAIN items -> Item]
  /\ \A i \in DOMAIN items :
       /\ items'[i].root = items[i].root /\ items'[i].norm = items[i].norm
       /\ items'[i].year = items[i].year /\ items'[i].folder = items[i].folder
       /\ items'[i].manual = items[i].manual /\ items'[i].mixed = items[i].mixed
       /\ items'[i].matched => items'[i].title \in TmdbTitles

LEMMA TouchedUp == LibraryInv /\ (StalePass \/ MatchItem \/ RescanClose) => SameFilms
<1> SUFFICES ASSUME LibraryInv, StalePass \/ MatchItem \/ RescanClose PROVE SameFilms
  OBVIOUS
<1>1. /\ items \in [DOMAIN items -> Item]
      /\ \A i \in DOMAIN items : items[i].matched => items[i].title \in TmdbTitles
      /\ scan.todo \subseteq DOMAIN items
  BY DEF LibraryInv, ItemsOK, ScanOK
<1>2. CASE StalePass
  <2>1. \A i \in DOMAIN items : [items[i] EXCEPT !.available = FALSE] \in Item
    BY <1>1 DEF Item
  <2>2. /\ DOMAIN items' = DOMAIN items
        /\ \A i \in DOMAIN items : items'[i] \in {items[i], [items[i] EXCEPT !.available = FALSE]}
    BY <1>2 DEF StalePass
  <2>3. items' = [i \in DOMAIN items' |-> items'[i]]  BY <1>2 DEF StalePass
  <2>4. items' \in [DOMAIN items -> Item]  BY <1>1, <2>1, <2>2, <2>3
  <2> QED  BY <1>1, <2>2, <2>4 DEF SameFilms, Item
<1>3. CASE MatchItem
  <2>1. PICK i \in scan.todo : items' \in Refreshed(i)  BY <1>3 DEF MatchItem
  <2>2. i \in DOMAIN items /\ items[i] \in Item  BY <1>1
  <2>3. CASE items' = [items EXCEPT ![i].needsMatch = TRUE]
    <3>1. [items[i] EXCEPT !.needsMatch = TRUE] \in Item  BY <2>2 DEF Item
    <3>2. items' = [items EXCEPT ![i] = [items[i] EXCEPT !.needsMatch = TRUE]]  BY <2>3
    <3>3. items' \in [DOMAIN items -> Item]  BY <1>1, <3>1, <3>2
    <3> QED  BY <1>1, <2>2, <3>2, <3>3 DEF SameFilms, Item
  <2>4. ASSUME NEW t \in TmdbTitles,
               items' = [items EXCEPT ![i].title = t, ![i].matched = TRUE, ![i].needsMatch = FALSE]
        PROVE  SameFilms
    <3> DEFINE r == [items[i] EXCEPT !.title = t, !.matched = TRUE, !.needsMatch = FALSE]
    <3>1. r \in Item /\ r.title = t /\ r.root = items[i].root /\ r.norm = items[i].norm
          /\ r.year = items[i].year /\ r.folder = items[i].folder
          /\ r.manual = items[i].manual /\ r.mixed = items[i].mixed
      BY <2>2, LibraryAssumption DEF Item
    <3>2. items' = [items EXCEPT ![i] = r]  BY <1>1, <2>2, <2>4
    <3> HIDE DEF r
    <3>3. items' \in [DOMAIN items -> Item]  BY <1>1, <3>1, <3>2
    <3> QED  BY <1>1, <2>2, <2>4, <3>1, <3>2, <3>3 DEF SameFilms
  <2> QED  BY <2>1, <2>3, <2>4 DEF Refreshed
<1>4. CASE RescanClose
  <2> DEFINE i == scan.item
             b == ActiveOf(rows, i) # {}
  <2>1. items' = [items EXCEPT ![i].available = b]  BY <1>4 DEF RescanClose, Recalculated
  <2>2. \A j \in DOMAIN items : [items[j] EXCEPT !.available = b] \in Item  BY <1>1 DEF Item
  <2>3. \A j \in DOMAIN items : items'[j] \in {items[j], [items[j] EXCEPT !.available = b]}
    BY <1>1, <2>1
  <2>4. items' \in [DOMAIN items -> Item]  BY <1>1, <2>1, <2>2, <2>3
  <2> QED  BY <1>1, <2>3, <2>4 DEF SameFilms, Item
<1> QED  BY <1>2, <1>3, <1>4

\* A match by hand: the item has a title of TMDB, and a key of its own.
HandMatched(i) ==
  /\ DOMAIN items' = DOMAIN items /\ items' \in [DOMAIN items -> Item]
  /\ \A j \in DOMAIN items : j # i => items'[j] = items[j]
  /\ items'[i].root = items[i].root /\ items'[i].folder = items[i].folder
  /\ items'[i].title \in TmdbTitles /\ items'[i].manual
  /\ \A j \in DOMAIN items : j # i /\ items[j].year # None =>
       ~(items[j].root = items[i].root /\ items[j].norm = items'[i].norm
           /\ items[j].year = items'[i].year)

LEMMA MatchedByHand ==
  ASSUME LibraryInv, ManualMatch PROVE \E i \in DOMAIN items : HandMatched(i)
<1>0. items \in [DOMAIN items -> Item]  BY DEF LibraryInv, ItemsOK
<1>1. PICK i \in DOMAIN items, t \in TmdbTitles :
        LET year == IF TmdbYear[t] # None THEN TmdbYear[t] ELSE items[i].year
        IN /\ year # None => Matching(items[i].root, t, year) \subseteq {i}
           /\ items' = [items EXCEPT ![i].title = t, ![i].norm = t, ![i].year = year,
                          ![i].matched = TRUE, ![i].needsMatch = FALSE, ![i].manual = TRUE]
  BY DEF ManualMatch
<1> DEFINE year == IF TmdbYear[t] # None THEN TmdbYear[t] ELSE items[i].year
           r == [items[i] EXCEPT !.title = t, !.norm = t, !.year = year,
                                 !.matched = TRUE, !.needsMatch = FALSE, !.manual = TRUE]
<1>2. items' = [items EXCEPT ![i] = r]  BY <1>0, <1>1
<1>3. items[i] \in Item /\ year \in Years \cup {None} /\ t \in Titles
  BY <1>0, LibraryAssumption DEF Item
<1>4. year # None => Matching(items[i].root, t, year) \subseteq {i}  BY <1>1
<1> HIDE DEF year
<1>5. r \in Item /\ r.title = t /\ r.norm = t /\ r.year = year /\ r.root = items[i].root
      /\ r.folder = items[i].folder /\ r.manual
  BY <1>3 DEF Item
<1> HIDE DEF r
<1>6. DOMAIN items' = DOMAIN items /\ items'[i] = r
      /\ items' \in [DOMAIN items -> Item]
      /\ \A j \in DOMAIN items : j # i => items'[j] = items[j]
  BY <1>0, <1>2, <1>5
<1>7. \A j \in DOMAIN items : j # i /\ items[j].year # None =>
        ~(items[j].root = items[i].root /\ items[j].norm = r.norm /\ items[j].year = r.year)
  BY <1>4, <1>5 DEF Matching
<1> QED  BY <1>5, <1>6, <1>7 DEF HandMatched

\* A commit: the rows of the plan take the paths and contents of its moves.
CommittedPlan ==
  /\ DOMAIN items' = DOMAIN items /\ items' \in [DOMAIN items -> Item]
  /\ DOMAIN rows' = DOMAIN rows /\ rows' \in [DOMAIN rows -> Row]
  /\ \A i \in DOMAIN items :
       /\ items'[i].root = items[i].root /\ items'[i].norm = items[i].norm
       /\ items'[i].year = items[i].year /\ items'[i].title = items[i].title
       /\ items'[i].matched = items[i].matched /\ items'[i].manual = items[i].manual
       /\ items'[i].folder = IF i = rename.item THEN rename.to ELSE items[i].folder
       /\ items[i].mixed => items'[i].mixed
       /\ i # rename.item /\ (\E n \in DOMAIN rename.moves : rows[rename.moves[n].row].item = i)
            => items'[i].mixed
  /\ \A k \in DOMAIN rows :
       /\ rows'[k].item = rows[k].item
       /\ (\A n \in DOMAIN rename.moves : rename.moves[n].row # k) => rows'[k] = rows[k]
  /\ \A n \in DOMAIN rename.moves :
       /\ rows'[rename.moves[n].row].path =
            InRoot(rename.moves[n].to, items[rows[rename.moves[n].row].item].root)
       /\ rows'[rename.moves[n].row].content = rename.moves[n].content
  /\ FingerprintsUnique'
  /\ rename' = [rename EXCEPT !.pc = "renamed"]

LEMMA Committed ==
  ASSUME LibraryInv, CommitRename
  PROVE  CommittedPlan \/ (UNCHANGED db /\ Undoing)
<1> DEFINE moveOf(k) == {n \in DOMAIN rename.moves : rename.moves[n].row = k}
           theMove(k) == rename.moves[CHOOSE n \in moveOf(k) : TRUE]
           rowAfter(k) == IF moveOf(k) = {} THEN rows[k] ELSE RenamedRow(rows[k], theMove(k))
           after == [k \in DOMAIN rows |-> rowAfter(k)]
           unique == \A n \in DOMAIN rename.moves : NoneTwice(Updated(n))
           ownItem(i) == [items[i] EXCEPT
                     !.folder = IF i = rename.item THEN rename.to ELSE @,
                     !.mixed = @ \/ (i # rename.item /\ \E n \in DOMAIN rename.moves :
                                        rows[rename.moves[n].row].item = i)]
<1>1. CASE ~unique  BY <1>1 DEF CommitRename
<1>2. CASE unique
  <2>0. rows' = Updated(Len(rename.moves))  BY <1>2 DEF CommitRename
  <2>u. Updated(Len(rename.moves)) = after
    <3>1. rename.moves \in Seq(Move)  BY DEF LibraryInv, RenameOK, Rename
    <3>2. 1 .. Len(rename.moves) = DOMAIN rename.moves  BY <3>1
    <3> DEFINE With(dom) ==
                 [k \in DOMAIN rows |->
                    LET moves == {m \in dom : rename.moves[m].row = k}
                    IN IF moves = {} THEN rows[k]
                       ELSE RenamedRow(rows[k], rename.moves[CHOOSE m \in moves : TRUE])]
    <3>3. Updated(Len(rename.moves)) = With(1 .. Len(rename.moves))  BY DEF Updated
    <3>4. after = With(DOMAIN rename.moves)  OBVIOUS
    <3> HIDE DEF With, after
    <3> QED  BY <3>2, <3>3, <3>4
  <2>1. /\ rows' = after /\ items' = [i \in DOMAIN items |-> ownItem(i)]
        /\ rename' = [rename EXCEPT !.pc = "renamed"]
    BY <1>2, <2>0, <2>u DEF CommitRename
  <2>2. /\ items \in [DOMAIN items -> Item] /\ rows \in [DOMAIN rows -> Row]
        /\ rename.moves \in Seq(Move) /\ rename.to \in Folders
        /\ \A n \in DOMAIN rename.moves : rename.moves[n].row \in DOMAIN rows
        /\ \A m, n \in DOMAIN rename.moves :
             rename.moves[m].row = rename.moves[n].row => m = n
    BY DEF LibraryInv, ItemsOK, RowsOK, RenameOK, PlanOK, Rename, CommitRename
  <2>3. \A n \in DOMAIN rename.moves : rename.moves[n] \in Move  BY <2>2
  <2>4. /\ DOMAIN items' = DOMAIN items /\ items' \in [DOMAIN items -> Item]
        /\ \A i \in DOMAIN items :
             /\ items'[i].root = items[i].root /\ items'[i].norm = items[i].norm
             /\ items'[i].year = items[i].year /\ items'[i].title = items[i].title
             /\ items'[i].matched = items[i].matched /\ items'[i].manual = items[i].manual
             /\ items'[i].folder = IF i = rename.item THEN rename.to ELSE items[i].folder
             /\ items[i].mixed => items'[i].mixed
             /\ i # rename.item /\ (\E n \in DOMAIN rename.moves :
                                      rows[rename.moves[n].row].item = i) => items'[i].mixed
    <3>1. ASSUME NEW i \in DOMAIN items
          PROVE  /\ ownItem(i) \in Item
                 /\ ownItem(i).root = items[i].root /\ ownItem(i).norm = items[i].norm
                 /\ ownItem(i).year = items[i].year /\ ownItem(i).title = items[i].title
                 /\ ownItem(i).matched = items[i].matched
                 /\ ownItem(i).manual = items[i].manual
                 /\ ownItem(i).folder = IF i = rename.item THEN rename.to ELSE items[i].folder
                 /\ ownItem(i).mixed = (items[i].mixed \/ (i # rename.item
                      /\ \E n \in DOMAIN rename.moves : rows[rename.moves[n].row].item = i))
      <4> DEFINE own == i # rename.item
                        /\ \E n \in DOMAIN rename.moves : rows[rename.moves[n].row].item = i
                 m == items[i].mixed \/ own
                 fo == IF i = rename.item THEN rename.to ELSE items[i].folder
      <4>1. items[i] \in Item /\ fo \in Folders  BY <2>2 DEF Item
      <4>2. m \in BOOLEAN  OBVIOUS
      <4>3. ownItem(i) = [items[i] EXCEPT !.folder = fo, !.mixed = m]  OBVIOUS
      <4> HIDE DEF m, fo
      <4>4. /\ [items[i] EXCEPT !.folder = fo, !.mixed = m] \in Item
            /\ \A r : r = [items[i] EXCEPT !.folder = fo, !.mixed = m] =>
                 /\ r.root = items[i].root /\ r.norm = items[i].norm /\ r.year = items[i].year
                 /\ r.title = items[i].title /\ r.matched = items[i].matched
                 /\ r.manual = items[i].manual /\ r.folder = fo /\ r.mixed = m
        BY <4>1, <4>2 DEF Item
      <4> HIDE DEF ownItem
      <4> QED  BY <4>3, <4>4 DEF m, fo
    <3> HIDE DEF ownItem
    <3>2. /\ DOMAIN items' = DOMAIN items
          /\ \A i \in DOMAIN items : items'[i] = ownItem(i)
      BY <2>1
    <3>3. items' \in [DOMAIN items -> Item]  BY <2>1, <3>1
    <3>4. ASSUME NEW i \in DOMAIN items
          PROVE  /\ items'[i].root = items[i].root /\ items'[i].norm = items[i].norm
                 /\ items'[i].year = items[i].year /\ items'[i].title = items[i].title
                 /\ items'[i].matched = items[i].matched /\ items'[i].manual = items[i].manual
                 /\ items'[i].folder = IF i = rename.item THEN rename.to ELSE items[i].folder
      <4>1. items'[i] = ownItem(i)  BY <3>2
      <4> QED  BY <3>1, <4>1
    <3>5. ASSUME NEW i \in DOMAIN items
          PROVE  /\ items[i].mixed => items'[i].mixed
                 /\ i # rename.item /\ (\E n \in DOMAIN rename.moves :
                                          rows[rename.moves[n].row].item = i) => items'[i].mixed
      <4>1. items'[i] = ownItem(i)  BY <3>2
      <4>2. ownItem(i).mixed = (items[i].mixed \/ (i # rename.item
                      /\ \E n \in DOMAIN rename.moves : rows[rename.moves[n].row].item = i))
        BY <3>1
      <4>3. items'[i].mixed = (items[i].mixed \/ (i # rename.item
                      /\ \E n \in DOMAIN rename.moves : rows[rename.moves[n].row].item = i))
        BY <4>1, <4>2
      <4> QED  BY <4>3
    <3> QED  BY <3>2, <3>3, <3>4, <3>5
  <2>5. \A k \in DOMAIN rows : rows'[k] = rowAfter(k)
    <3> HIDE DEF rowAfter
    <3> QED  BY <2>1
  <2>6. ASSUME NEW n \in DOMAIN rename.moves
        PROVE  rows'[rename.moves[n].row] = RenamedRow(rows[rename.moves[n].row], rename.moves[n])
    <3> DEFINE k == rename.moves[n].row
    <3>1. n \in moveOf(k) /\ \A m \in moveOf(k) : m = n  BY <2>2
    <3>2. theMove(k) = rename.moves[n] /\ moveOf(k) # {}  BY <3>1
    <3>3. k \in DOMAIN rows  BY <2>2
    <3> HIDE DEF theMove, moveOf, k
    <3>4. rows'[k] = RenamedRow(rows[k], rename.moves[n])  BY <2>5, <3>2, <3>3
    <3> QED  BY <3>4 DEF k
  <2>7. ASSUME NEW n \in DOMAIN rename.moves
        PROVE  /\ rows'[rename.moves[n].row] \in Row
               /\ rows'[rename.moves[n].row].path =
                    InRoot(rename.moves[n].to, items[rows[rename.moves[n].row].item].root)
               /\ rows'[rename.moves[n].row].content = rename.moves[n].content
               /\ rows'[rename.moves[n].row].item = rows[rename.moves[n].row].item
    <3> DEFINE row == rows[rename.moves[n].row]
               move == rename.moves[n]
               path == InRoot(move.to, items[row.item].root)
    <3>1. row \in Row /\ move \in Move /\ row.item \in DOMAIN items
      BY <2>2, <2>3 DEF LibraryInv, RowsOK
    <3>2. items[row.item].root \in Range(Roots)  BY <2>2, <3>1 DEF Item
    <3>3. move.to \in Paths /\ move.content \in Contents  BY <3>1 DEF Move
    <3> HIDE DEF row, move
    <3>4. path \in Paths
      <4>1. move.to.folder \in Folders /\ move.to.name \in FileNames  BY <3>3 DEF Paths
      <4>2. [root |-> items[row.item].root, dir |-> move.to.folder.dir] \in Folders
        BY <3>2, <4>1, FolderFields DEF Folders
      <4> QED  BY <4>1, <4>2 DEF InRoot, Paths
    <3>5. rows'[rename.moves[n].row] = [row EXCEPT !.path = path, !.content = move.content]
      BY <2>6 DEF RenamedRow, row, move
    <3> HIDE DEF path
    <3>6. /\ [row EXCEPT !.path = path, !.content = move.content] \in Row
          /\ [row EXCEPT !.path = path, !.content = move.content].path = path
          /\ [row EXCEPT !.path = path, !.content = move.content].content = move.content
          /\ [row EXCEPT !.path = path, !.content = move.content].item = row.item
      BY <3>1, <3>3, <3>4 DEF Row
    <3> QED  BY <3>5, <3>6 DEF path, row, move
  <2>8. /\ DOMAIN rows' = DOMAIN rows
        /\ \A k \in DOMAIN rows : /\ rowAfter(k) \in Row /\ rows'[k].item = rows[k].item
                                  /\ (\A n \in DOMAIN rename.moves : rename.moves[n].row # k)
                                       => rows'[k] = rows[k]
    <3>1. ASSUME NEW k \in DOMAIN rows, moveOf(k) = {}
          PROVE  rows'[k] = rows[k] /\ rowAfter(k) \in Row
      <4>1. rowAfter(k) = rows[k]  BY <3>1
      <4> HIDE DEF rowAfter
      <4> QED  BY <2>2, <2>5, <4>1
    <3>2. \A k \in DOMAIN rows : moveOf(k) # {} =>
            \E n \in DOMAIN rename.moves : rename.moves[n].row = k
      OBVIOUS
    <3>3. DOMAIN rows' = DOMAIN rows
      <4> HIDE DEF rowAfter
      <4> QED  BY <2>1
    <3> HIDE DEF moveOf, rowAfter, ownItem, unique
    <3> QED  BY <2>5, <2>7, <3>1, <3>2, <3>3
  <2>9. FingerprintsUnique'
    <3>1. CASE rename.moves = <<>>
      <4>1. \A k \in DOMAIN rows : rows'[k] = rows[k]
        <5>1. DOMAIN rename.moves = {}  BY <3>1
        <5> HIDE DEF after, rowAfter, theMove
        <5> QED  BY <2>8, <5>1
      <4>2. DOMAIN rows' = DOMAIN rows  BY <2>8
      <4> HIDE DEF after, rowAfter, theMove, moveOf, unique, ownItem
      <4> QED  BY <4>1, <4>2 DEF FingerprintsUnique, LibraryInv
    <3>2. CASE rename.moves # <<>>
      <4>1. Len(rename.moves) \in DOMAIN rename.moves  BY <2>2, <3>2
      <4>2. NoneTwice(rows')  BY <1>2, <2>0, <4>1
      <4> HIDE DEF after, rowAfter, theMove, moveOf, unique, ownItem
      <4> QED  BY <4>2 DEF FingerprintsUnique, NoneTwice
    <3> QED  BY <3>1, <3>2
  <2>10. rows' \in [DOMAIN rows -> Row]
    <3> HIDE DEF rowAfter
    <3> QED  BY <2>1, <2>8
  <2> HIDE DEF moveOf, after, unique, ownItem
  <2> QED  BY <2>1, <2>4, <2>7, <2>8, <2>9, <2>10 DEF CommittedPlan
<1> QED  BY <1>1, <1>2

LEMMA ItemsStep == LibraryInv /\ [Next]_vars => ItemsOK' /\ ItemKeysUnique'
<1> SUFFICES ASSUME LibraryInv, [Next]_vars PROVE ItemsOK' /\ ItemKeysUnique'  OBVIOUS
<1>0. ItemsOK /\ ItemKeysUnique /\ items \in [DOMAIN items -> Item]  BY DEF LibraryInv, ItemsOK
<1>1. CASE UNCHANGED items  BY <1>0, <1>1 DEF ItemsOK, ItemKeysUnique, Item
<1>2. CASE UpsertFile
  <2> DEFINE p == scan.parsed[1]
  <2>1. PICK i : UpsertedItem(i, p)  BY <1>2, Upserted
  <2>2. ItemsOK'
    <3> HIDE DEF p
    <3>1. \A j \in DOMAIN items' : j = i \/ (j \in DOMAIN items /\ items'[j] = items[j])
      BY <2>1 DEF UpsertedItem
    <3>2. items'[i].root = items'[i].folder.root /\ (items'[i].matched => items'[i].title \in TmdbTitles)
      BY <1>0, <2>1 DEF UpsertedItem, ItemsOK
    <3>3. \A j \in DOMAIN items' : /\ items'[j].root = items'[j].folder.root
                                  /\ items'[j].matched => items'[j].title \in TmdbTitles
      BY <1>0, <3>1, <3>2 DEF ItemsOK
    <3> QED  BY <1>0, <2>1, <3>3 DEF UpsertedItem, ItemsOK
  <2>3. ItemKeysUnique'
    <3> HIDE DEF p
    <3>1. \A j \in DOMAIN items' : j = i \/ (j \in DOMAIN items /\ items'[j] = items[j])
      BY <2>1 DEF UpsertedItem
    <3>2. \A j \in DOMAIN items : j # i /\ items[j].year # None =>
            ~(items[j].root = items'[i].root /\ items[j].norm = items'[i].norm
                /\ items[j].year = items'[i].year)
      BY <2>1 DEF UpsertedItem
    <3> QED  BY <1>0, <3>1, <3>2 DEF ItemKeysUnique
  <2> QED  BY <2>2, <2>3
<1>3. CASE StalePass \/ MatchItem \/ RescanClose
  BY <1>0, <1>3, TouchedUp DEF SameFilms, ItemsOK, ItemKeysUnique
<1>4. CASE ManualMatch
  <2>1. PICK i \in DOMAIN items : HandMatched(i)  BY <1>4, MatchedByHand
  <2>2. ItemsOK'  BY <1>0, <2>1 DEF HandMatched, ItemsOK
  <2>3. ItemKeysUnique'  BY <1>0, <2>1 DEF HandMatched, ItemKeysUnique
  <2> QED  BY <2>2, <2>3
<1>5. CASE CommitRename
  <2>1. CASE UNCHANGED db  BY <1>1, <2>1 DEF db
  <2>2. CASE CommittedPlan
    <3>1. rename.to.root = items[rename.item].root
      BY <1>5 DEF CommitRename, LibraryInv, RenameOK, PlanOK
    <3> QED  BY <1>0, <2>2, <3>1 DEF CommittedPlan, ItemsOK, ItemKeysUnique
  <2> QED  BY <1>5, <2>1, <2>2, Committed
<1> QED  BY <1>1, <1>2, <1>3, <1>4, <1>5, WhoWritesItems

\* No step takes an item away, nor moves it to another root.
LEMMA ItemsStay ==
  LibraryInv /\ [Next]_vars =>
    \A i \in DOMAIN items : i \in DOMAIN items' /\ items'[i].root = items[i].root
<1> SUFFICES ASSUME LibraryInv, [Next]_vars, NEW i \in DOMAIN items
             PROVE  i \in DOMAIN items' /\ items'[i].root = items[i].root
  OBVIOUS
<1>0. items \in [DOMAIN items -> Item]  BY DEF LibraryInv, ItemsOK
<1>1. CASE UNCHANGED items  BY <1>1
<1>2. CASE UpsertFile
  <2>1. PICK j : UpsertedItem(j, scan.parsed[1])  BY <1>2, Upserted
  <2> QED  BY <2>1 DEF UpsertedItem
<1>3. CASE StalePass \/ MatchItem \/ RescanClose  BY <1>3, TouchedUp DEF SameFilms
<1>4. CASE ManualMatch  BY <1>0, <1>4, MatchedByHand DEF HandMatched
<1>5. CASE CommitRename  BY <1>5, Committed DEF CommittedPlan, db
<1> QED  BY <1>1, <1>2, <1>3, <1>4, <1>5, WhoWritesItems

LEMMA RowsStep == LibraryInv /\ [Next]_vars => RowsOK' /\ FingerprintsUnique'
<1> SUFFICES ASSUME LibraryInv, [Next]_vars PROVE RowsOK' /\ FingerprintsUnique'  OBVIOUS
<1>0. RowsOK /\ FingerprintsUnique /\ rows \in [DOMAIN rows -> Row]  BY DEF LibraryInv, RowsOK
<1>00. \A i \in DOMAIN items : i \in DOMAIN items' /\ items'[i].root = items[i].root
  BY ItemsStay
<1>1. CASE UNCHANGED rows  BY <1>0, <1>00, <1>1 DEF RowsOK, FingerprintsUnique, Row
<1>2. CASE UpsertFile
  <2> DEFINE p == scan.parsed[1]
             c == scan.parsed[2]
  <2>1. PICK i, k : UpsertedItem(i, p) /\ UpsertedRow(k, i, p, c)  BY <1>2, Upserted
  <2>2. p \in Paths /\ c \in Contents  BY <1>2, Upserted
  <2> HIDE DEF p, c
  <2> DEFINE r == [item |-> i, path |-> p, content |-> c, active |-> TRUE]
  <2>3. r \in Row /\ r.path = p /\ r.content = c /\ r.item = i
    BY <2>1, <2>2 DEF Row, UpsertedItem
  <2>4. rows' = Put(rows, k, r)  BY <2>1 DEF UpsertedRow
  <2> HIDE DEF r
  <2>5. /\ rows' \in [DOMAIN rows \cup {k} -> Row] /\ DOMAIN rows' = DOMAIN rows \cup {k}
        /\ rows'[k] = r /\ \A j \in DOMAIN rows : j # k => rows'[j] = rows[j]
    BY <1>0, <2>3, <2>4 DEF Put
  <2>6. RowsOK'
    <3>1. k \in 1 .. MaxRows /\ i \in DOMAIN items' /\ items'[i].root = p.folder.root
      BY <2>1 DEF UpsertedRow, UpsertedItem
    <3> QED  BY <1>0, <1>00, <2>3, <2>5, <3>1 DEF RowsOK
  <2>7. FingerprintsUnique'
    <3>1. \A j \in DOMAIN rows :
            Fingerprint(rows[j].path, rows[j].content) = Fingerprint(p, c) => j = k
      BY <2>1 DEF UpsertedRow
    <3> QED  BY <1>0, <2>3, <2>5, <3>1 DEF FingerprintsUnique
  <2> QED  BY <2>6, <2>7
<1>3. CASE RescanOpen
  <2>1. CASE UNCHANGED rows  BY <1>1, <2>1
  <2>2. CASE rows' = [k \in DOMAIN rows |->
                        IF rows[k].item = scan.item
                        THEN [rows[k] EXCEPT !.active = FALSE] ELSE rows[k]]
    <3>1. \A k \in DOMAIN rows : /\ [rows[k] EXCEPT !.active = FALSE] \in Row
                                 /\ [rows[k] EXCEPT !.active = FALSE].path = rows[k].path
                                 /\ [rows[k] EXCEPT !.active = FALSE].content = rows[k].content
                                 /\ [rows[k] EXCEPT !.active = FALSE].item = rows[k].item
      BY <1>0 DEF Row
    <3>2. DOMAIN rows' = DOMAIN rows /\ rows' \in [DOMAIN rows -> Row]  BY <1>0, <2>2, <3>1
    <3>3. \A k \in DOMAIN rows : rows'[k].path = rows[k].path
            /\ rows'[k].content = rows[k].content /\ rows'[k].item = rows[k].item
      BY <2>2, <3>1
    <3> QED  BY <1>0, <1>00, <3>2, <3>3 DEF RowsOK, FingerprintsUnique
  <2> QED  BY <1>3, <2>1, <2>2 DEF RescanOpen
<1>4. CASE CommitRename
  <2>1. CASE UNCHANGED db  BY <1>1, <2>1 DEF db
  <2>2. CASE CommittedPlan
    <3>1. ASSUME NEW k \in DOMAIN rows'
          PROVE  /\ rows'[k].item \in DOMAIN items'
                 /\ rows'[k].path.folder.root = items'[rows'[k].item].root
      <4>1. /\ k \in DOMAIN rows /\ rows'[k].item = rows[k].item
            /\ rows[k].item \in DOMAIN items
            /\ rows[k].path.folder.root = items[rows[k].item].root
        BY <1>0, <2>2 DEF CommittedPlan, RowsOK
      <4>2. CASE rows'[k] = rows[k]  BY <1>00, <4>1, <4>2
      <4>3. ASSUME NEW n \in DOMAIN rename.moves, rename.moves[n].row = k
            PROVE  rows'[k].path.folder.root = items[rows[k].item].root
        <5>1. rows'[k].path = InRoot(rename.moves[n].to, items[rows[k].item].root)
          BY <2>2, <4>3 DEF CommittedPlan
        <5> QED  BY <5>1 DEF InRoot
      <4> QED  BY <1>00, <2>2, <4>1, <4>2, <4>3 DEF CommittedPlan
    <3>2. /\ DOMAIN rows' = DOMAIN rows /\ rows' \in [DOMAIN rows -> Row]
          /\ FingerprintsUnique'
      BY <2>2 DEF CommittedPlan
    <3> QED  BY <1>0, <3>1, <3>2 DEF RowsOK
  <2> QED  BY <1>4, <2>1, <2>2, Committed
<1> QED  BY <1>1, <1>2, <1>3, <1>4, WhoWritesRows

(* ------------------------------ the scan ------------------------------- *)

LEMMA IdleScanTyped == IdleScan \in Scan
BY LibraryAssumption DEF IdleScan, Scan, ScanPhases

LEMMA ScanMoves ==
  [Next]_vars => \/ UNCHANGED scan \/ ScanDisturbed \/ scan' = IdleScan
                 \/ StartScan \/ EnterRoot \/ WalkFolder \/ StatFile \/ UpsertFile \/ StalePass
                 \/ ReadUnmatched \/ MatchItem \/ RescanOpen \/ RescanClose \/ ScanDone
                 \/ ScanFails
BY DEF Next, ScanStep, RenameStep, Environment, vars, Disturbed, ScanDisturbed, ManualMatch,
   PlanRename, FinishScan, MoveFolder, MoveFile, CommitRename, UndoFile, UndoFolder, EndRename, AddFile,
   RemoveFile, MountChanges, Crash, RenameFails, UndoFails

LEMMA ScanStepTyped == LibraryInv /\ [Next]_vars => ScanOK'
<1> SUFFICES ASSUME LibraryInv, [Next]_vars PROVE ScanOK'  OBVIOUS
<1>0. /\ ScanOK /\ scan \in Scan
      /\ DOMAIN items \subseteq 1 .. MaxItems /\ DOMAIN items \subseteq DOMAIN items'
      /\ DOMAIN items' \subseteq 1 .. MaxItems
      /\ folders \subseteq Folders /\ DOMAIN files \subseteq Paths
      /\ \A p \in DOMAIN files : files[p] \in Contents
  <2>1. DOMAIN items \subseteq DOMAIN items'  BY ItemsStay
  <2>2. DOMAIN items' \subseteq 1 .. MaxItems  BY ItemsStep DEF ItemsOK
  <2>3. DOMAIN files \subseteq Paths /\ files \in [DOMAIN files -> Contents]
    BY DiskMember DEF LibraryInv, DiskOK
  <2> QED  BY <2>1, <2>2, <2>3 DEF LibraryInv, ScanOK, ItemsOK, DiskOK
<1>1. CASE UNCHANGED scan  BY <1>0, <1>1 DEF ScanOK, Scan
<1>2. CASE ScanDisturbed
  <2>1. scan' = [scan EXCEPT !.calm = FALSE]  BY <1>2 DEF ScanDisturbed
  <2> QED  BY <1>0, <2>1 DEF ScanOK, Scan
<1>3. CASE scan' = IdleScan
  <2>1. scan' \in Scan  BY <1>3, IdleScanTyped
  <2> QED  BY <1>3, <2>1 DEF ScanOK, IdleScan
<1>4. CASE StartScan
  <2>1. CASE scan' = [IdleScan EXCEPT !.pc = "root", !.roots = Roots]
    <3>1. scan' \in Scan  BY <2>1, IdleScanTyped, LibraryAssumption DEF Scan, ScanPhases
    <3> QED  BY <2>1, <3>1 DEF ScanOK, IdleScan
  <2>2. ASSUME NEW i \in DOMAIN items,
               scan' = [IdleScan EXCEPT !.pc = "rescan", !.item = i]
        PROVE  ScanOK'
    <3>1. i \in 0 .. MaxItems /\ i # 0  BY <1>0, LibraryAssumption
    <3>2. scan' \in Scan  BY <2>2, <3>1, IdleScanTyped DEF Scan, ScanPhases
    <3> QED  BY <1>0, <2>2, <3>1, <3>2 DEF ScanOK, IdleScan
  <2> QED  BY <1>4, <2>1, <2>2 DEF StartScan
<1>5. CASE EnterRoot
  <2>1. scan.roots \in Seq(Range(Roots)) /\ scan.roots # <<>>  BY <1>0, <1>5 DEF EnterRoot, Scan
  <2>2. Tail(scan.roots) \in Seq(Range(Roots))  BY <2>1
  <2>3. {f \in folders : f.root = Head(scan.roots)} \in SUBSET Folders  BY <1>0
  <2> DEFINE dirs == {f \in folders : f.root = Head(scan.roots)}
  <2>4. \/ scan' = [scan EXCEPT !.pc = "walk", !.dirs = dirs]
        \/ scan' = [scan EXCEPT !.roots = Tail(scan.roots)] /\ scan.pc = "root"
    BY <1>5 DEF EnterRoot
  <2> HIDE DEF dirs
  <2>5. scan' \in Scan  BY <1>0, <2>2, <2>3, <2>4 DEF Scan, ScanPhases, dirs
  <2> QED  BY <1>0, <2>1, <2>4, <2>5 DEF ScanOK, Scan
<1>6. CASE WalkFolder
  <2>1. PICK f \in scan.dirs :
          scan' = [scan EXCEPT !.dirs = @ \ {f},
                               !.files = {p \in DOMAIN files : OnDisk(p) /\ p.folder = f}]
    BY <1>6 DEF WalkFolder
  <2>2. {p \in DOMAIN files : OnDisk(p) /\ p.folder = f} \in SUBSET Paths  BY <1>0
  <2>3. scan.dirs \ {f} \in SUBSET Folders  BY <1>0 DEF Scan
  <2> QED  BY <1>0, <2>1, <2>2, <2>3 DEF ScanOK, Scan
<1>7. CASE StatFile
  <2>1. PICK p \in scan.files :
          scan' = [scan EXCEPT !.files = @ \ {p},
                     !.parsed = IF OnDisk(p)
                                   /\ (scan.item # 0 => TitleIn[p.folder.dir] = items[scan.item].norm)
                                THEN <<p, files[p]>> ELSE <<>>]
    BY <1>7 DEF StatFile
  <2> DEFINE found == IF OnDisk(p)
                           /\ (scan.item # 0 => TitleIn[p.folder.dir] = items[scan.item].norm)
                      THEN <<p, files[p]>> ELSE <<>>
  <2>2. found \in {<<>>} \cup (Paths \X Contents)  BY <1>0 DEF OnDisk
  <2>3. scan.files \ {p} \in SUBSET Paths  BY <1>0 DEF Scan
  <2>4. scan' = [scan EXCEPT !.files = @ \ {p}, !.parsed = found]  BY <2>1
  <2> HIDE DEF found
  <2> QED  BY <1>0, <2>2, <2>3, <2>4 DEF ScanOK, Scan
<1>8. CASE UpsertFile
  <2>1. PICK i : /\ UpsertedItem(i, scan.parsed[1])
                 /\ scan' = [scan EXCEPT !.parsed = <<>>, !.seen = @ \cup {i}]
    BY <1>8, Upserted
  <2>2. i \in 1 .. MaxItems /\ i \in DOMAIN items'  BY <2>1 DEF UpsertedItem
  <2>3. scan.seen \cup {i} \in SUBSET (1 .. MaxItems)  BY <1>0, <2>2 DEF Scan
  <2> QED  BY <1>0, <2>1, <2>2, <2>3 DEF ScanOK, Scan
<1>9. CASE StalePass
  <2>1. scan.roots \in Seq(Range(Roots)) /\ scan.roots # <<>>
    BY <1>0, <1>9 DEF StalePass, Walked, ScanOK, Scan
  <2>2. Tail(scan.roots) \in Seq(Range(Roots))  BY <2>1
  <2> QED  BY <1>0, <1>9, <2>2 DEF StalePass, Walked, ScanOK, Scan, ScanPhases
<1>10. CASE ReadUnmatched
  <2> DEFINE todo == {i \in DOMAIN items : ~items[i].matched /\ ~items[i].needsMatch}
  <2>1. todo \in SUBSET (1 .. MaxItems) /\ todo \subseteq DOMAIN items'  BY <1>0
  <2>2. scan' = [scan EXCEPT !.pc = "match", !.todo = todo]  BY <1>10 DEF ReadUnmatched
  <2> HIDE DEF todo
  <2> QED  BY <1>0, <2>1, <2>2 DEF ScanOK, Scan, ScanPhases
<1>11. CASE MatchItem
  <2>1. PICK i \in scan.todo : scan' = [scan EXCEPT !.todo = @ \ {i}]  BY <1>11 DEF MatchItem
  <2>2. scan.todo \ {i} \in SUBSET (1 .. MaxItems)  BY <1>0 DEF Scan
  <2> QED  BY <1>0, <2>1, <2>2 DEF ScanOK, Scan
<1>12. CASE RescanOpen
  <2>1. PICK f \in FolderOf(scan.item) :
          IF Readable(f)
          THEN scan' = [scan EXCEPT !.pc = "walk", !.dirs = {f},
                          !.before = {rows[k].path : k \in ActiveOf(rows, scan.item)}]
          ELSE scan' = [scan EXCEPT !.pc = "warned"]
    BY <1>12 DEF RescanOpen
  <2>2. {rows[k].path : k \in ActiveOf(rows, scan.item)} \in SUBSET Paths
    BY DEF ActiveOf, RowsOf, LibraryInv, RowsOK, Row
  <2>3. CASE Readable(f)
    <3>1. {f} \in SUBSET Folders  BY <1>0, <2>3 DEF Readable
    <3>2. scan.item # 0  BY <1>0, <1>12 DEF RescanOpen, ScanOK
    <3> DEFINE before == {rows[k].path : k \in ActiveOf(rows, scan.item)}
    <3>3. scan' = [scan EXCEPT !.pc = "walk", !.dirs = {f}, !.before = before]  BY <2>1, <2>3
    <3>4. before \in SUBSET Paths  BY <2>2
    <3> HIDE DEF before
    <3> QED  BY <1>0, <3>1, <3>2, <3>3, <3>4 DEF ScanOK, Scan, ScanPhases
  <2>4. CASE ~Readable(f)
    <3>1. scan' = [scan EXCEPT !.pc = "warned"]  BY <2>1, <2>4
    <3> QED  BY <1>0, <3>1 DEF ScanOK, Scan, ScanPhases
  <2> QED  BY <2>3, <2>4
<1>13. CASE RescanClose
  <2>1. scan.item \in DOMAIN items  BY <1>0, <1>13 DEF RescanClose, ScanOK
  <2>2. {scan.item} \in SUBSET (1 .. MaxItems)  BY <1>0, <2>1
  <2> QED  BY <1>0, <1>13, <2>1, <2>2 DEF RescanClose, ScanOK, Scan, ScanPhases
<1>14. CASE ScanDone  BY <1>0, <1>14 DEF ScanDone, ScanOK, Scan, ScanPhases
<1>15. CASE ScanFails  BY <1>0, <1>15 DEF ScanFails, ScanOK, Scan, ScanPhases
<1> QED
  BY <1>1, <1>2, <1>3, <1>4, <1>5, <1>6, <1>7, <1>8, <1>9, <1>10, <1>11, <1>12, <1>13,
     <1>14, <1>15, ScanMoves

(* ----------------------------- the rename ------------------------------ *)

LEMMA EmptyDisk == <<>> \in Disks
<1>1. <<>> \in [{} -> Contents]  OBVIOUS
<1>2. {} \in SUBSET Paths  OBVIOUS
<1> QED  BY <1>1, <1>2 DEF Disks

LEMMA IdleRenameTyped == IdleRename \in Rename
BY EmptyDisk, LibraryAssumption DEF IdleRename, Rename, RenamePhases

LEMMA RenameMoves ==
  [Next]_vars => \/ UNCHANGED rename \/ rename' = [rename EXCEPT !.calm = FALSE]
                 \/ rename' = IdleRename
                 \/ PlanRename \/ MoveFolder \/ MoveFile \/ CommitRename \/ UndoFile
                 \/ UndoFolder \/ RenameFails \/ UndoFails
BY DEF Next, ScanStep, RenameStep, Environment, vars, Disturbed, StartScan, EnterRoot,
   WalkFolder, StatFile, UpsertFile, StalePass, ReadUnmatched, MatchItem, RescanOpen,
   RescanClose, ScanDone, FinishScan, ScanFails, ManualMatch, EndRename, AddFile, RemoveFile,
   MountChanges, Crash

\* Only the two steps that move the folder of a rename take a folder away.
LEMMA FoldersStay ==
  [Next]_vars => folders \subseteq folders' \/ MoveFolder \/ UndoFolder
BY WhoChangesTheDisk DEF fs, MoveFile, UndoFile, AddFile, RemoveFile, MountChanges

LEMMA RowsStay == LibraryInv /\ [Next]_vars => DOMAIN rows \subseteq DOMAIN rows'
<1> SUFFICES ASSUME LibraryInv, [Next]_vars PROVE DOMAIN rows \subseteq DOMAIN rows'  OBVIOUS
<1>1. CASE UpsertFile
  <2>1. PICK i, k : UpsertedRow(k, i, scan.parsed[1], scan.parsed[2])  BY <1>1, Upserted
  <2> QED  BY <2>1 DEF UpsertedRow, Put
<1>2. CASE RescanOpen  BY <1>2 DEF RescanOpen
<1>3. CASE CommitRename  BY <1>3, Committed DEF CommittedPlan, db
<1> QED  BY <1>1, <1>2, <1>3, WhoWritesRows

\* A plan has one move for each active row of the item, from the path of the
\* row to a name in the folder of the rename.
LEMMA PlanTyped ==
  ASSUME LibraryInv, NEW i, NEW target, NEW order \in SetToSeqs(ActiveOf(rows, i)),
         \A n \in DOMAIN order : PlannedNames(order, target)[n].to \in Paths
  PROVE  LET moves == PlannedNames(order, target)
         IN /\ moves \in Seq(Move)
            /\ \A n \in DOMAIN moves :
                 /\ moves[n].row \in ActiveOf(rows, i)
                 /\ moves[n].from = rows[moves[n].row].path
                 /\ moves[n].to.folder = target
            /\ \A m, n \in DOMAIN moves : moves[m].row = moves[n].row => m = n
<1> DEFINE A == ActiveOf(rows, i)
           moves == PlannedNames(order, target)
<1>1. A \subseteq DOMAIN rows /\ A \in SUBSET (1 .. MaxRows) /\ rows \in [DOMAIN rows -> Row]
  BY DEF ActiveOf, RowsOf, LibraryInv, RowsOK
<1>2. Cardinality(A) \in Nat
  <2>1. IsFiniteSet(1 .. MaxRows)  BY FS_Interval, LibraryAssumption
  <2> QED  BY <1>1, <2>1, FS_Subset, FS_CardinalityType
<1>3. /\ order \in [1 .. Cardinality(A) -> A]
      /\ \A m, n \in 1 .. Cardinality(A) : m # n => order[m] # order[n]
  BY DEF SetToSeqs
<1>4. order \in Seq(A) /\ Len(order) = Cardinality(A) /\ DOMAIN order = 1 .. Len(order)
  BY <1>2, <1>3
<1>5. \E number : moves =
        [n \in 1 .. Len(order) |->
          [row |-> order[n], from |-> rows[order[n]].path, to |-> Numbered(target, number[n]),
           content |-> rows[order[n]].content]]
  BY DEF PlannedNames
<1>6. DOMAIN moves = 1 .. Len(order)  BY <1>5
<1>7. ASSUME NEW n \in 1 .. Len(order)
      PROVE  /\ moves[n] \in Move /\ moves[n].row = order[n]
             /\ moves[n].from = rows[order[n]].path /\ moves[n].to.folder = target
  <2>1. order[n] \in DOMAIN rows /\ order[n] \in 1 .. MaxRows /\ rows[order[n]] \in Row
    BY <1>1, <1>3, <1>4
  <2>2. moves[n].to \in Paths  BY <1>4
  <2>3. PICK k : moves[n] = [row |-> order[n], from |-> rows[order[n]].path,
                             to |-> Numbered(target, k), content |-> rows[order[n]].content]
    BY <1>5
  <2> HIDE DEF moves
  <2> QED  BY <2>1, <2>2, <2>3 DEF Move, Row, Numbered
<1>8. moves \in Seq(Move)
  <2>1. moves = [n \in 1 .. Len(order) |-> moves[n]]  BY <1>5
  <2> HIDE DEF moves
  <2>2. moves \in [1 .. Len(order) -> Move]  BY <1>7, <2>1
  <2> QED  BY <1>4, <2>2
<1> HIDE DEF moves
<1> QED  BY <1>3, <1>4, <1>6, <1>7, <1>8 DEF moves

LEMMA PlanStays ==
  ASSUME LibraryInv, [Next]_vars, rename.pc # "idle",
         rename'.item = rename.item, rename'.from = rename.from, rename'.to = rename.to,
         DOMAIN rename'.moves = DOMAIN rename.moves,
         \A n \in DOMAIN rename.moves : /\ rename'.moves[n].row = rename.moves[n].row
                                        /\ rename'.moves[n].to = rename.moves[n].to
  PROVE  PlanOK'
<1>1. PlanOK  BY DEF LibraryInv, RenameOK
<1>2. \A i \in DOMAIN items : i \in DOMAIN items' /\ items'[i].root = items[i].root  BY ItemsStay
<1>3. DOMAIN rows \subseteq DOMAIN rows'  BY RowsStay
<1> QED  BY <1>1, <1>2, <1>3 DEF PlanOK

LEMMA RenameStepTyped == LibraryInv /\ [Next]_vars => RenameOK'
<1> SUFFICES ASSUME LibraryInv, [Next]_vars PROVE RenameOK'  OBVIOUS
<1>0. RenameOK /\ rename \in Rename  BY DEF LibraryInv, RenameOK
<1>1. CASE PlanRename
  <2>1. PICK i \in DOMAIN items :
          LET target == TargetOf(items[i])
          IN /\ items[i].matched
             /\ Readable(items[i].folder)
             /\ \E order \in SetToSeqs(ActiveOf(rows, i)) :
                  /\ \A n \in DOMAIN order : PlannedNames(order, target)[n].to \in Paths
                  /\ rename' = [IdleRename EXCEPT
                                  !.pc = IF items[i].folder # target THEN "folder" ELSE "files",
                                  !.item = i, !.from = items[i].folder, !.to = target,
                                  !.moves = PlannedNames(order, target), !.before = files]
    BY <1>1 DEF PlanRename
  <2> DEFINE target == TargetOf(items[i])
  <2>2. PICK order \in SetToSeqs(ActiveOf(rows, i)) :
          /\ \A n \in DOMAIN order : PlannedNames(order, target)[n].to \in Paths
          /\ rename' = [IdleRename EXCEPT
                          !.pc = IF items[i].folder # target THEN "folder" ELSE "files",
                          !.item = i, !.from = items[i].folder, !.to = target,
                          !.moves = PlannedNames(order, target), !.before = files]
    BY <2>1
  <2>3. /\ items[i] \in Item /\ items[i].root = items[i].folder.root /\ i \in 1 .. MaxItems
        /\ items[i].title \in TmdbTitles /\ items[i].folder \in folders
    BY <2>1 DEF LibraryInv, ItemsOK, Readable
  <2>4. target \in Folders /\ target.root = items[i].root
    BY <2>3, TargetGiven
  <2>5. i \in 0 .. MaxItems /\ items[i].folder \in Folders /\ files \in Disks
    BY <2>3, LibraryAssumption DEF Item, LibraryInv, DiskOK
  <2> DEFINE moves == PlannedNames(order, target)
             phase == IF items[i].folder # target THEN "folder" ELSE "files"
  <2>6. /\ moves \in Seq(Move)
        /\ \A n \in DOMAIN moves : moves[n].row \in DOMAIN rows /\ moves[n].to.folder = target
        /\ \A m, n \in DOMAIN moves : moves[m].row = moves[n].row => m = n
    <3>1. ActiveOf(rows, i) \subseteq DOMAIN rows  BY DEF ActiveOf, RowsOf
    <3>2. \A n \in DOMAIN order : PlannedNames(order, target)[n].to \in Paths  BY <2>2
    <3> HIDE DEF target
    <3> QED  BY <3>1, <3>2, PlanTyped
  <2>7. /\ phase = "folder" => items[i].folder # target
        /\ phase = "files" => items[i].folder = target
        /\ phase \in {"folder", "files"}
    OBVIOUS
  <2>8. rename' = [IdleRename EXCEPT !.pc = phase, !.item = i, !.from = items[i].folder,
                                     !.to = target, !.moves = moves, !.before = files]
    BY <2>2
  <2>9. UNCHANGED <<items, rows, folders>>  BY <1>1 DEF PlanRename, db, fs
  <2> HIDE DEF moves, phase, target
  <2>10. rename' \in Rename
    BY <2>4, <2>5, <2>6, <2>7, <2>8, IdleRenameTyped DEF Rename, RenamePhases
  <2>11. /\ rename'.pc = phase /\ rename'.item = i /\ rename'.from = items[i].folder
         /\ rename'.to = target /\ rename'.moves = moves
         /\ rename'.moved = <<>> /\ rename'.next = 1 /\ rename'.folderMoved = FALSE
    BY <2>8 DEF IdleRename
  <2>12. PlanOK'  BY <2>3, <2>4, <2>5, <2>6, <2>9, <2>11 DEF PlanOK
  <2>13. DOMAIN rename'.moved = {}  BY <2>11
  <2> QED  BY <2>3, <2>7, <2>9, <2>10, <2>11, <2>12, <2>13 DEF RenameOK
<1>2. CASE MoveFolder
  <2>1. CASE rename' = [rename EXCEPT !.pc = "files", !.folderMoved = TRUE]
             /\ folders' = (folders \ {rename.from}) \cup {rename.to}
    <3>1. rename' \in Rename  BY <1>0, <2>1 DEF Rename, RenamePhases
    <3>2. PlanOK'  BY <1>0, <1>2, <2>1, PlanStays DEF MoveFolder, Rename
    <3>3. rename.moved = <<>> /\ rename.from # rename.to  BY <1>0, <1>2 DEF MoveFolder, RenameOK
    <3>4. rename'.moved = <<>> /\ DOMAIN rename'.moved = {}  BY <1>0, <2>1, <3>3 DEF Rename
    <3> QED  BY <1>0, <2>1, <3>1, <3>2, <3>3, <3>4 DEF RenameOK, Rename
  <2>2. CASE Undoing
    <3>1. rename' = [rename EXCEPT !.pc = "undo"]  BY <2>2 DEF Undoing
    <3>2. rename' \in Rename  BY <1>0, <3>1 DEF Rename, RenamePhases
    <3>3. PlanOK'  BY <1>0, <1>2, <3>1, PlanStays DEF MoveFolder, Rename
    <3>4. rename.moved = <<>>  BY <1>0, <1>2 DEF MoveFolder, RenameOK
    <3>5. DOMAIN rename'.moved = {}  BY <1>0, <3>1, <3>4 DEF Rename
    <3> QED  BY <1>0, <3>1, <3>2, <3>3, <3>5 DEF RenameOK, Rename
  <2> QED  BY <1>2, <2>1, <2>2 DEF MoveFolder, MovedFolder
<1>3. CASE UndoFolder
  <2>1. rename' = [rename EXCEPT !.pc = "refused"]  BY <1>3 DEF UndoFolder
  <2>2. rename' \in Rename  BY <1>0, <2>1 DEF Rename, RenamePhases
  <2>3. PlanOK'  BY <1>0, <1>3, <2>1, PlanStays DEF UndoFolder, Rename
  <2> QED  BY <1>0, <2>1, <2>2, <2>3 DEF RenameOK, Rename
<1>4. CASE rename' = IdleRename
  BY <1>4, IdleRenameTyped DEF RenameOK, IdleRename
<1> DEFINE Elsewhere == folders \subseteq folders'
<1>5. CASE Elsewhere /\ (UNCHANGED rename \/ rename' = [rename EXCEPT !.calm = FALSE])
  <2>1. rename' \in Rename  BY <1>0, <1>5 DEF Rename
  <2>2. /\ rename'.pc = rename.pc /\ rename'.item = rename.item /\ rename'.from = rename.from
        /\ rename'.to = rename.to /\ rename'.moves = rename.moves /\ rename'.next = rename.next
        /\ rename'.moved = rename.moved /\ rename'.folderMoved = rename.folderMoved
    BY <1>0, <1>5 DEF Rename
  <2>3. rename'.pc # "idle" => PlanOK'  BY <2>2, PlanStays
  <2> QED  BY <1>0, <1>5, <2>1, <2>2, <2>3 DEF RenameOK
<1>6. CASE Elsewhere /\ Undoing /\ rename.pc \in {"folder", "files"}
  <2>1. rename' = [rename EXCEPT !.pc = "undo"]  BY <1>6 DEF Undoing
  <2>2. rename' \in Rename  BY <1>0, <2>1 DEF Rename, RenamePhases
  <2>3. PlanOK'  BY <1>0, <1>6, <2>1, PlanStays DEF Rename
  <2>4. \A n \in DOMAIN rename.moved : rename.moved[n][1].folder \in folders
    <3>1. CASE rename.pc = "folder"
      <4>1. DOMAIN rename.moved = {}  BY <1>0, <3>1 DEF RenameOK
      <4> QED  BY <4>1
    <3>2. CASE rename.pc = "files"  BY <1>0, <3>2 DEF RenameOK
    <3> QED  BY <1>6, <3>1, <3>2
  <2> QED  BY <1>0, <1>6, <2>1, <2>2, <2>3, <2>4 DEF RenameOK, Rename
<1>7. CASE Elsewhere /\ MoveFile
  <2> DEFINE move == rename.moves[rename.next]
             source == SourceNow(move)
             m2 == [rename.moves EXCEPT ![rename.next].content = files[source]]
             d2 == IF source # move.to THEN Append(rename.moved, <<source, move.to>>)
                   ELSE rename.moved
  <2>1. CASE ~Movable(move)  BY <1>6, <1>7, <2>1 DEF MoveFile
  <2>2. CASE Movable(move)
    <3>1. rename.next \in DOMAIN rename.moves /\ rename.moves \in Seq(Move)
          /\ rename.pc = "files"
      BY <1>0, <1>7 DEF MoveFile, Rename
    <3>2. move \in Move  BY <3>1
    <3>3. source \in DOMAIN files /\ source \in Paths /\ source.folder \in folders
          /\ files[source] \in Contents
      <4>1. source \in DOMAIN files  BY <2>2 DEF Movable, OnDisk
      <4>2. DOMAIN files \subseteq Paths /\ files \in [DOMAIN files -> Contents]
        BY DiskMember DEF LibraryInv, DiskOK
      <4> QED  BY <4>1, <4>2 DEF LibraryInv, DiskOK
    <3>4. rename' = [rename EXCEPT !.next = rename.next + 1, !.moves = m2, !.moved = d2]
      BY <1>0, <1>7, <2>2 DEF MoveFile, Rename
    <3>5. /\ m2 \in Seq(Move) /\ DOMAIN m2 = DOMAIN rename.moves
          /\ \A n \in DOMAIN rename.moves : /\ m2[n].row = rename.moves[n].row
                                           /\ m2[n].to = rename.moves[n].to
      <4>1. [move EXCEPT !.content = files[source]] \in Move  BY <3>2, <3>3 DEF Move
      <4>2. m2 = [rename.moves EXCEPT ![rename.next] = [move EXCEPT !.content = files[source]]]
        BY <3>1
      <4>3. /\ [move EXCEPT !.content = files[source]].row = move.row
            /\ [move EXCEPT !.content = files[source]].to = move.to
        BY <3>2 DEF Move
      <4> DEFINE r == [move EXCEPT !.content = files[source]]
      <4> HIDE DEF m2, source, r
      <4>4. m2 = [rename.moves EXCEPT ![rename.next] = r]  BY <4>2 DEF r
      <4> QED  BY <3>1, <4>1, <4>3, <4>4 DEF r
    <3>6. /\ d2 \in Seq(Paths \X Paths)
          /\ \A n \in DOMAIN d2 : d2[n][1].folder \in folders
      <4>1. rename.moved \in Seq(Paths \X Paths) /\ move.to \in Paths
            /\ \A n \in DOMAIN rename.moved : rename.moved[n][1].folder \in folders
        BY <1>0, <3>1, <3>2 DEF Rename, RenameOK, Move
      <4> HIDE DEF source, move
      <4>2. <<source, move.to>> \in Paths \X Paths /\ <<source, move.to>>[1] = source
        BY <3>3, <4>1
      <4> QED  BY <3>3, <4>1, <4>2
    <3> HIDE DEF m2, d2, source, move
    <3>7. rename' \in Rename
      <4>1. rename.next + 1 \in Nat \ {0}  BY <1>0 DEF Rename
      <4> QED  BY <1>0, <3>4, <3>5, <3>6, <4>1 DEF Rename
    <3>8. /\ rename'.pc = "files" /\ rename'.item = rename.item /\ rename'.from = rename.from
          /\ rename'.to = rename.to /\ rename'.moves = m2 /\ rename'.moved = d2
          /\ rename'.folderMoved = rename.folderMoved
      BY <1>0, <3>1, <3>4 DEF Rename
    <3>9. PlanOK'  BY <3>1, <3>5, <3>8, PlanStays
    <3> QED  BY <1>0, <1>7, <3>1, <3>6, <3>7, <3>8, <3>9 DEF RenameOK
  <2> QED  BY <2>1, <2>2
<1>8. CASE Elsewhere /\ CommitRename
  <2>1. rename.pc = "files"  BY <1>8 DEF CommitRename
  <2>2. CASE Undoing  BY <1>6, <1>8, <2>1, <2>2
  <2>3. CASE CommittedPlan
    <3>1. rename' = [rename EXCEPT !.pc = "renamed"]  BY <2>3 DEF CommittedPlan
    <3>2. rename' \in Rename  BY <1>0, <3>1 DEF Rename, RenamePhases
    <3>3. PlanOK'  BY <1>0, <2>1, <3>1, PlanStays DEF Rename
    <3> QED  BY <1>0, <3>1, <3>2, <3>3 DEF RenameOK, Rename
  <2> QED  BY <1>8, <2>2, <2>3, Committed
<1>9. CASE Elsewhere /\ UndoFile
  <2>1. rename' = [rename EXCEPT !.moved = Front(rename.moved)] /\ rename.pc = "undo"
        /\ rename.moved \in Seq(Paths \X Paths) /\ rename.moved # <<>>
    BY <1>0, <1>9 DEF UndoFile, Rename
  <2>2. /\ Front(rename.moved) \in Seq(Paths \X Paths)
        /\ \A n \in DOMAIN Front(rename.moved) :
             n \in DOMAIN rename.moved /\ Front(rename.moved)[n] = rename.moved[n]
    BY <2>1 DEF Front
  <2>3. rename' \in Rename  BY <1>0, <2>1, <2>2 DEF Rename
  <2>4. /\ rename'.pc = "undo" /\ rename'.item = rename.item /\ rename'.from = rename.from
        /\ rename'.to = rename.to /\ rename'.moves = rename.moves
        /\ rename'.moved = Front(rename.moved)
    BY <1>0, <2>1 DEF Rename
  <2>5. PlanOK'  BY <2>1, <2>4, PlanStays
  <2> QED  BY <1>0, <1>9, <2>1, <2>2, <2>3, <2>4, <2>5 DEF RenameOK
<1>10. CASE Elsewhere /\ RenameFails  BY <1>6, <1>10 DEF RenameFails
<1>11. CASE Elsewhere /\ UndoFails
  <2>1. rename.pc = "undo"  BY <1>11 DEF UndoFails
  <2>2. CASE rename.moved # <<>>
    <3>1. rename' = [rename EXCEPT !.moved = Front(rename.moved), !.stuck = TRUE]
          /\ rename.moved \in Seq(Paths \X Paths)
      BY <1>0, <1>11, <2>2 DEF UndoFails, Rename
    <3>2. /\ Front(rename.moved) \in Seq(Paths \X Paths)
          /\ \A n \in DOMAIN Front(rename.moved) :
               n \in DOMAIN rename.moved /\ Front(rename.moved)[n] = rename.moved[n]
      BY <2>2, <3>1 DEF Front
    <3>3. rename' \in Rename  BY <1>0, <3>1, <3>2 DEF Rename
    <3>4. /\ rename'.pc = "undo" /\ rename'.item = rename.item /\ rename'.from = rename.from
          /\ rename'.to = rename.to /\ rename'.moves = rename.moves
          /\ rename'.moved = Front(rename.moved)
      BY <1>0, <2>1, <3>1 DEF Rename
    <3>5. PlanOK'  BY <2>1, <3>4, PlanStays
    <3> QED  BY <1>0, <1>11, <2>1, <3>2, <3>3, <3>4, <3>5 DEF RenameOK
  <2>3. CASE rename.moved = <<>>
    <3>1. rename' = [rename EXCEPT !.pc = "refused", !.stuck = TRUE]
      BY <1>11, <2>3 DEF UndoFails
    <3>2. rename' \in Rename  BY <1>0, <3>1 DEF Rename, RenamePhases
    <3>3. PlanOK'  BY <1>0, <2>1, <3>1, PlanStays DEF Rename
    <3> QED  BY <1>0, <3>1, <3>2, <3>3 DEF RenameOK, Rename
  <2> QED  BY <2>2, <2>3
<1> QED
  BY <1>1, <1>2, <1>3, <1>4, <1>5, <1>7, <1>8, <1>9, <1>10, <1>11, RenameMoves, FoldersStay
-----------------------------------------------------------------------------
LEMMA EmptyTable == ASSUME NEW S PROVE DOMAIN <<>> = {} /\ <<>> \in [{} -> S]
OBVIOUS

LEMMA InitLibrary == Init => LibraryInv
<1> SUFFICES ASSUME Init PROVE LibraryInv  OBVIOUS
<1>1. DiskOK
  <2>1. files = InitialFiles /\ folders = {p.folder : p \in DOMAIN files}  BY DEF Init
  <2>2. files \in Disks /\ DOMAIN files \subseteq Paths  BY <2>1, LibraryAssumption, DiskMember
  <2> QED  BY <2>1, <2>2 DEF DiskOK, Init, Paths
<1>2. ItemsOK /\ ItemKeysUnique /\ RowsOK /\ FingerprintsUnique
  BY EmptyTable DEF Init, ItemsOK, ItemKeysUnique, RowsOK, FingerprintsUnique
<1>3. ScanOK
  <2>1. scan \in Scan  BY IdleScanTyped DEF Init
  <2> QED  BY <2>1 DEF Init, ScanOK, IdleScan
<1>4. RenameOK
  <2>1. rename \in Rename  BY IdleRenameTyped DEF Init
  <2> QED  BY <2>1 DEF Init, RenameOK, IdleRename
<1> QED  BY <1>1, <1>2, <1>3, <1>4 DEF LibraryInv

LEMMA LibraryStep == LibraryInv /\ [Next]_vars => LibraryInv'
BY DiskStep, ItemsStep, RowsStep, ScanStepTyped, RenameStepTyped DEF LibraryInv

LEMMA LibraryInvariant == Spec => []LibraryInv
BY InitLibrary, LibraryStep, PTL DEF Spec

\* The tables keep their kinds and their UNIQUE constraints: no two rows have
\* one fingerprint and no two items of a root one title and year, whatever a
\* scan, a rename and a match by hand write at the same time.
THEOREM LibraryTypeCorrect == Spec => []TypeOK
<1>1. LibraryInv => TypeOK
  <2> SUFFICES ASSUME LibraryInv PROVE TypeOK  OBVIOUS
  <2>1. DOMAIN files \subseteq Paths /\ Range(files) \subseteq Contents
    <3>1. DOMAIN files \subseteq Paths /\ files \in [DOMAIN files -> Contents]
      BY DiskMember DEF LibraryInv, DiskOK
    <3> QED  BY <3>1 DEF Range
  <2>2. /\ DOMAIN items \subseteq 1 .. MaxItems /\ Range(items) \subseteq Item
        /\ DOMAIN rows \subseteq 1 .. MaxRows /\ Range(rows) \subseteq Row
    <3>1. /\ items \in [DOMAIN items -> Item] /\ rows \in [DOMAIN rows -> Row]
          /\ DOMAIN items \subseteq 1 .. MaxItems /\ DOMAIN rows \subseteq 1 .. MaxRows
      BY DEF LibraryInv, ItemsOK, RowsOK
    <3>2. \A i \in DOMAIN items : items[i] \in Item  BY <3>1
    <3>3. \A k \in DOMAIN rows : rows[k] \in Row  BY <3>1
    <3> QED  BY <3>1, <3>2, <3>3 DEF Range
  <2>3. NoneTwice(rows)  BY DEF LibraryInv, FingerprintsUnique, NoneTwice
  <2>4. \A i \in DOMAIN items : items[i].year # None =>
          Matching(items[i].root, items[i].norm, items[i].year) = {i}
    BY DEF LibraryInv, ItemKeysUnique, Matching
  <2>5. scan \in Scan /\ rename \in Rename  BY DEF LibraryInv, ScanOK, RenameOK
  <2>6. /\ scan.pc \in {"idle", "root", "walk", "rescan", "match", "completed", "warned"}
        /\ rename.pc \in {"idle", "folder", "files", "undo", "renamed", "refused"}
        /\ scan.item \in 0 .. MaxItems /\ rename.item \in 0 .. MaxItems
    BY <2>5 DEF Scan, Rename, ScanPhases, RenamePhases
  <2>7. folders \subseteq Folders /\ mounted \subseteq Range(Roots)  BY DEF LibraryInv, DiskOK
  <2> QED  BY <2>1, <2>2, <2>3, <2>4, <2>6, <2>7 DEF TypeOK
<1> QED  BY <1>1, LibraryInvariant, PTL
-----------------------------------------------------------------------------
(* ------------------------------ the years ------------------------------ *)

\* clean_title reads the year back that a rename wrote in the name of a
\* folder: the titles of TMDB have no other year in them.
FoldersNameTheirYear ==
  \A t \in TmdbTitles, y \in Years \cup {None} : YearIn[DirFor[t][y]] = y

\* The item of a row has the year in the path of the row, if there is one; and
\* the folder a rename moves to has the year of its item.
YearsInv ==
  /\ \A k \in DOMAIN rows :
       /\ ~items[rows[k].item].manual /\ ~items[rows[k].item].mixed
       /\ YearIn[rows[k].path.folder.dir] \in Years
       => items[rows[k].item].year = YearIn[rows[k].path.folder.dir]
  /\ /\ rename.pc \in {"folder", "files"}
     /\ ~items[rename.item].manual /\ YearIn[rename.to.dir] \in Years
     => items[rename.item].year = YearIn[rename.to.dir]

LEMMA RenameGoesOn ==
  ASSUME LibraryInv, [Next]_vars, rename'.pc \in {"folder", "files"}, ~PlanRename
  PROVE  /\ rename.pc \in {"folder", "files"} /\ rename'.item = rename.item
         /\ rename'.from = rename.from /\ rename'.to = rename.to
<1>0. rename \in Rename  BY DEF LibraryInv, RenameOK
<1>1. CASE UNCHANGED rename  BY <1>1
<1>2. CASE rename' = [rename EXCEPT !.calm = FALSE]  BY <1>0, <1>2 DEF Rename
<1>3. CASE rename' = IdleRename  BY <1>3 DEF IdleRename
<1>4. CASE MoveFolder  BY <1>0, <1>4 DEF MoveFolder, Undoing, Rename
<1>5. CASE MoveFile  BY <1>0, <1>5 DEF MoveFile, Undoing, Rename
<1>6. CASE CommitRename  BY <1>0, <1>6 DEF CommitRename, Undoing, Rename
<1>7. CASE UndoFile  BY <1>0, <1>7 DEF UndoFile, Rename
<1>8. CASE UndoFolder  BY <1>0, <1>8 DEF UndoFolder, Rename
<1>9. CASE RenameFails  BY <1>0, <1>9 DEF RenameFails, Undoing, Rename
<1>10. CASE UndoFails
  <2>1. rename.pc = "undo" /\ (rename.moved = <<>> \/ rename.moved # <<>>)
    BY <1>10 DEF UndoFails
  <2>2. CASE rename.moved # <<>>
    <3>1. rename' = [rename EXCEPT !.moved = Front(rename.moved), !.stuck = TRUE]
      BY <1>0, <1>10, <2>2 DEF UndoFails, Rename
    <3> QED  BY <1>0, <2>1, <3>1 DEF Rename
  <2>3. CASE rename.moved = <<>>
    <3>1. rename' = [rename EXCEPT !.pc = "refused", !.stuck = TRUE]
      BY <1>10, <2>3 DEF UndoFails
    <3> QED  BY <1>0, <3>1 DEF Rename
  <2> QED  BY <2>2, <2>3
<1> QED  BY <1>1, <1>2, <1>3, <1>4, <1>5, <1>6, <1>7, <1>8, <1>9, <1>10, RenameMoves

\* The row of a planned move is the one whose path the commit writes.
LEMMA CommittedPaths ==
  ASSUME LibraryInv, rename.pc # "idle", CommittedPlan, NEW k \in DOMAIN rows
  PROVE  \/ rows'[k] = rows[k] /\ \A n \in DOMAIN rename.moves : rename.moves[n].row # k
         \/ \E n \in DOMAIN rename.moves :
              rename.moves[n].row = k /\ rows'[k].path.folder.dir = rename.to.dir
<1>1. CASE \A n \in DOMAIN rename.moves : rename.moves[n].row # k
  BY <1>1 DEF CommittedPlan
<1>2. ASSUME NEW n \in DOMAIN rename.moves, rename.moves[n].row = k
      PROVE  rows'[k].path.folder.dir = rename.to.dir
  <2> DEFINE p == InRoot(rename.moves[n].to, items[rows[k].item].root)
  <2>1. rows'[k].path = p  BY <1>2 DEF CommittedPlan
  <2>2. p.folder.dir = rename.moves[n].to.folder.dir  BY DEF InRoot
  <2>3. rename.moves[n].to.folder = rename.to  BY DEF LibraryInv, RenameOK, PlanOK
  <2> HIDE DEF p
  <2> QED  BY <2>1, <2>2, <2>3
<1> QED  BY <1>1, <1>2

LEMMA YearsOfRows ==
  ASSUME LibraryInv, YearsInv, [Next]_vars, NEW k \in DOMAIN rows',
         ~items'[rows'[k].item].manual, ~items'[rows'[k].item].mixed,
         YearIn[rows'[k].path.folder.dir] \in Years
  PROVE  items'[rows'[k].item].year = YearIn[rows'[k].path.folder.dir]
<1>0. /\ \A j \in DOMAIN rows : rows[j].item \in DOMAIN items
      /\ \A j \in DOMAIN rows : /\ ~items[rows[j].item].manual /\ ~items[rows[j].item].mixed
                                /\ YearIn[rows[j].path.folder.dir] \in Years
                                => items[rows[j].item].year = YearIn[rows[j].path.folder.dir]
      /\ rows \in [DOMAIN rows -> Row]
  BY DEF LibraryInv, RowsOK, YearsInv
<1>1. CASE UpsertFile
  <2> DEFINE p == scan.parsed[1]
             c == scan.parsed[2]
  <2>1. PICK i, j : UpsertedItem(i, p) /\ UpsertedRow(j, i, p, c)  BY <1>1, Upserted
  <2> HIDE DEF p, c
  <2>2. CASE k = j
    <3>1. rows'[k].item = i /\ rows'[k].path = p  BY <2>1, <2>2 DEF UpsertedRow, Put
    <3> QED  BY <2>1, <3>1 DEF UpsertedItem
  <2>3. CASE k # j
    <3>1. k \in DOMAIN rows /\ rows'[k] = rows[k]  BY <2>1, <2>3 DEF UpsertedRow, Put
    <3>2. CASE rows[k].item # i
      <4>1. items'[rows[k].item] = items[rows[k].item]
        BY <1>0, <2>1, <3>1, <3>2 DEF UpsertedItem
      <4> QED  BY <1>0, <3>1, <4>1
    <3>3. CASE rows[k].item = i
      <4>1. /\ i \in DOMAIN items
            /\ items'[i].manual = items[i].manual /\ items'[i].mixed = items[i].mixed
            /\ items'[i].year = YearIn[p.folder.dir] /\ items[i].year \in {YearIn[p.folder.dir], None}
        BY <1>0, <2>1, <3>1, <3>3 DEF UpsertedItem
      <4>2. items[i].year = YearIn[rows[k].path.folder.dir]  BY <1>0, <3>1, <3>3, <4>1
      <4> QED  BY <3>1, <3>3, <4>1, <4>2, LibraryAssumption
    <3> QED  BY <3>2, <3>3
  <2> QED  BY <2>2, <2>3
<1>2. CASE CommitRename
  <2>1. CASE UNCHANGED db  BY <1>0, <2>1 DEF db
  <2>2. CASE CommittedPlan
    <3>1. k \in DOMAIN rows /\ rows'[k].item = rows[k].item  BY <2>2 DEF CommittedPlan
    <3> DEFINE i == rows[k].item
    <3>2. /\ i \in DOMAIN items /\ items'[i].year = items[i].year
          /\ items'[i].manual = items[i].manual /\ (items[i].mixed => items'[i].mixed)
      BY <1>0, <2>2, <3>1 DEF CommittedPlan
    <3>3. CASE rows'[k] = rows[k]  BY <1>0, <3>1, <3>2, <3>3
    <3>4. ASSUME NEW n \in DOMAIN rename.moves, rename.moves[n].row = k,
                 rows'[k].path.folder.dir = rename.to.dir
          PROVE  items'[rows'[k].item].year = YearIn[rows'[k].path.folder.dir]
      <4>1. i = rename.item  BY <2>2, <3>1, <3>2, <3>4 DEF CommittedPlan
      <4>2. rename.pc = "files"  BY <1>2 DEF CommitRename
      <4> QED  BY <3>1, <3>2, <3>4, <4>1, <4>2 DEF YearsInv
    <3>5. rename.pc # "idle"  BY <1>2 DEF CommitRename
    <3> QED  BY <2>2, <3>1, <3>3, <3>4, <3>5, CommittedPaths
  <2> QED  BY <1>2, <2>1, <2>2, Committed
<1>3. CASE RescanOpen
  <2>1. k \in DOMAIN rows /\ rows'[k].item = rows[k].item /\ rows'[k].path = rows[k].path
    <3>1. CASE UNCHANGED rows  BY <3>1
    <3>2. CASE rows' = [j \in DOMAIN rows |->
                          IF rows[j].item = scan.item
                          THEN [rows[j] EXCEPT !.active = FALSE] ELSE rows[j]]
      <4>1. k \in DOMAIN rows /\ rows[k] \in Row  BY <1>0, <3>2
      <4> QED  BY <3>2, <4>1 DEF Row
    <3> QED  BY <1>3, <3>1, <3>2 DEF RescanOpen
  <2>2. items' = items  BY <1>3 DEF RescanOpen
  <2> QED  BY <1>0, <2>1, <2>2
<1>4. CASE UNCHANGED rows
  <2>0. k \in DOMAIN rows /\ rows'[k] = rows[k] /\ rows[k].item \in DOMAIN items
    BY <1>0, <1>4
  <2>1. CASE UNCHANGED items  BY <1>0, <2>0, <2>1
  <2>2. CASE StalePass \/ MatchItem \/ RescanClose
    BY <1>0, <2>0, <2>2, TouchedUp DEF SameFilms
  <2>3. CASE ManualMatch
    <3>1. PICK i \in DOMAIN items : HandMatched(i)  BY <2>3, MatchedByHand
    <3>2. rows[k].item # i  BY <2>0, <3>1 DEF HandMatched
    <3>3. items'[rows[k].item] = items[rows[k].item]  BY <2>0, <3>1, <3>2 DEF HandMatched
    <3> QED  BY <1>0, <2>0, <3>3
  <2> QED  BY <1>1, <1>2, <2>1, <2>2, <2>3, WhoWritesItems
<1> QED  BY <1>1, <1>2, <1>3, <1>4, WhoWritesRows

LEMMA YearOfRename ==
  ASSUME FoldersNameTheirYear, LibraryInv, YearsInv, [Next]_vars,
         rename'.pc \in {"folder", "files"},
         ~items'[rename'.item].manual, YearIn[rename'.to.dir] \in Years
  PROVE  items'[rename'.item].year = YearIn[rename'.to.dir]
<1>1. CASE PlanRename
  <2>1. PICK i \in DOMAIN items :
          /\ items[i].matched
          /\ \E order \in SetToSeqs(ActiveOf(rows, i)) :
               LET target == TargetOf(items[i])
               IN rename' = [IdleRename EXCEPT
                               !.pc = IF items[i].folder # target THEN "folder" ELSE "files",
                               !.item = i, !.from = items[i].folder, !.to = target,
                               !.moves = PlannedNames(order, target), !.before = files]
    BY <1>1 DEF PlanRename
  <2>2. rename'.item = i /\ rename'.to = TargetOf(items[i])
    BY <2>1 DEF IdleRename
  <2>3. items[i] \in Item /\ items[i].title \in TmdbTitles  BY <2>1 DEF LibraryInv, ItemsOK
  <2>4. YearIn[rename'.to.dir] = items[i].year  BY <2>2, <2>3 DEF FoldersNameTheirYear, Item, TargetOf
  <2> QED  BY <1>1, <2>2, <2>4 DEF PlanRename, db
<1>2. CASE ~PlanRename
  <2> DEFINE i == rename.item
  <2>1. rename.pc \in {"folder", "files"} /\ rename'.item = i /\ rename'.to = rename.to
    BY <1>2, RenameGoesOn
  <2>2. i \in DOMAIN items  BY <2>1 DEF LibraryInv, RenameOK, PlanOK
  <2>3. ~items[i].manual /\ YearIn[rename.to.dir] \in Years => items[i].year = YearIn[rename.to.dir]
    BY <2>1 DEF YearsInv
  <2> HIDE DEF i
  <2>4. CASE UNCHANGED items  BY <2>1, <2>3, <2>4
  <2>5. CASE UpsertFile
    <3>1. PICK j : UpsertedItem(j, scan.parsed[1])  BY <2>5, Upserted
    <3>2. CASE j # i  BY <2>1, <2>2, <2>3, <3>1, <3>2 DEF UpsertedItem
    <3>3. CASE j = i
      <4>1. items'[i].manual = items[i].manual /\ items[i].year \in {items'[i].year, None}
        BY <2>2, <3>1, <3>3 DEF UpsertedItem
      <4> QED  BY <2>1, <2>3, <4>1, LibraryAssumption
    <3> QED  BY <3>2, <3>3
  <2>6. CASE StalePass \/ MatchItem \/ RescanClose
    BY <2>1, <2>2, <2>3, <2>6, TouchedUp DEF SameFilms
  <2>7. CASE ManualMatch
    <3>1. PICK j \in DOMAIN items : HandMatched(j)  BY <2>7, MatchedByHand
    <3>2. j # i  BY <2>1, <3>1 DEF HandMatched
    <3> QED  BY <2>1, <2>2, <2>3, <3>1, <3>2 DEF HandMatched
  <2>8. CASE CommitRename
    BY <2>1, <2>2, <2>3, <2>4, <2>8, Committed DEF CommittedPlan, db
  <2> QED  BY <2>4, <2>5, <2>6, <2>7, <2>8, WhoWritesItems
<1> QED  BY <1>1, <1>2

\* Two films of one name and different years are never one item, whatever the
\* order of scans, renames and faults; only a match by hand, or the rename of
\* an item another scan took a file from, moves an item to another year.
THEOREM YearsAreKeptApart ==
  ASSUME FoldersNameTheirYear PROVE Spec => []YearsStayApart
<1>1. Init => YearsInv  BY EmptyTable DEF Init, YearsInv, IdleRename
<1>2. LibraryInv /\ YearsInv /\ [Next]_vars => YearsInv'
  <2> SUFFICES ASSUME LibraryInv, YearsInv, [Next]_vars PROVE YearsInv'  OBVIOUS
  <2>1. \A k \in DOMAIN rows' :
          /\ ~items'[rows'[k].item].manual /\ ~items'[rows'[k].item].mixed
          /\ YearIn[rows'[k].path.folder.dir] \in Years
          => items'[rows'[k].item].year = YearIn[rows'[k].path.folder.dir]
    BY YearsOfRows
  <2>2. /\ rename'.pc \in {"folder", "files"}
        /\ ~items'[rename'.item].manual /\ YearIn[rename'.to.dir] \in Years
        => items'[rename'.item].year = YearIn[rename'.to.dir]
    BY YearOfRename
  <2> QED  BY <2>1, <2>2 DEF YearsInv
<1>3. YearsInv => YearsStayApart  BY DEF YearsInv, YearsStayApart
<1> QED  BY <1>1, <1>2, <1>3, LibraryInvariant, PTL DEF Spec
-----------------------------------------------------------------------------
(* --------------------- what a rename did to the disk ------------------- *)

LEMMA FileAndBack ==
  ASSUME NEW d \in Disks, NEW s \in DOMAIN d, NEW t \in Paths, t \notin DOMAIN d
  PROVE  /\ t \in DOMAIN FileImage(d, s, t) /\ s \notin DOMAIN FileImage(d, s, t)
         /\ FileImage(FileImage(d, s, t), t, s) = d
<1>1. d \in [DOMAIN d -> Contents]  BY DiskMember
<1>2. DOMAIN FileImage(d, s, t) = (DOMAIN d \ {s}) \cup {t} /\ s # t  BY DEF FileImage
<1>3. \A p \in DOMAIN FileImage(d, s, t) :
        FileImage(d, s, t)[p] = IF p = t THEN d[s] ELSE d[p]
  BY DEF FileImage
<1> DEFINE e == FileImage(d, s, t)
<1> HIDE DEF e
<1>4. DOMAIN FileImage(e, t, s) = DOMAIN d
  <2>1. DOMAIN FileImage(e, t, s) = (DOMAIN e \ {t}) \cup {s}  BY DEF FileImage
  <2> QED  BY <1>2, <2>1 DEF e
<1>5. ASSUME NEW p \in DOMAIN d PROVE FileImage(e, t, s)[p] = d[p]
  <2>1. FileImage(e, t, s)[p] = IF p = s THEN e[t] ELSE e[p]  BY <1>4 DEF FileImage
  <2> QED  BY <1>2, <1>3, <2>1 DEF e
<1>6. FileImage(e, t, s) = [p \in DOMAIN FileImage(e, t, s) |-> FileImage(e, t, s)[p]]
  BY DEF FileImage
<1>7. FileImage(e, t, s) = d  BY <1>1, <1>4, <1>5, <1>6
<1> QED  BY <1>2, <1>7 DEF e

LEMMA FolderAndBack ==
  ASSUME NEW d \in Disks, NEW a \in Folders, NEW b \in Folders, a # b,
         \A p \in DOMAIN d : p.folder # b
  PROVE  FolderImage(FolderImage(d, a, b), b, a) = d
<1>0. d \in [DOMAIN d -> Contents] /\ DOMAIN d \subseteq Paths  BY DiskMember
<1> DEFINE there == {p \in Paths : p.folder = b /\ [p EXCEPT !.folder = a] \in DOMAIN d}
           e == FolderImage(d, a, b)
           back == {p \in Paths : p.folder = a /\ [p EXCEPT !.folder = b] \in DOMAIN e}
<1>1. DOMAIN e = {p \in DOMAIN d : p.folder # a} \cup there  BY DEF FolderImage
<1>2. \A p \in DOMAIN e : e[p] = IF p \in there THEN d[[p EXCEPT !.folder = a]] ELSE d[p]
  BY DEF FolderImage
<1>3. \A p \in Paths : /\ p.folder = a => [[p EXCEPT !.folder = b] EXCEPT !.folder = a] = p
                       /\ [p EXCEPT !.folder = b] \in Paths /\ [p EXCEPT !.folder = b].folder = b
  BY DEF Paths
<1>4. back = {p \in DOMAIN d : p.folder = a}
  <2>1. \A p \in Paths : p.folder = a =>
          ([p EXCEPT !.folder = b] \in DOMAIN e <=> [p EXCEPT !.folder = b] \in there)
    BY <1>0, <1>1, <1>3
  <2>2. \A p \in Paths : p.folder = a => ([p EXCEPT !.folder = b] \in there <=> p \in DOMAIN d)
    BY <1>3
  <2> HIDE DEF there, e
  <2> QED  BY <1>0, <2>1, <2>2
<1>5. {p \in DOMAIN e : p.folder # b} = {p \in DOMAIN d : p.folder # a}  BY <1>1
<1>6. \A p \in back : e[[p EXCEPT !.folder = b]] = d[p]
  <2> SUFFICES ASSUME NEW p \in back PROVE e[[p EXCEPT !.folder = b]] = d[p]  OBVIOUS
  <2>1. p \in Paths /\ p.folder = a /\ p \in DOMAIN d  BY <1>4
  <2> DEFINE q == [p EXCEPT !.folder = b]
  <2>2. q \in Paths /\ q.folder = b /\ [q EXCEPT !.folder = a] = p  BY <1>3, <2>1
  <2>3. q \in there /\ q \in DOMAIN e  BY <1>1, <2>1, <2>2
  <2> HIDE DEF q, e, there
  <2> QED  BY <1>2, <2>2, <2>3 DEF q
<1>7. \A p \in DOMAIN d : p.folder # a => e[p] = d[p]
  <2>1. \A p \in DOMAIN d : p.folder # a => p \in DOMAIN e /\ p \notin there  BY <1>1
  <2> HIDE DEF e, there
  <2> QED  BY <1>2, <2>1
<1> DEFINE f == FolderImage(e, b, a)
<1>8. /\ f = [p \in {q \in DOMAIN e : q.folder # b} \cup back |->
                IF p \in back THEN e[[p EXCEPT !.folder = b]] ELSE e[p]]
  BY DEF FolderImage
<1> HIDE DEF e, back, f
<1>9. DOMAIN f = DOMAIN d  BY <1>4, <1>5, <1>8
<1>10. \A p \in DOMAIN d : f[p] = d[p]  BY <1>4, <1>5, <1>6, <1>7, <1>8
<1>11. f = [p \in DOMAIN f |-> f[p]]  BY <1>8
<1>12. f = d  BY <1>0, <1>9, <1>10, <1>11
<1> QED  BY <1>12 DEF f, e

\* The disks d[0] .. d[Len(moved)] of a rename: from start, one file moved at
\* each step to a path that was free, to the disk it is now.
Trail(d, start, moved, disk) ==
  /\ d \in [0 .. Len(moved) -> Disks]
  /\ d[0] = start /\ d[Len(moved)] = disk
  /\ \A n \in 1 .. Len(moved) :
       /\ moved[n][1] \in DOMAIN d[n - 1] /\ moved[n][2] \notin DOMAIN d[n - 1]
       /\ d[n] = FileImage(d[n - 1], moved[n][1], moved[n][2])

\* While nothing else touched the disk and no undo failed, a rename can tell
\* what the disk was before.
DiskBefore(r) == IF r.folderMoved THEN FolderImage(r.before, r.from, r.to) ELSE r.before
History ==
  rename.calm /\ ~rename.stuck /\ rename.pc \in {"folder", "files", "undo"} =>
    /\ \E d : Trail(d, DiskBefore(rename), rename.moved, files)
    /\ rename.from.root \in mounted
    /\ \A n \in DOMAIN rename.moved : rename.moved[n][2].folder = rename.to
    /\ rename.folderMoved => /\ rename.from \notin folders /\ rename.to \in folders
                             /\ \A p \in DOMAIN rename.before : p.folder # rename.to

LEMMA TrailStarts ==
  ASSUME NEW disk \in Disks PROVE \E d : Trail(d, disk, <<>>, disk)
<1> DEFINE d == [n \in 0 .. 0 |-> disk]
<1>1. Len(<<>>) = 0 /\ 0 \in 0 .. 0  OBVIOUS
<1>2. Trail(d, disk, <<>>, disk)  BY <1>1 DEF Trail
<1> QED  BY <1>2

LEMMA TrailGrows ==
  ASSUME NEW start, NEW moved \in Seq(Paths \X Paths), NEW disk \in Disks,
         NEW d, Trail(d, start, moved, disk),
         NEW s \in DOMAIN disk, NEW t \in Paths, t \notin DOMAIN disk
  PROVE  \E e : Trail(e, start, Append(moved, <<s, t>>), FileImage(disk, s, t))
<1> DEFINE L == Len(moved)
           m == Append(moved, <<s, t>>)
           after == FileImage(disk, s, t)
           e == [n \in 0 .. L + 1 |-> IF n = L + 1 THEN after ELSE d[n]]
<1>1. L \in Nat /\ Len(m) = L + 1  OBVIOUS
<1>2. after \in Disks  BY FileImageTyped
<1>3. m[L + 1] = <<s, t>> /\ \A n \in 1 .. L : m[n] = moved[n]  BY <1>1
<1>4. d \in [0 .. L -> Disks] /\ d[0] = start /\ d[L] = disk  BY DEF Trail
<1> HIDE DEF after, m, L
<1>5. e \in [0 .. L + 1 -> Disks] /\ e[0] = start /\ e[L + 1] = after
  BY <1>1, <1>2, <1>4
<1>6. \A n \in 0 .. L : e[n] = d[n]  BY <1>1
<1> HIDE DEF e
<1>7. ASSUME NEW n \in 1 .. L + 1
      PROVE  /\ m[n][1] \in DOMAIN e[n - 1] /\ m[n][2] \notin DOMAIN e[n - 1]
             /\ e[n] = FileImage(e[n - 1], m[n][1], m[n][2])
  <2>1. CASE n = L + 1
    <3>1. e[n - 1] = disk  BY <1>1, <1>4, <1>6, <2>1
    <3>2. m[n][1] = s /\ m[n][2] = t  BY <1>3, <2>1
    <3> QED  BY <1>5, <2>1, <3>1, <3>2 DEF after
  <2>2. CASE n # L + 1
    <3>1. n \in 1 .. L /\ n - 1 \in 0 .. L /\ n \in 0 .. L  BY <1>1, <2>2
    <3>2. e[n - 1] = d[n - 1] /\ e[n] = d[n] /\ m[n] = moved[n]  BY <1>3, <1>6, <3>1
    <3> QED  BY <3>1, <3>2 DEF Trail, L
  <2> QED  BY <2>1, <2>2
<1>8. Trail(e, start, m, after)  BY <1>1, <1>5, <1>7 DEF Trail
<1> QED  BY <1>8 DEF m, after

\* The last move of a trail can be undone, and the undo gives the disk before.
LEMMA TrailShrinks ==
  ASSUME NEW start, NEW moved \in Seq(Paths \X Paths), moved # <<>>, NEW disk,
         NEW d, Trail(d, start, moved, disk)
  PROVE  LET s == Last(moved)[1]
             t == Last(moved)[2]
         IN /\ t \in DOMAIN disk /\ s \notin DOMAIN disk
            /\ \E e : Trail(e, start, Front(moved), FileImage(disk, t, s))
<1> DEFINE L == Len(moved)
           s == Last(moved)[1]
           t == Last(moved)[2]
           e == [n \in 0 .. L - 1 |-> d[n]]
<1>1. L \in Nat \ {0}  OBVIOUS
<1>2. /\ Last(moved) = moved[L] /\ Len(Front(moved)) = L - 1
      /\ \A n \in 1 .. L - 1 : Front(moved)[n] = moved[n]
      /\ moved[L] \in Paths \X Paths
  BY <1>1, FrontOf
<1>3. /\ s \in DOMAIN d[L - 1] /\ t \notin DOMAIN d[L - 1] /\ t \in Paths
      /\ disk = FileImage(d[L - 1], s, t) /\ d[L - 1] \in Disks
  <2>1. L \in 1 .. L /\ L - 1 \in 0 .. L  BY <1>1
  <2> QED  BY <1>2, <2>1 DEF Trail
<1>4. t \in DOMAIN disk /\ s \notin DOMAIN disk /\ FileImage(disk, t, s) = d[L - 1]
  BY <1>3, FileAndBack
<1>5. Trail(e, start, Front(moved), d[L - 1])
  <2>1. \A n \in 0 .. L - 1 : e[n] = d[n]  OBVIOUS
  <2>2. e \in [0 .. L - 1 -> Disks] /\ e[0] = start /\ e[L - 1] = d[L - 1]
    BY <1>1 DEF Trail
  <2> HIDE DEF e
  <2>3. ASSUME NEW n \in 1 .. L - 1
        PROVE  /\ Front(moved)[n][1] \in DOMAIN e[n - 1]
               /\ Front(moved)[n][2] \notin DOMAIN e[n - 1]
               /\ e[n] = FileImage(e[n - 1], Front(moved)[n][1], Front(moved)[n][2])
    <3>1. n \in 1 .. L /\ n \in 0 .. L - 1 /\ n - 1 \in 0 .. L - 1  BY <1>1
    <3>2. e[n - 1] = d[n - 1] /\ e[n] = d[n] /\ Front(moved)[n] = moved[n]  BY <1>2, <2>1, <3>1
    <3> QED  BY <3>1, <3>2 DEF Trail
  <2> QED  BY <1>2, <2>2, <2>3 DEF Trail
<1> QED  BY <1>4, <1>5

\* A rename begins with a plan for an item whose files are all there.
Planned(i, order) ==
  LET target == TargetOf(items[i])
  IN /\ items[i].matched /\ Readable(items[i].folder)
     /\ \A k \in ActiveOf(rows, i) : OnDisk(rows[k].path)
     /\ \A n \in DOMAIN order : PlannedNames(order, target)[n].to \in Paths
     /\ rename'.pc = IF items[i].folder # target THEN "folder" ELSE "files"
     /\ rename'.item = i /\ rename'.from = items[i].folder /\ rename'.to = target
     /\ rename'.moves = PlannedNames(order, target) /\ rename'.before = files
     /\ rename'.moved = <<>> /\ rename'.next = 1 /\ ~rename'.folderMoved

LEMMA PlanRenameGives ==
  ASSUME PlanRename
  PROVE  /\ UNCHANGED <<db, fs>>
         /\ \E i \in DOMAIN items : \E order \in SetToSeqs(ActiveOf(rows, i)) : Planned(i, order)
<1>1. PICK i \in DOMAIN items :
        LET target == TargetOf(items[i])
        IN /\ items[i].matched
           /\ Readable(items[i].folder)
           /\ \A k \in ActiveOf(rows, i) : OnDisk(rows[k].path)
           /\ \E order \in SetToSeqs(ActiveOf(rows, i)) :
                /\ \A n \in DOMAIN order : PlannedNames(order, target)[n].to \in Paths
                /\ rename' = [IdleRename EXCEPT
                                !.pc = IF items[i].folder # target THEN "folder" ELSE "files",
                                !.item = i, !.from = items[i].folder, !.to = target,
                                !.moves = PlannedNames(order, target), !.before = files]
  BY DEF PlanRename
<1> DEFINE target == TargetOf(items[i])
<1>2. PICK order \in SetToSeqs(ActiveOf(rows, i)) :
        /\ \A n \in DOMAIN order : PlannedNames(order, target)[n].to \in Paths
        /\ rename' = [IdleRename EXCEPT
                        !.pc = IF items[i].folder # target THEN "folder" ELSE "files",
                        !.item = i, !.from = items[i].folder, !.to = target,
                        !.moves = PlannedNames(order, target), !.before = files]
  BY <1>1
<1>3. Planned(i, order)
  <2> DEFINE moves == PlannedNames(order, target)
             phase == IF items[i].folder # target THEN "folder" ELSE "files"
  <2>1. rename' = [IdleRename EXCEPT !.pc = phase, !.item = i, !.from = items[i].folder,
                                     !.to = target, !.moves = moves, !.before = files]
    BY <1>2
  <2> HIDE DEF moves, phase, target
  <2>2. /\ rename'.pc = phase /\ rename'.item = i /\ rename'.from = items[i].folder
        /\ rename'.to = target /\ rename'.moves = moves /\ rename'.before = files
        /\ rename'.moved = <<>> /\ rename'.next = 1 /\ ~rename'.folderMoved
    BY <2>1 DEF IdleRename
  <2> QED  BY <1>1, <1>2, <2>2 DEF Planned, moves, phase, target
<1>4. UNCHANGED <<db, fs>>  BY DEF PlanRename
<1> QED  BY <1>3, <1>4

LEMMA CalmRename ==
  ASSUME LibraryInv, [Next]_vars, rename'.calm
  PROVE  \/ UNCHANGED <<fs, rename>>
         \/ rename' = IdleRename
         \/ PlanRename \/ MoveFolder \/ MoveFile \/ CommitRename \/ UndoFile \/ UndoFolder
         \/ RenameFails \/ UndoFails
<1>0. rename \in Rename  BY DEF LibraryInv, RenameOK
<1>1. ~Disturbed  BY <1>0 DEF Disturbed, Rename
<1>2. ~AddFile /\ ~RemoveFile /\ ~MountChanges
  BY <1>1 DEF AddFile, RemoveFile, MountChanges
<1>3. UNCHANGED fs \/ MoveFolder \/ MoveFile \/ UndoFile \/ UndoFolder
  BY <1>2, WhoChangesTheDisk
<1>4. rename' # [rename EXCEPT !.calm = FALSE]  BY <1>0 DEF Rename
<1> QED  BY <1>3, <1>4, RenameMoves

\* What the steps of a rename before its end keep of its record.
SameRename ==
  /\ rename'.item = rename.item /\ rename'.from = rename.from /\ rename'.to = rename.to
  /\ rename'.before = rename.before /\ rename'.calm = rename.calm
  /\ rename'.stuck = rename.stuck

LEMMA Undone ==
  ASSUME LibraryInv, Undoing
  PROVE  /\ SameRename /\ rename'.pc = "undo" /\ rename'.moved = rename.moved
         /\ rename'.folderMoved = rename.folderMoved /\ rename'.moves = rename.moves
BY DEF Undoing, SameRename, LibraryInv, RenameOK, Rename

\* The two outcomes of a move of a file.
FileMoved ==
  LET move == rename.moves[rename.next]
      source == SourceNow(move)
  IN /\ Movable(move) /\ source \in DOMAIN files
     /\ move \in Move /\ move.to.folder = rename.to
     /\ SameRename /\ rename'.pc = "files" /\ rename'.folderMoved = rename.folderMoved
     /\ rename'.next = rename.next + 1
     /\ rename'.moves = [rename.moves EXCEPT ![rename.next].content = files[source]]
     /\ \/ source = move.to /\ files' = files /\ rename'.moved = rename.moved
        \/ /\ source # move.to /\ move.to \notin DOMAIN files
           /\ files' = FileImage(files, source, move.to)
           /\ rename'.moved = Append(rename.moved, <<source, move.to>>)

LEMMA MoveFileOutcomes ==
  ASSUME LibraryInv, MoveFile
  PROVE  /\ rename.pc = "files" /\ UNCHANGED <<folders, mounted>>
         /\ rename.next \in DOMAIN rename.moves
         /\ FileMoved \/ (files' = files /\ Undoing)
<1> DEFINE move == rename.moves[rename.next]
           source == SourceNow(move)
<1>0. rename \in Rename /\ rename.pc = "files" /\ UNCHANGED <<folders, mounted>>
  BY DEF MoveFile, LibraryInv, RenameOK
<1>1. rename.next \in DOMAIN rename.moves  BY <1>0 DEF MoveFile, Rename
<1>2. move \in Move /\ move.to.folder = rename.to
  BY <1>0, <1>1 DEF Rename, LibraryInv, RenameOK, PlanOK
<1>3. CASE ~Movable(move)  BY <1>0, <1>1, <1>3 DEF MoveFile
<1>4. CASE Movable(move)
  <2>1. source \in DOMAIN files /\ (source # move.to => move.to \notin DOMAIN files)
    BY <1>4 DEF Movable, OnDisk
  <2>2. /\ source # move.to => files' = FileImage(files, source, move.to)
        /\ source = move.to => files' = files
    BY <1>4 DEF MoveFile, MovedFile, FileImage
  <2> DEFINE d2 == IF source # move.to THEN Append(rename.moved, <<source, move.to>>)
                   ELSE rename.moved
             m2 == [rename.moves EXCEPT ![rename.next].content = files[source]]
  <2>3. rename' = [rename EXCEPT !.next = rename.next + 1, !.moves = m2, !.moved = d2]
    BY <1>0, <1>4 DEF MoveFile, Rename
  <2> HIDE DEF m2, d2
  <2>4. /\ SameRename /\ rename'.pc = "files" /\ rename'.folderMoved = rename.folderMoved
        /\ rename'.next = rename.next + 1 /\ rename'.moves = m2 /\ rename'.moved = d2
    BY <1>0, <2>3 DEF Rename, SameRename
  <2>5. /\ source # move.to => d2 = Append(rename.moved, <<source, move.to>>)
        /\ source = move.to => d2 = rename.moved
    BY DEF d2
  <2>6. FileMoved
    <3> HIDE DEF source, move
    <3> SUFFICES /\ Movable(move) /\ source \in DOMAIN files
                 /\ move \in Move /\ move.to.folder = rename.to
                 /\ SameRename /\ rename'.pc = "files"
                 /\ rename'.folderMoved = rename.folderMoved
                 /\ rename'.next = rename.next + 1
                 /\ rename'.moves = m2
                 /\ \/ source = move.to /\ files' = files /\ rename'.moved = rename.moved
                    \/ /\ source # move.to /\ move.to \notin DOMAIN files
                       /\ files' = FileImage(files, source, move.to)
                       /\ rename'.moved = Append(rename.moved, <<source, move.to>>)
      BY DEF FileMoved, m2, source, move
    <3> QED  BY <1>2, <1>4, <2>1, <2>2, <2>4, <2>5
  <2> QED  BY <1>0, <1>1, <2>6
<1> QED  BY <1>3, <1>4

LEMMA HistoryStep == LibraryInv /\ History /\ [Next]_vars => History'
<1> SUFFICES ASSUME LibraryInv, History, [Next]_vars,
                    rename'.calm, ~rename'.stuck, rename'.pc \in {"folder", "files", "undo"}
             PROVE  /\ \E d : Trail(d, DiskBefore(rename'), rename'.moved, files')
                    /\ rename'.from.root \in mounted'
                    /\ \A n \in DOMAIN rename'.moved : rename'.moved[n][2].folder = rename'.to
                    /\ rename'.folderMoved =>
                         /\ rename'.from \notin folders' /\ rename'.to \in folders'
                         /\ \A p \in DOMAIN rename'.before : p.folder # rename'.to
  BY DEF History, DiskBefore
<1>0. /\ rename \in Rename /\ rename.moved \in Seq(Paths \X Paths)
      /\ files \in Disks /\ \A p \in DOMAIN files : p.folder \in folders
  BY DEF LibraryInv, RenameOK, Rename, DiskOK
<1> DEFINE UnderWay ==
             rename.calm /\ ~rename.stuck /\ rename.pc \in {"folder", "files", "undo"}
<1>1. UnderWay =>
        /\ \E d : Trail(d, DiskBefore(rename), rename.moved, files)
        /\ rename.from.root \in mounted
        /\ \A n \in DOMAIN rename.moved : rename.moved[n][2].folder = rename.to
        /\ rename.folderMoved => /\ rename.from \notin folders /\ rename.to \in folders
                                 /\ \A p \in DOMAIN rename.before : p.folder # rename.to
  BY DEF History
<1>2. CASE UNCHANGED <<fs, rename>>  BY <1>1, <1>2 DEF fs, DiskBefore
<1>3. CASE rename' = IdleRename  BY <1>3 DEF IdleRename
<1>4. CASE PlanRename
  <2>1. PICK i, order : i \in DOMAIN items /\ Planned(i, order)  BY <1>4, PlanRenameGives
  <2>2. /\ rename'.from = items[i].folder /\ rename'.moved = <<>>
        /\ ~rename'.folderMoved /\ rename'.before = files /\ Readable(items[i].folder)
    BY <2>1 DEF Planned
  <2>3. DiskBefore(rename') = files /\ UNCHANGED fs
    BY <1>4, <2>2, PlanRenameGives DEF DiskBefore
  <2>4. \E d : Trail(d, files, <<>>, files)  BY <1>0, TrailStarts
  <2>5. rename'.from.root \in mounted  BY <2>2 DEF Readable
  <2>6. DOMAIN rename'.moved = {}  BY <2>2
  <2> QED  BY <2>2, <2>3, <2>4, <2>5, <2>6 DEF fs
<1>5. CASE Undoing /\ UNCHANGED fs /\ rename.pc \in {"folder", "files"}
  <2>1. UnderWay /\ DiskBefore(rename') = DiskBefore(rename)
    BY <1>5, Undone DEF SameRename, DiskBefore
  <2> QED  BY <1>1, <1>5, <2>1, Undone DEF fs, SameRename
<1>6. CASE MoveFolder
  <2>1. CASE Undoing  
    <3>1. UNCHANGED fs
      <4>1. rename' # [rename EXCEPT !.pc = "files", !.folderMoved = TRUE]
        <5>1. rename'.pc = "undo"  BY <2>1, Undone
        <5>2. ASSUME rename' = [rename EXCEPT !.pc = "files", !.folderMoved = TRUE]
              PROVE  rename'.pc = "files"
          BY <1>0, <5>2 DEF Rename
        <5> QED  BY <5>1, <5>2
      <4> QED  BY <1>6, <4>1 DEF MoveFolder, fs
    <3> QED  BY <1>5, <1>6, <2>1, <3>1 DEF MoveFolder
  <2>2. CASE /\ Readable(rename.from) /\ rename.to \notin folders
             /\ MovedFolder(rename.from, rename.to)
             /\ rename' = [rename EXCEPT !.pc = "files", !.folderMoved = TRUE]
    <3>1. /\ SameRename /\ rename'.moved = rename.moved /\ rename'.folderMoved
          /\ rename.pc = "folder" /\ mounted' = mounted
      BY <1>0, <1>6, <2>2 DEF Rename, SameRename, MoveFolder
    <3>2. rename.moved = <<>> /\ ~rename.folderMoved /\ UnderWay /\ rename.from # rename.to
      BY <3>1 DEF SameRename, LibraryInv, RenameOK
    <3>3. files = rename.before
      <4>1. PICK d : Trail(d, rename.before, <<>>, files)
        BY <1>1, <3>2 DEF DiskBefore
      <4> QED  BY <4>1 DEF Trail
    <3>4. /\ files' = FolderImage(files, rename.from, rename.to)
          /\ folders' = (folders \ {rename.from}) \cup {rename.to}
      BY <2>2 DEF MovedFolder, FolderImage
    <3>5. files' \in Disks  BY <1>0, <3>4, FolderImageTyped
    <3>6. DiskBefore(rename') = files'  BY <3>1, <3>3, <3>4 DEF DiskBefore, SameRename
    <3>7. \E d : Trail(d, DiskBefore(rename'), rename'.moved, files')
      BY <3>1, <3>2, <3>5, <3>6, TrailStarts
    <3>8. \A p \in DOMAIN rename.before : p.folder # rename.to  BY <1>0, <2>2, <3>3
    <3>9. DOMAIN rename'.moved = {}  BY <3>1, <3>2
    <3> QED  BY <1>1, <3>1, <3>2, <3>4, <3>7, <3>8, <3>9 DEF SameRename
  <2> QED  BY <1>6, <2>1, <2>2 DEF MoveFolder
<1>7. CASE MoveFile
  <2>0. rename.pc = "files" /\ UNCHANGED <<folders, mounted>>  BY <1>7, MoveFileOutcomes
  <2>1. CASE files' = files /\ Undoing  BY <1>5, <2>0, <2>1 DEF fs
  <2>2. CASE FileMoved
    <3> DEFINE move == rename.moves[rename.next]
               source == SourceNow(move)
    <3>1. /\ source \in DOMAIN files /\ move.to \in Paths /\ move.to.folder = rename.to
          /\ SameRename /\ rename'.folderMoved = rename.folderMoved
      BY <2>2 DEF FileMoved, Move
    <3>2. UnderWay /\ DiskBefore(rename') = DiskBefore(rename)
      BY <2>0, <3>1 DEF SameRename, DiskBefore
    <3>3. PICK d : Trail(d, DiskBefore(rename), rename.moved, files)  BY <1>1, <3>2
    <3>4. CASE source = move.to /\ files' = files /\ rename'.moved = rename.moved
      BY <1>1, <2>0, <3>1, <3>2, <3>4 DEF SameRename
    <3>5. CASE /\ source # move.to /\ move.to \notin DOMAIN files
               /\ files' = FileImage(files, source, move.to)
               /\ rename'.moved = Append(rename.moved, <<source, move.to>>)
      <4> HIDE DEF source, move
      <4>1. \E e : Trail(e, DiskBefore(rename), Append(rename.moved, <<source, move.to>>),
                         FileImage(files, source, move.to))
        BY <1>0, <3>1, <3>3, <3>5, TrailGrows
      <4>2. \A n \in DOMAIN rename'.moved : rename'.moved[n][2].folder = rename'.to
        <5>1. \A n \in DOMAIN rename.moved : rename.moved[n][2].folder = rename.to
          BY <1>1, <3>2
        <5> DEFINE last == <<source, move.to>>
        <5>2. last[2].folder = rename.to  BY <3>1
        <5> HIDE DEF last
        <5>3. \A n \in DOMAIN Append(rename.moved, last) :
                Append(rename.moved, last)[n][2].folder = rename.to
          BY <1>0, <5>1, <5>2
        <5> QED  BY <3>1, <3>5, <5>3 DEF SameRename, last
      <4> QED  BY <1>1, <2>0, <3>1, <3>2, <3>5, <4>1, <4>2 DEF SameRename
    <3> QED  BY <2>2, <3>4, <3>5 DEF FileMoved
  <2> QED  BY <1>7, <2>1, <2>2, MoveFileOutcomes
<1>8. CASE CommitRename
  <2>1. UNCHANGED fs /\ rename.pc = "files"  BY <1>8 DEF CommitRename
  <2>2. ~CommittedPlan  BY <1>0 DEF CommittedPlan, Rename
  <2> QED  BY <1>5, <1>8, <2>1, <2>2, Committed
<1>9. CASE UndoFile
  <2> DEFINE back == Last(rename.moved)
  <2>1. /\ rename' = [rename EXCEPT !.moved = Front(rename.moved)]
        /\ rename.pc = "undo" /\ rename.moved # <<>> /\ UNCHANGED <<folders, mounted>>
    BY <1>0, <1>9 DEF UndoFile, Rename
  <2>2. /\ SameRename /\ rename'.moved = Front(rename.moved)
        /\ rename'.folderMoved = rename.folderMoved
    BY <1>0, <2>1 DEF Rename, SameRename
  <2>3. UnderWay /\ DiskBefore(rename') = DiskBefore(rename)
    BY <2>1, <2>2 DEF SameRename, DiskBefore
  <2>4. PICK d : Trail(d, DiskBefore(rename), rename.moved, files)  BY <1>1, <2>3
  <2>5. /\ back[2] \in DOMAIN files /\ back[1] \notin DOMAIN files
        /\ \E e : Trail(e, DiskBefore(rename), Front(rename.moved),
                        FileImage(files, back[2], back[1]))
    BY <1>0, <2>1, <2>4, TrailShrinks
  <2>6. \A n \in DOMAIN rename.moved : rename.moved[n][2].folder = rename.to  BY <1>1, <2>3
  <2>7. OnDisk(back[2])
    <3>1. back = rename.moved[Len(rename.moved)] /\ Len(rename.moved) \in DOMAIN rename.moved
      BY <1>0, <2>1 DEF Last
    <3>2. back[2].folder = rename.to  BY <2>6, <3>1
    <3>3. rename.to.root = rename.from.root  BY <2>1 DEF LibraryInv, RenameOK, PlanOK
    <3> QED  BY <1>1, <2>3, <2>5, <3>2, <3>3 DEF OnDisk
  <2>8. files' = FileImage(files, back[2], back[1])
    BY <1>9, <2>5, <2>7 DEF UndoFile, MovedFile, FileImage
  <2>9. \A n \in DOMAIN Front(rename.moved) : Front(rename.moved)[n][2].folder = rename.to
    <3>1. \A n \in DOMAIN Front(rename.moved) :
            n \in DOMAIN rename.moved /\ Front(rename.moved)[n] = rename.moved[n]
      <4>1. /\ Front(rename.moved) \in Seq(Paths \X Paths)
            /\ Len(Front(rename.moved)) = Len(rename.moved) - 1
            /\ \A n \in 1 .. Len(rename.moved) - 1 : Front(rename.moved)[n] = rename.moved[n]
        BY <1>0, <2>1, FrontOf
      <4> QED  BY <1>0, <4>1
    <3> QED  BY <2>6, <3>1
  <2> HIDE DEF back
  <2> QED  BY <1>1, <2>1, <2>2, <2>3, <2>5, <2>8, <2>9 DEF SameRename
<1>10. CASE UndoFolder
  <2>1. rename' = [rename EXCEPT !.pc = "refused"]  BY <1>10 DEF UndoFolder
  <2> QED  BY <1>0, <2>1 DEF Rename
<1>11. CASE RenameFails  BY <1>5, <1>11 DEF RenameFails
<1>12. ~UndoFails
  <2>1. UndoFails => rename'.stuck  BY <1>0 DEF UndoFails, Rename
  <2> QED  BY <2>1
<1> QED
  BY <1>2, <1>3, <1>4, <1>6, <1>7, <1>8, <1>9, <1>10, <1>11, <1>12, CalmRename

(* ------------------------ no file is ever lost ------------------------- *)

\* Each file of the disk d is on the disk e, at a place of its own.
Kept(d, e) ==
  \E now \in [DOMAIN d -> DOMAIN e] :
    IsInjective(now) /\ \A p \in DOMAIN d : e[now[p]] = d[p]

LEMMA KeptSame == ASSUME NEW d PROVE Kept(d, d)
<1> DEFINE now == [p \in DOMAIN d |-> p]
<1>1. now \in [DOMAIN d -> DOMAIN d] /\ IsInjective(now) /\ \A p \in DOMAIN d : d[now[p]] = d[p]
  BY DEF IsInjective
<1> QED  BY <1>1 DEF Kept

LEMMA KeptFurther ==
  ASSUME NEW d, NEW e, NEW f, Kept(d, e), Kept(e, f) PROVE Kept(d, f)
<1>1. PICK m \in [DOMAIN d -> DOMAIN e] :
        IsInjective(m) /\ \A p \in DOMAIN d : e[m[p]] = d[p]
  BY DEF Kept
<1>2. PICK n \in [DOMAIN e -> DOMAIN f] :
        IsInjective(n) /\ \A p \in DOMAIN e : f[n[p]] = e[p]
  BY DEF Kept
<1> DEFINE now == [p \in DOMAIN d |-> n[m[p]]]
<1>3. now \in [DOMAIN d -> DOMAIN f] /\ \A p \in DOMAIN d : f[now[p]] = d[p]
  BY <1>1, <1>2
<1>4. IsInjective(now)  BY <1>1, <1>2 DEF IsInjective
<1> QED  BY <1>3, <1>4 DEF Kept

LEMMA KeptFile ==
  ASSUME NEW d \in Disks, NEW s \in DOMAIN d, NEW t, t \notin DOMAIN d
  PROVE  Kept(d, FileImage(d, s, t))
<1> DEFINE e == FileImage(d, s, t)
           now == [p \in DOMAIN d |-> IF p = s THEN t ELSE p]
<1>1. /\ DOMAIN e = (DOMAIN d \ {s}) \cup {t}
      /\ \A p \in DOMAIN e : e[p] = IF p = t THEN d[s] ELSE d[p]
  BY DEF FileImage
<1> HIDE DEF e
<1>2. now \in [DOMAIN d -> DOMAIN e] /\ IsInjective(now)  BY <1>1 DEF IsInjective
<1>3. \A p \in DOMAIN d : e[now[p]] = d[p]  BY <1>1
<1>4. Kept(d, e)  BY <1>2, <1>3 DEF Kept
<1> QED  BY <1>4 DEF e

LEMMA KeptFolder ==
  ASSUME NEW d \in Disks, NEW a \in Folders, NEW b \in Folders,
         \A p \in DOMAIN d : p.folder # b
  PROVE  Kept(d, FolderImage(d, a, b))
<1> DEFINE there == {p \in Paths : p.folder = b /\ [p EXCEPT !.folder = a] \in DOMAIN d}
           e == FolderImage(d, a, b)
           to(p) == [p EXCEPT !.folder = b]
           now == [p \in DOMAIN d |-> IF p.folder = a THEN to(p) ELSE p]
<1>1. DOMAIN d \subseteq Paths  BY DiskMember
<1>2. /\ DOMAIN e = {p \in DOMAIN d : p.folder # a} \cup there
      /\ \A p \in DOMAIN e : e[p] = IF p \in there THEN d[[p EXCEPT !.folder = a]] ELSE d[p]
  BY DEF FolderImage
<1>3. \A p \in Paths : p.folder = a =>
        /\ to(p) \in Paths /\ to(p).folder = b /\ [to(p) EXCEPT !.folder = a] = p
  BY DEF Paths
<1>4. ASSUME NEW p \in DOMAIN d, p.folder = a
      PROVE  to(p) \in there /\ to(p) \in DOMAIN e /\ e[to(p)] = d[p]
  <2>1. to(p) \in there  BY <1>1, <1>3, <1>4
  <2> HIDE DEF there, e
  <2> QED  BY <1>1, <1>2, <1>3, <1>4, <2>1
<1>5. ASSUME NEW p \in DOMAIN d, p.folder # a
      PROVE  p \in DOMAIN e /\ e[p] = d[p]
  BY <1>2, <1>5
<1>6. \A p, q \in DOMAIN d : p.folder = a /\ q.folder = a /\ to(p) = to(q) => p = q
  BY <1>1, <1>3
<1>7. \A p \in DOMAIN d : p.folder = a => to(p) \notin DOMAIN d  BY <1>1, <1>3
<1> HIDE DEF e, there, to
<1>8. now \in [DOMAIN d -> DOMAIN e]  BY <1>4, <1>5
<1>9. \A p \in DOMAIN d : e[now[p]] = d[p]  BY <1>4, <1>5
<1>10. IsInjective(now)  BY <1>6, <1>7 DEF IsInjective
<1>11. Kept(d, e)  BY <1>8, <1>9, <1>10 DEF Kept
<1> QED  BY <1>11 DEF e

\* No move of a rename, or of its rollback, loses a file or writes over one.
LEMMA MovesKeepFiles ==
  ASSUME LibraryInv, MoveFolder \/ MoveFile \/ UndoFile \/ UndoFolder
  PROVE  Kept(files, files')
<1> USE DEF LibraryInv
<1>0. /\ rename \in Rename /\ files \in Disks
      /\ \A p \in DOMAIN files : p.folder \in folders
  BY DEF RenameOK, DiskOK
<1>1. CASE MoveFolder
  <2>1. CASE Readable(rename.from) /\ rename.to \notin folders
    <3>1. files' = FolderImage(files, rename.from, rename.to)
      BY <1>1, <2>1 DEF MoveFolder, MovedFolder, FolderImage
    <3>2. rename.from \in Folders /\ rename.to \in Folders
      BY <1>1 DEF MoveFolder, RenameOK, PlanOK
    <3>3. \A p \in DOMAIN files : p.folder # rename.to  BY <1>0, <2>1
    <3> QED  BY <1>0, <3>1, <3>2, <3>3, KeptFolder
  <2>2. CASE ~(Readable(rename.from) /\ rename.to \notin folders)
    <3>1. files' = files  BY <1>1, <2>2 DEF MoveFolder
    <3> QED  BY <3>1, KeptSame
  <2> QED  BY <2>1, <2>2
<1>2. CASE MoveFile
  <2>1. CASE files' = files  BY <2>1, KeptSame
  <2>2. CASE files' # files
    <3> DEFINE move == rename.moves[rename.next]
               source == SourceNow(move)
    <3>1. /\ source \in DOMAIN files /\ move.to \notin DOMAIN files
          /\ files' = FileImage(files, source, move.to)
      BY <1>2, <2>2, MoveFileOutcomes DEF FileMoved
    <3> HIDE DEF move, source
    <3> QED  BY <1>0, <3>1, KeptFile
  <2> QED  BY <2>1, <2>2
<1>3. CASE UndoFile
  <2> DEFINE back == Last(rename.moved)
  <2>1. CASE OnDisk(back[2]) /\ back[1] \notin DOMAIN files
    <3>1. files' = FileImage(files, back[2], back[1]) /\ back[2] \in DOMAIN files
      BY <1>3, <2>1 DEF UndoFile, MovedFile, FileImage, OnDisk
    <3> HIDE DEF back
    <3> QED  BY <1>0, <2>1, <3>1, KeptFile
  <2>2. CASE ~(OnDisk(back[2]) /\ back[1] \notin DOMAIN files)
    <3>1. files' = files  BY <1>3, <2>2 DEF UndoFile
    <3> QED  BY <3>1, KeptSame
  <2> QED  BY <2>1, <2>2
<1>4. CASE UndoFolder
  <2>1. CASE rename.folderMoved /\ Readable(rename.to) /\ rename.from \notin folders
    <3>1. files' = FolderImage(files, rename.to, rename.from)
      BY <1>4, <2>1 DEF UndoFolder, MovedFolder, FolderImage
    <3>2. rename.from \in Folders /\ rename.to \in Folders
      BY <1>4 DEF UndoFolder, RenameOK, PlanOK
    <3>3. \A p \in DOMAIN files : p.folder # rename.from  BY <1>0, <2>1
    <3> QED  BY <1>0, <3>1, <3>2, <3>3, KeptFolder
  <2>2. CASE ~(rename.folderMoved /\ Readable(rename.to) /\ rename.from \notin folders)
    <3>1. files' = files  BY <1>4, <2>2 DEF UndoFolder
    <3> QED  BY <3>1, KeptSame
  <2> QED  BY <2>1, <2>2
<1> QED  BY <1>1, <1>2, <1>3, <1>4

\* All that was there when a rename began is still there.
NothingLost == rename.calm /\ rename.pc # "idle" => Kept(rename.before, files)

LEMMA NothingLostStep == LibraryInv /\ NothingLost /\ [Next]_vars => NothingLost'
<1> SUFFICES ASSUME LibraryInv, NothingLost, [Next]_vars, rename'.calm, rename'.pc # "idle"
             PROVE  Kept(rename'.before, files')
  BY DEF NothingLost, Kept
<1>0. rename \in Rename  BY DEF LibraryInv, RenameOK
<1>1. CASE UNCHANGED <<fs, rename>>  BY <1>1 DEF NothingLost, fs
<1>2. CASE rename' = IdleRename  BY <1>2 DEF IdleRename
<1>3. CASE PlanRename
  <2>1. rename'.before = files /\ files' = files
    BY <1>3, PlanRenameGives DEF Planned, fs
  <2> QED  BY <2>1, KeptSame
<1>4. ASSUME rename'.before = rename.before, rename'.calm = rename.calm,
             rename.pc # "idle", Kept(files, files')
      PROVE  Kept(rename'.before, files')
  BY <1>4, KeptFurther DEF NothingLost
<1>5. CASE MoveFolder \/ MoveFile \/ UndoFile \/ UndoFolder
  <2>1. CASE Undoing /\ rename.pc # "idle"
    BY <1>4, <1>5, <2>1, MovesKeepFiles, Undone DEF SameRename
  <2>2. CASE MoveFolder /\ ~Undoing
    <3>1. rename' = [rename EXCEPT !.pc = "files", !.folderMoved = TRUE]
      BY <2>2 DEF MoveFolder
    <3>2. rename.pc = "folder"  BY <2>2 DEF MoveFolder
    <3> QED  BY <1>0, <1>4, <1>5, <3>1, <3>2, MovesKeepFiles DEF Rename
  <2>3. CASE MoveFile /\ ~Undoing
    BY <1>4, <1>5, <2>3, MovesKeepFiles, MoveFileOutcomes DEF FileMoved, SameRename
  <2>4. CASE UndoFile
    <3>1. rename'.before = rename.before /\ rename'.calm = rename.calm /\ rename.pc = "undo"
      BY <1>0, <2>4 DEF UndoFile, Rename
    <3> QED  BY <1>4, <1>5, <3>1, MovesKeepFiles
  <2>5. CASE UndoFolder
    <3>1. rename'.before = rename.before /\ rename'.calm = rename.calm /\ rename.pc = "undo"
      BY <1>0, <2>5 DEF UndoFolder, Rename
    <3> QED  BY <1>4, <1>5, <3>1, MovesKeepFiles
  <2>6. MoveFolder \/ MoveFile => rename.pc # "idle"  BY DEF MoveFolder, MoveFile
  <2> QED  BY <1>5, <2>1, <2>2, <2>3, <2>4, <2>5, <2>6
<1>6. CASE RenameFails \/ UndoFails \/ CommitRename
  <2>1. files' = files  BY <1>6 DEF RenameFails, UndoFails, CommitRename, fs
  <2>2. rename'.before = rename.before /\ rename'.calm = rename.calm /\ rename.pc # "idle"
    <3>1. CASE RenameFails  BY <3>1, Undone DEF RenameFails, SameRename
    <3>2. CASE UndoFails  BY <1>0, <3>2 DEF UndoFails, Rename
    <3>3. CASE CommitRename
      <4>1. rename.pc = "files"  BY <3>3 DEF CommitRename
      <4>2. CASE CommittedPlan  BY <1>0, <4>1, <4>2 DEF CommittedPlan, Rename
      <4>3. CASE Undoing  BY <4>1, <4>3, Undone DEF SameRename
      <4> QED  BY <3>3, <4>2, <4>3, Committed
    <3> QED  BY <1>6, <3>1, <3>2, <3>3
  <2>3. Kept(files, files')  BY <2>1, KeptSame
  <2> QED  BY <1>4, <2>2, <2>3
<1> QED  BY <1>1, <1>2, <1>3, <1>5, <1>6, CalmRename

\* A rename that fails, at any of its moves or in the database, loses no file
\* of the disk, even if moves of its rollback fail too; if none of them failed,
\* every file and the folder are back.  No other program touched the disk
\* meanwhile.
THEOREM RefusedRenamesLoseNothing == Spec => []FailedRenameRestoresDisk
<1> DEFINE Restored ==
             rename.pc = "refused" /\ rename.calm /\ ~rename.stuck => files = rename.before
<1>1. Init => History /\ Restored /\ NothingLost
  BY DEF Init, IdleRename, History, NothingLost
<1>2. LibraryInv /\ History /\ Restored /\ [Next]_vars => History' /\ Restored'
  <2> SUFFICES ASSUME LibraryInv, History, Restored, [Next]_vars PROVE Restored'
    BY HistoryStep
  <2> SUFFICES ASSUME rename'.pc = "refused", rename'.calm, ~rename'.stuck
               PROVE  files' = rename'.before
    OBVIOUS
  <2>0. rename \in Rename  BY DEF LibraryInv, RenameOK
  <2>1. CASE UNCHANGED <<fs, rename>>  BY <2>1 DEF fs
  <2>2. CASE UndoFolder
    <3>1. /\ rename.pc = "undo" /\ rename.moved = <<>> /\ rename.calm /\ ~rename.stuck
          /\ rename'.before = rename.before
      BY <2>0, <2>2 DEF UndoFolder, Rename
    <3>2. files = DiskBefore(rename)
      <4>1. PICK d : Trail(d, DiskBefore(rename), <<>>, files)  BY <3>1 DEF History
      <4> QED  BY <4>1 DEF Trail
    <3>3. CASE ~rename.folderMoved  BY <2>2, <3>1, <3>2, <3>3 DEF UndoFolder, DiskBefore
    <3>4. CASE rename.folderMoved
      <4>1. /\ rename.from \notin folders /\ rename.to \in folders
            /\ \A p \in DOMAIN rename.before : p.folder # rename.to
            /\ rename.from.root \in mounted
        BY <3>1, <3>4 DEF History
      <4>2. rename.to.root = rename.from.root /\ rename.from \in Folders
            /\ rename.to \in Folders /\ rename.before \in Disks
        BY <3>1 DEF LibraryInv, RenameOK, PlanOK, Rename
      <4>3. files' = FolderImage(files, rename.to, rename.from)
        BY <2>2, <3>4, <4>1, <4>2 DEF UndoFolder, Readable, MovedFolder, FolderImage
      <4> QED  BY <3>1, <3>2, <3>4, <4>1, <4>2, <4>3, FolderAndBack DEF DiskBefore
    <3> QED  BY <3>3, <3>4
  <2>3. ~PlanRename  BY PlanRenameGives DEF Planned
  <2>4. ~(MoveFolder \/ MoveFile \/ CommitRename \/ UndoFile \/ RenameFails \/ UndoFails)
    <3>1. ~Undoing  BY <2>0 DEF Undoing, Rename
    <3>2. ~MoveFolder
      <4>1. MoveFolder => Undoing \/ rename' = [rename EXCEPT !.pc = "files", !.folderMoved = TRUE]
        BY DEF MoveFolder
      <4>2. ASSUME rename' = [rename EXCEPT !.pc = "files", !.folderMoved = TRUE]
            PROVE  rename'.pc = "files"
        BY <2>0, <4>2 DEF Rename
      <4> QED  BY <3>1, <4>1, <4>2
    <3>3. ~MoveFile  BY <3>1, MoveFileOutcomes DEF FileMoved
    <3>4. ~CommitRename  BY <2>0, <3>1, Committed DEF CommittedPlan, Rename
    <3>5. ~UndoFile  BY <2>0 DEF UndoFile, Rename
    <3>6. ~RenameFails  BY <3>1 DEF RenameFails
    <3>7. ~UndoFails
      <4>1. UndoFails => rename'.stuck  BY <2>0 DEF UndoFails, Rename
      <4> QED  BY <4>1
    <3> QED  BY <3>2, <3>3, <3>4, <3>5, <3>6, <3>7
  <2>5. rename' # IdleRename  BY DEF IdleRename
  <2> QED  BY <2>1, <2>2, <2>3, <2>4, <2>5, CalmRename
<1>3. NothingLost /\ Restored => FailedRenameRestoresDisk
  BY DEF NothingLost, Kept, NoneLost, FailedRenameRestoresDisk
<1> QED  BY <1>1, <1>2, <1>3, NothingLostStep, LibraryInvariant, PTL DEF Spec
-----------------------------------------------------------------------------
(* ------------------- what a rename makes of the rows ------------------- *)

\* While nothing else touched the disk, and unless the plan has a path twice:
\* the files moved so far are at their new paths with the content noted, and
\* each file to come is where SourceNow says, at no path given out already.
PathsDiffer ==
  \A m, n \in DOMAIN rename.moves : rename.moves[m].from = rename.moves[n].from => m = n
InFolder(move) == rename.folderMoved => move.from.folder = rename.from
SameFile(row, move) ==
  /\ row.path.folder.dir = move.to.folder.dir /\ row.path.name = move.to.name
  /\ row.content = move.content
Arrived(n) ==
  /\ rename.moves[n].to \in DOMAIN files
  /\ files[rename.moves[n].to] = rename.moves[n].content
Progress ==
  rename.calm /\ PathsDiffer =>
    /\ rename.pc = "folder" =>
         \A m \in DOMAIN rename.moves : rename.moves[m].from \in DOMAIN files
    /\ rename.pc = "files" =>
         /\ \A n \in DOMAIN rename.moves : n < rename.next => Arrived(n)
         /\ \A m \in DOMAIN rename.moves :
              m >= rename.next /\ InFolder(rename.moves[m]) =>
                /\ SourceNow(rename.moves[m]) \in DOMAIN files
                /\ \A n \in DOMAIN rename.moves :
                     n < rename.next => SourceNow(rename.moves[m]) # rename.moves[n].to
    /\ rename.pc = "renamed" =>
         \A n \in DOMAIN rename.moves :
           /\ Arrived(n)
           /\ SameFile(rows[rename.moves[n].row], rename.moves[n])

\* Only a commit gives a row that is there another path in its root or another
\* content; a scan may give it to a copy of the file in another root.
LEMMA RowsKeepTheirFile ==
  ASSUME LibraryInv, [Next]_vars, ~CommitRename, NEW k \in DOMAIN rows
  PROVE  /\ rows'[k].path.folder.dir = rows[k].path.folder.dir
         /\ rows'[k].path.name = rows[k].path.name
         /\ rows'[k].content = rows[k].content
<1>1. CASE UNCHANGED rows  BY <1>1
<1>2. CASE UpsertFile
  <2>1. PICK i, j : UpsertedRow(j, i, scan.parsed[1], scan.parsed[2])  BY <1>2, Upserted
  <2> DEFINE p == scan.parsed[1]
             c == scan.parsed[2]
             r == [item |-> i, path |-> p, content |-> c, active |-> TRUE]
  <2>2. /\ rows' = Put(rows, j, r) /\ r.path = p /\ r.content = c
        /\ j \in DOMAIN rows =>
             /\ rows[j].path.folder.dir = p.folder.dir /\ rows[j].path.name = p.name
             /\ rows[j].content = c
    BY <2>1, SameFingerprint DEF UpsertedRow
  <2> HIDE DEF p, c, r
  <2> QED  BY <2>2 DEF Put
<1>3. CASE RescanOpen
  <2>1. rows[k] \in Row  BY DEF LibraryInv, RowsOK
  <2>2. rows'[k] = rows[k] \/ rows'[k] = [rows[k] EXCEPT !.active = FALSE]
    BY <1>3 DEF RescanOpen
  <2> QED  BY <2>1, <2>2 DEF Row
<1> QED  BY <1>1, <1>2, <1>3, WhoWritesRows

LEMMA SameMoves ==
  ASSUME rename'.moves = rename.moves PROVE PathsDiffer' <=> PathsDiffer
BY DEF PathsDiffer

LEMMA ProgressOfFolder ==
  ASSUME LibraryInv, Progress, MoveFolder, rename'.pc = "files", rename'.calm, PathsDiffer'
  PROVE  /\ \A n \in DOMAIN rename'.moves : n >= rename'.next
         /\ \A m \in DOMAIN rename'.moves :
              InFolder(rename.moves[m])' => SourceNow(rename.moves[m])' \in DOMAIN files'
<1>0. rename \in Rename /\ rename.pc = "folder" /\ rename.next = 1 /\ ~rename.folderMoved
  BY DEF LibraryInv, RenameOK, MoveFolder
<1>1. /\ MovedFolder(rename.from, rename.to)
      /\ rename' = [rename EXCEPT !.pc = "files", !.folderMoved = TRUE]
  <2>1. ~Undoing  BY <1>0 DEF Undoing, Rename
  <2> QED  BY <2>1 DEF MoveFolder
<1>2. /\ rename'.moves = rename.moves /\ rename'.next = 1 /\ rename'.folderMoved
      /\ rename'.from = rename.from /\ rename'.to = rename.to /\ rename'.calm = rename.calm
  BY <1>0, <1>1 DEF Rename
<1>3. rename.moves \in Seq(Move) /\ rename.to \in Folders
  BY <1>0 DEF Rename, LibraryInv, RenameOK, PlanOK
<1>4. \A m \in DOMAIN rename.moves : rename.moves[m].from \in DOMAIN files
  BY <1>0, <1>2, SameMoves DEF Progress
<1>5. ASSUME NEW m \in DOMAIN rename.moves, rename.moves[m].from.folder = rename.from
      PROVE  [rename.moves[m].from EXCEPT !.folder = rename.to] \in DOMAIN files'
  <2> DEFINE p == rename.moves[m].from
             q == [p EXCEPT !.folder = rename.to]
  <2>1. p \in Paths
    <3>1. rename.moves[m] \in Move  BY <1>3
    <3> QED  BY <3>1 DEF Move
  <2>2. q \in Paths /\ q.folder = rename.to /\ [q EXCEPT !.folder = rename.from] = p
    BY <1>3, <1>5, <2>1 DEF Paths
  <2>3. p \in DOMAIN files  BY <1>4
  <2> HIDE DEF p, q
  <2>4. q \in DOMAIN files'  BY <1>1, <2>2, <2>3 DEF MovedFolder
  <2> QED  BY <2>4 DEF p, q
<1>6. \A m \in DOMAIN rename.moves : m >= 1  BY <1>3
<1> QED  BY <1>2, <1>5, <1>6 DEF InFolder, SourceNow

LEMMA ProgressOfFile ==
  ASSUME LibraryInv, Progress, MoveFile, FileMoved, rename'.calm, PathsDiffer'
  PROVE  /\ \A n \in DOMAIN rename'.moves : n < rename'.next => Arrived(n)'
         /\ \A m \in DOMAIN rename'.moves :
              m >= rename'.next /\ InFolder(rename.moves[m])' =>
                /\ SourceNow(rename.moves[m])' \in DOMAIN files'
                /\ \A n \in DOMAIN rename'.moves : n < rename'.next =>
                     SourceNow(rename.moves[m])' # rename'.moves[n].to
<1> DEFINE x == rename.next
           move == rename.moves[x]
           source == SourceNow(move)
<1>0. /\ rename \in Rename /\ rename.moves \in Seq(Move) /\ x \in Nat
      /\ rename.pc = "files" /\ x \in DOMAIN rename.moves
  BY MoveFileOutcomes DEF LibraryInv, RenameOK, Rename
<1>1. /\ Movable(move) /\ source \in DOMAIN files /\ move \in Move
      /\ SameRename /\ rename'.folderMoved = rename.folderMoved /\ rename'.next = x + 1
      /\ rename'.moves = [rename.moves EXCEPT ![x].content = files[source]]
      /\ \/ source = move.to /\ files' = files
         \/ /\ source # move.to /\ move.to \notin DOMAIN files
            /\ files' = FileImage(files, source, move.to)
  BY DEF FileMoved
<1> DEFINE r == [move EXCEPT !.content = files[source]]
<1>r. r.from = move.from /\ r.to = move.to /\ r.content = files[source]  BY <1>1 DEF Move
<1>m. rename'.moves = [rename.moves EXCEPT ![x] = r]  BY <1>0, <1>1
<1> HIDE DEF r, source, move
<1>2. /\ DOMAIN rename'.moves = DOMAIN rename.moves /\ rename'.moves[x] = r
      /\ \A n \in DOMAIN rename.moves : n # x => rename'.moves[n] = rename.moves[n]
  BY <1>0, <1>m
<1>3. /\ \A n \in DOMAIN rename.moves : /\ rename'.moves[n].from = rename.moves[n].from
                                       /\ rename'.moves[n].to = rename.moves[n].to
      /\ PathsDiffer
  <2>1. ASSUME NEW n \in DOMAIN rename.moves
        PROVE  /\ rename'.moves[n].from = rename.moves[n].from
               /\ rename'.moves[n].to = rename.moves[n].to
    <3>1. CASE n = x  BY <1>2, <1>r, <3>1 DEF move
    <3>2. CASE n # x  BY <1>2, <3>2
    <3> QED  BY <3>1, <3>2
  <2>2. \A m, n \in DOMAIN rename.moves :
          rename'.moves[m].from = rename'.moves[n].from => m = n
    BY <1>2 DEF PathsDiffer
  <2> QED  BY <2>1, <2>2 DEF PathsDiffer
<1> USE DEF source, move
<1>4. /\ \A n \in DOMAIN rename.moves : n < x => Arrived(n)
      /\ \A m \in DOMAIN rename.moves :
           m >= x /\ InFolder(rename.moves[m]) =>
             /\ SourceNow(rename.moves[m]) \in DOMAIN files
             /\ \A n \in DOMAIN rename.moves :
                  n < x => SourceNow(rename.moves[m]) # rename.moves[n].to
  BY <1>0, <1>1, <1>3 DEF Progress, SameRename
\* The file is moved, and no other file of the plan.
<1>5. /\ move.to \in DOMAIN files' /\ files'[move.to] = files[source]
      /\ \A p \in DOMAIN files : p # source =>
           p \in DOMAIN files' /\ files'[p] = files[p] /\ (p # move.to \/ source = move.to)
      /\ source = move.to => files' = files
  BY <1>1 DEF FileImage
<1>6. \A m \in DOMAIN rename.moves :
        SourceNow(rename.moves[m])' = SourceNow(rename.moves[m])
        /\ (InFolder(rename.moves[m])' <=> InFolder(rename.moves[m]))
  BY <1>1, <1>3 DEF SourceNow, InFolder, SameRename
<1>7. InFolder(move)  BY <1>1 DEF Movable, InFolder
<1>8. ASSUME NEW n \in DOMAIN rename.moves, n < x + 1 PROVE Arrived(n)'
  <2>1. CASE n = x
    <3> HIDE DEF source, move
    <3>1. rename'.moves[n].to = move.to /\ rename'.moves[n].content = files[source]
      BY <1>2, <1>r, <2>1
    <3> QED  BY <1>5, <3>1 DEF Arrived
  <2>2. CASE n # x
    <3>1. n < x /\ Arrived(n)  BY <1>0, <1>4, <1>8, <2>2
    <3>2. source # rename.moves[n].to  BY <1>0, <1>4, <1>7, <3>1
    <3>3. rename'.moves[n] = rename.moves[n]
      <4> HIDE DEF x, source, move
      <4> QED  BY <1>2, <2>2
    <3> HIDE DEF source, move
    <3>4. rename.moves[n].to \in DOMAIN files'
          /\ files'[rename.moves[n].to] = files[rename.moves[n].to]
      BY <1>5, <3>1, <3>2 DEF Arrived
    <3> QED  BY <3>1, <3>3, <3>4 DEF Arrived
  <2> QED  BY <2>1, <2>2
<1>9. ASSUME NEW m \in DOMAIN rename.moves, m >= x + 1, InFolder(rename.moves[m])
      PROVE  /\ SourceNow(rename.moves[m]) \in DOMAIN files'
             /\ \A n \in DOMAIN rename.moves :
                  n < x + 1 => SourceNow(rename.moves[m]) # rename.moves[n].to
  <2> DEFINE here == SourceNow(rename.moves[m])
  <2>1. /\ m \in Nat /\ m >= x /\ m # x  BY <1>0, <1>9
  <2>2. /\ here \in DOMAIN files
        /\ \A n \in DOMAIN rename.moves : n < x => here # rename.moves[n].to
    BY <1>4, <1>9, <2>1
  <2>3. here # source
    <3>1. rename.moves[m].from # move.from  BY <1>0, <1>3, <2>1 DEF PathsDiffer
    <3>2. rename.moves[m].from \in Paths /\ move.from \in Paths
      <4>1. rename.moves[m] \in Move  BY <1>0
      <4> QED  BY <1>1, <4>1 DEF Move
    <3> QED  BY <1>7, <1>9, <3>1, <3>2 DEF SourceNow, InFolder, Paths
  <2> HIDE DEF here, source, move
  <2>4. here \in DOMAIN files' /\ here # move.to  BY <1>5, <2>2, <2>3
  <2>5. \A n \in DOMAIN rename.moves : n < x + 1 => n < x \/ n = x  BY <1>0
  <2> QED  BY <2>2, <2>4, <2>5 DEF here, move
<1> HIDE DEF source, move
<1> QED  BY <1>1, <1>2, <1>3, <1>6, <1>8, <1>9

LEMMA ProgressStep == LibraryInv /\ Progress /\ [Next]_vars => Progress'
<1> SUFFICES ASSUME LibraryInv, Progress, [Next]_vars, rename'.calm, PathsDiffer'
             PROVE  Progress'
  BY DEF Progress
<1>0. rename \in Rename /\ \A n \in DOMAIN rename.moves : rename.moves[n] \in Move
  <2>1. rename \in Rename /\ rename.moves \in Seq(Move)  BY DEF LibraryInv, RenameOK, Rename
  <2> QED  BY <2>1
<1>1. CASE UNCHANGED <<fs, rename>>
  <2>1. ~CommitRename
    <3>1. CASE Undoing  BY <1>0, <1>1, <3>1 DEF Undoing, CommitRename, Rename
    <3>2. CASE rename' = [rename EXCEPT !.pc = "renamed"]
      BY <1>0, <1>1, <3>2 DEF CommitRename, Rename
    <3> QED  BY <3>1, <3>2 DEF CommitRename
  <2>2. \A n \in DOMAIN rename.moves :
          rename.pc # "idle" /\ SameFile(rows[rename.moves[n].row], rename.moves[n]) =>
            SameFile(rows'[rename.moves[n].row], rename.moves[n])
    BY <2>1, RowsKeepTheirFile DEF SameFile, LibraryInv, RenameOK, PlanOK
  <2> QED  BY <1>1, <2>2 DEF Progress, PathsDiffer, Arrived, InFolder, SourceNow, fs
<1>2. CASE rename' = IdleRename  BY <1>2 DEF Progress, IdleRename
<1>3. CASE Undoing
  <2>1. rename'.pc = "undo"  BY <1>3, Undone
  <2> QED  BY <2>1 DEF Progress
<1>4. CASE PlanRename
  <2>0. PICK i \in DOMAIN items :
          \E order \in SetToSeqs(ActiveOf(rows, i)) : Planned(i, order)
    BY <1>4, PlanRenameGives
  <2>1. PICK order \in SetToSeqs(ActiveOf(rows, i)) : Planned(i, order)
    BY <2>0
  <2> DEFINE target == TargetOf(items[i])
             moves == PlannedNames(order, target)
  <2>2. /\ \A n \in DOMAIN order : PlannedNames(order, target)[n].to \in Paths
        /\ rename'.moves = moves /\ ~rename'.folderMoved /\ rename'.next = 1
        /\ rename'.pc \in {"folder", "files"}
        /\ \A k \in ActiveOf(rows, i) : OnDisk(rows[k].path)
    BY <2>1 DEF Planned
  <2> HIDE DEF target
  <2>3. /\ moves \in Seq(Move)
        /\ \A n \in DOMAIN moves : /\ moves[n].row \in ActiveOf(rows, i)
                                   /\ moves[n].from = rows[moves[n].row].path
    BY <2>2, PlanTyped
  <2> HIDE DEF moves
  <2>4. \A n \in DOMAIN moves : moves[n].from \in DOMAIN files  BY <2>2, <2>3 DEF OnDisk
  <2>5. \A n \in DOMAIN moves : ~(n < 1)  BY <2>3
  <2>6. files' = files  BY <1>4, PlanRenameGives DEF fs
  <2> QED  BY <2>2, <2>4, <2>5, <2>6 DEF Progress, SourceNow
<1>5. CASE MoveFolder
  <2>1. CASE rename'.pc = "files"
    <3>1. /\ \A n \in DOMAIN rename'.moves : n >= rename'.next
          /\ \A m \in DOMAIN rename'.moves :
               InFolder(rename.moves[m])' => SourceNow(rename.moves[m])' \in DOMAIN files'
      BY <1>5, <2>1, ProgressOfFolder
    <3>2. \A n \in DOMAIN rename'.moves : ~(n < rename'.next)
      <4>1. rename' \in Rename  BY RenameStepTyped DEF RenameOK
      <4>2. rename'.moves \in Seq(Move) /\ rename'.next \in Nat  BY <4>1 DEF Rename
      <4> QED  BY <3>1, <4>2
    <3> QED  BY <2>1, <3>1, <3>2 DEF Progress
  <2>2. CASE rename'.pc # "files"
    <3>1. Undoing \/ rename' = [rename EXCEPT !.pc = "files", !.folderMoved = TRUE]
      BY <1>5 DEF MoveFolder
    <3>2. ASSUME rename' = [rename EXCEPT !.pc = "files", !.folderMoved = TRUE]
          PROVE  rename'.pc = "files"
      BY <1>0, <3>2 DEF Rename
    <3> QED  BY <1>3, <2>2, <3>1, <3>2
  <2> QED  BY <2>1, <2>2
<1>6. CASE MoveFile
  <2>1. CASE FileMoved
    <3>1. rename'.pc = "files"  BY <2>1 DEF FileMoved
    <3> QED  BY <1>6, <2>1, <3>1, ProgressOfFile DEF Progress
  <2> QED  BY <1>3, <1>6, <2>1, MoveFileOutcomes
<1>7. CASE CommitRename
  <2>1. CASE CommittedPlan
    <3>1. /\ rename'.pc = "renamed" /\ rename'.moves = rename.moves
          /\ rename'.calm = rename.calm
      BY <1>0, <2>1 DEF CommittedPlan, Rename
    <3>2. rename.pc = "files" /\ files' = files /\ rename.next > Len(rename.moves)
      BY <1>7 DEF CommitRename, fs
    <3>3. \A n \in DOMAIN rename.moves : n < rename.next
      <4>1. rename.moves \in Seq(Move) /\ rename.next \in Nat  BY <1>0 DEF Rename
      <4> QED  BY <3>2, <4>1
    <3>4. PathsDiffer  BY <3>1, SameMoves
    <3>5. \A n \in DOMAIN rename.moves : Arrived(n)
      BY <3>1, <3>2, <3>3, <3>4 DEF Progress
    <3>6. \A n \in DOMAIN rename.moves :
            SameFile(rows'[rename.moves[n].row], rename.moves[n])
      <4> SUFFICES ASSUME NEW n \in DOMAIN rename.moves
                   PROVE  SameFile(rows'[rename.moves[n].row], rename.moves[n])
        OBVIOUS
      <4> DEFINE t == rename.moves[n].to
                 p == InRoot(t, items[rows[rename.moves[n].row].item].root)
      <4>1. rows'[rename.moves[n].row].path = p
            /\ rows'[rename.moves[n].row].content = rename.moves[n].content
        BY <2>1 DEF CommittedPlan
      <4>2. p.folder.dir = t.folder.dir /\ p.name = t.name  BY DEF InRoot
      <4> HIDE DEF p
      <4> QED  BY <4>1, <4>2 DEF SameFile
    <3> QED  BY <3>1, <3>2, <3>5, <3>6 DEF Progress, Arrived
  <2>2. CASE Undoing  BY <1>3, <2>2
  <2> QED  BY <1>7, <2>1, <2>2, Committed
<1>8. CASE UndoFile \/ UndoFolder
  <2>1. rename'.pc \in {"undo", "refused"}
    BY <1>0, <1>8 DEF UndoFile, UndoFolder, Rename
  <2> QED  BY <2>1 DEF Progress
<1>9. CASE RenameFails  BY <1>3, <1>9 DEF RenameFails
<1>10. CASE UndoFails
  <2>1. rename'.pc \in {"undo", "refused"}  BY <1>0, <1>10 DEF UndoFails, Rename
  <2> QED  BY <2>1 DEF Progress
<1> QED  BY <1>1, <1>2, <1>4, <1>5, <1>6, <1>7, <1>8, <1>9, <1>10, CalmRename

\* A rename that succeeds leaves each file it moved where the tables say it is,
\* with the content they say, even if a scan ran at the same time, unless the
\* plan had two rows of one path or the scan gave the row to a copy of the file
\* in another root.
THEOREM RenamedFilesAreWhereTheRowsSay == Spec => []RenamedRowsExist
<1>1. Init => Progress  BY DEF Init, IdleRename, Progress
<1>2. LibraryInv /\ Progress => RenamedRowsExist
  <2> SUFFICES ASSUME LibraryInv, Progress, rename.pc = "renamed", rename.calm, PathsDiffer,
                      NEW n \in DOMAIN rename.moves,
                      rows[rename.moves[n].row].path.folder.root = rename.to.root
               PROVE  /\ rows[rename.moves[n].row].path \in DOMAIN files
                      /\ rows[rename.moves[n].row].content =
                           files[rows[rename.moves[n].row].path]
    BY DEF RenamedRowsExist, PathsDiffer
  <2> DEFINE p == rows[rename.moves[n].row].path
             t == rename.moves[n].to
  <2>1. Arrived(n) /\ SameFile(rows[rename.moves[n].row], rename.moves[n])
    BY DEF Progress
  <2>2. p \in Paths
    <3>1. rows[rename.moves[n].row] \in Row
      BY DEF LibraryInv, RowsOK, RenameOK, PlanOK
    <3> QED  BY <3>1 DEF Row
  <2>3. t \in Paths /\ t.folder = rename.to
    <3>1. rename.moves[n] \in Move  BY DEF LibraryInv, RenameOK, Rename
    <3> QED  BY <3>1 DEF Move, LibraryInv, RenameOK, PlanOK
  <2>4. p.folder.root = t.folder.root /\ p.folder.dir = t.folder.dir /\ p.name = t.name
    BY <2>1, <2>3 DEF SameFile
  <2> HIDE DEF p, t
  <2>5. p = t
    <3>1. p.folder \in Folders /\ t.folder \in Folders
      BY <2>2, <2>3 DEF Paths
    <3>2. p.folder = t.folder  BY <2>4, <3>1 DEF Folders
    <3> QED  BY <2>2, <2>3, <2>4, <3>2 DEF Paths
  <2> QED  BY <2>1, <2>5 DEF Arrived, SameFile, p, t
<1> QED  BY <1>1, <1>2, ProgressStep, LibraryInvariant, PTL DEF Spec
-----------------------------------------------------------------------------
(* ---------------------- what a full scan has found --------------------- *)

\* A full scan that nothing disturbed so far, and the files it still has to see.
FullScan ==
  scan.calm /\ scan.item = 0 /\ scan.pc \in {"root", "walk", "match", "completed"}
Ahead(p) ==
  \/ scan.pc = "root" /\ p.folder.root \in Range(scan.roots)
  \/ /\ scan.pc = "walk"
     /\ \/ p.folder.root \in Range(Tail(scan.roots))
        \/ p.folder \in scan.dirs
        \/ p \in scan.files
        \/ scan.parsed # <<>> /\ scan.parsed[1] = p

\* Where the scan stands: each root once, and in one root at a time.
Position ==
  /\ IsInjective(scan.roots)
  /\ scan.pc = "root" => scan.files = {} /\ scan.parsed = <<>>
  /\ scan.pc \in {"match", "completed"} => scan.roots = <<>>
  /\ scan.pc = "walk" =>
       /\ \A f \in scan.dirs : f.root = Head(scan.roots)
       /\ \A p \in scan.files : /\ p \in DOMAIN files /\ OnDisk(p)
                                /\ p.folder.root = Head(scan.roots)
                                /\ p.folder \notin scan.dirs
       /\ scan.parsed # <<>> =>
            /\ OnDisk(scan.parsed[1]) /\ scan.parsed[2] = files[scan.parsed[1]]
            /\ scan.parsed[1].folder.root = Head(scan.roots)
            /\ scan.parsed[1].folder \notin scan.dirs /\ scan.parsed[1] \notin scan.files

\* Each file behind the scan, or a copy of it, is an active file of an item the
\* scan has seen; each item it has seen has a file behind it, or one with a copy
\* in another root; and an item of a root behind the scan is available only if
\* it has been seen.
FoundAs(p) ==
  \E q \in Copies(p), i \in scan.seen :
    items[i].available /\ items[i].norm = TitleIn[p.folder.dir] /\ HasRow(q, i)
FileOf(p, i) ==
  /\ p.folder.root = items[i].root /\ TitleIn[p.folder.dir] = items[i].norm
  /\ HasRow(p, i) \/ Copies(p) # {p}
Found == \A p \in DOMAIN files : OnDisk(p) /\ ~Ahead(p) => FoundAs(p)
Backed == \A i \in scan.seen : \E p \in DOMAIN files : ~Ahead(p) /\ FileOf(p, i)
StaleGone ==
  \A i \in DOMAIN items :
    items[i].available /\ items[i].root \in mounted /\ items[i].root \notin Range(scan.roots)
      => i \in scan.seen
ScanInv == FullScan => Position /\ Found /\ Backed /\ StaleGone

LEMMA HeadAndTail ==
  ASSUME NEW S, NEW s \in Seq(S), s # <<>>
  PROVE  /\ Range(s) = {Head(s)} \cup Range(Tail(s))
         /\ IsInjective(s) => IsInjective(Tail(s)) /\ Head(s) \notin Range(Tail(s))
<1>1. PICK n \in Nat : Len(s) = n + 1
  <2>1. Len(s) \in Nat \ {0}  OBVIOUS
  <2> QED  BY <2>1
<1>2. DOMAIN s = 1 .. n + 1 /\ DOMAIN Tail(s) = 1 .. n /\ Head(s) = s[1]  BY <1>1
<1>3. \A k \in 1 .. n : Tail(s)[k] = s[k + 1]  BY <1>1
<1>4. \A k \in 1 .. n + 1 : k = 1 \/ (k - 1 \in 1 .. n /\ k = (k - 1) + 1)  OBVIOUS
<1>5. \A k \in 1 .. n : k + 1 \in 1 .. n + 1 /\ k + 1 # 1  OBVIOUS
<1>6. Range(s) = {Head(s)} \cup Range(Tail(s))
  <2>1. \A k \in DOMAIN s : s[k] \in {Head(s)} \cup Range(Tail(s))
    <3> SUFFICES ASSUME NEW k \in 1 .. n + 1, k # 1 PROVE s[k] \in Range(Tail(s))
      BY <1>2
    <3>1. k - 1 \in 1 .. n /\ Tail(s)[k - 1] = s[k]  BY <1>3, <1>4
    <3> QED  BY <1>2, <3>1 DEF Range
  <2>2. \A k \in DOMAIN Tail(s) : Tail(s)[k] \in Range(s)  BY <1>2, <1>3, <1>5 DEF Range
  <2>3. Head(s) \in Range(s)  BY <1>2 DEF Range
  <2> QED  BY <2>1, <2>2, <2>3 DEF Range
<1>7. ASSUME IsInjective(s) PROVE IsInjective(Tail(s)) /\ Head(s) \notin Range(Tail(s))
  <2>1. \A j, k \in 1 .. n : Tail(s)[j] = Tail(s)[k] => j = k
    <3> SUFFICES ASSUME NEW j \in 1 .. n, NEW k \in 1 .. n, Tail(s)[j] = Tail(s)[k]
                 PROVE  j = k
      OBVIOUS
    <3>1. s[j + 1] = s[k + 1] /\ j + 1 \in DOMAIN s /\ k + 1 \in DOMAIN s  BY <1>2, <1>3, <1>5
    <3>2. j + 1 = k + 1  BY <1>7, <3>1 DEF IsInjective
    <3> QED  BY <3>2
  <2>2. \A k \in 1 .. n : Tail(s)[k] # Head(s)
    <3> SUFFICES ASSUME NEW k \in 1 .. n, Tail(s)[k] = Head(s) PROVE FALSE  OBVIOUS
    <3>1. s[k + 1] = s[1] /\ k + 1 \in DOMAIN s /\ 1 \in DOMAIN s  BY <1>2, <1>3, <1>5
    <3>2. k + 1 = 1  BY <1>7, <3>1 DEF IsInjective
    <3> QED  BY <1>5, <3>2
  <2> QED  BY <1>2, <2>1, <2>2 DEF IsInjective, Range
<1> QED  BY <1>6, <1>7

LEMMA CalmScan ==
  ASSUME LibraryInv, [Next]_vars, scan'.calm
  PROVE  \/ UNCHANGED <<fs, db, scan>>
         \/ scan' = IdleScan
         \/ StartScan \/ EnterRoot \/ WalkFolder \/ StatFile \/ UpsertFile \/ StalePass
         \/ ReadUnmatched \/ MatchItem \/ RescanOpen \/ RescanClose \/ ScanDone \/ ScanFails
<1>1. ~ScanDisturbed  BY DEF ScanDisturbed, LibraryInv, ScanOK, Scan
<1>2. /\ ~MoveFolder /\ ~MoveFile /\ ~CommitRename /\ ~UndoFile /\ ~UndoFolder /\ ~AddFile
      /\ ~RemoveFile /\ ~MountChanges /\ ~ManualMatch /\ ~UndoFails
  BY <1>1 DEF UndoFails, MoveFolder, MoveFile, CommitRename, UndoFile, UndoFolder, AddFile, RemoveFile,
     MountChanges, Disturbed, ManualMatch, ScanDisturbed
<1>3. PlanRename \/ EndRename \/ RenameFails \/ UNCHANGED vars => UNCHANGED <<fs, db, scan>>
  BY DEF PlanRename, EndRename, RenameFails, vars, fs, db
<1>4. Crash \/ FinishScan => scan' = IdleScan  BY DEF Crash, FinishScan
<1> QED  BY <1>2, <1>3, <1>4 DEF Next, ScanStep, RenameStep, Environment

\* A step that writes no row, leaves the items seen as they were, and neither
\* loses nor adds a file to see.
LEMMA SeenStay ==
  ASSUME UNCHANGED <<fs, rows>>, scan'.seen = scan.seen,
         \A j \in scan.seen : /\ items[j].available => items'[j].available
                              /\ items'[j].norm = items[j].norm /\ items'[j].root = items[j].root,
         \A p \in DOMAIN files : OnDisk(p) /\ Ahead(p) => Ahead(p)',
         \A p \in DOMAIN files : Ahead(p)' => Ahead(p),
         Found, Backed
  PROVE  Found' /\ Backed'
<1>1. files' = files /\ mounted' = mounted /\ rows' = rows /\ scan'.seen = scan.seen
  BY DEF fs
<1>2. \A p : OnDisk(p)' <=> OnDisk(p)  BY <1>1 DEF OnDisk
<1>3. \A p, i : HasRow(p, i)' <=> HasRow(p, i)  BY <1>1 DEF HasRow, ActiveOf, RowsOf
<1>4. \A p : Copies(p)' = Copies(p)  BY <1>1 DEF Copies, OnDisk
<1>5. \A p \in DOMAIN files : FoundAs(p) => FoundAs(p)'  BY <1>1, <1>3, <1>4 DEF FoundAs
<1>6. \A p \in DOMAIN files : \A i \in scan.seen : FileOf(p, i) => FileOf(p, i)'
  BY <1>1, <1>3, <1>4 DEF FileOf
<1>7. Found'  BY <1>1, <1>2, <1>5 DEF Found
<1>8. Backed'  BY <1>1, <1>6 DEF Backed
<1> QED  BY <1>7, <1>8

\* A step that writes no table and neither loses nor adds a file to see.
LEMMA NothingMissed ==
  ASSUME UNCHANGED <<fs, db>>, scan'.seen = scan.seen,
         \A p \in DOMAIN files : OnDisk(p) /\ Ahead(p) => Ahead(p)',
         \A p \in DOMAIN files : Ahead(p)' => Ahead(p),
         \A r \in mounted : r \in Range(scan.roots) => r \in Range(scan'.roots),
         Found, Backed, StaleGone
  PROVE  Found' /\ Backed' /\ StaleGone'
<1>1. mounted' = mounted /\ items' = items /\ rows' = rows  BY DEF fs, db
<1>2. Found' /\ Backed'  BY <1>1, SeenStay
<1>3. StaleGone'  BY <1>1 DEF StaleGone
<1> QED  BY <1>2, <1>3

\* The items and rows after a file was upserted: the file is behind the scan.
LEMMA ScanUpserts ==
  ASSUME LibraryInv, FullScan, Position, Found, Backed, StaleGone, UpsertFile, scan'.calm
  PROVE  Position' /\ Found' /\ Backed' /\ StaleGone'
<1>p. PICK p : p = scan.parsed[1]  OBVIOUS
<1>c. PICK c : c = scan.parsed[2]  OBVIOUS
<1>0. scan \in Scan /\ scan.pc = "walk" /\ scan.parsed # <<>> /\ UNCHANGED fs
  BY DEF LibraryInv, ScanOK, UpsertFile
<1>1. PICK i, k : /\ UpsertedItem(i, p) /\ UpsertedRow(k, i, p, c)
                  /\ scan' = [scan EXCEPT !.parsed = <<>>, !.seen = @ \cup {i}]
  BY <1>p, <1>c, Upserted
<1>2. /\ scan'.pc = "walk" /\ scan'.roots = scan.roots /\ scan'.dirs = scan.dirs
      /\ scan'.files = scan.files /\ scan'.parsed = <<>> /\ scan'.seen = scan.seen \cup {i}
  BY <1>0, <1>1 DEF Scan
<1>3. /\ p \in DOMAIN files /\ c = files[p]
      /\ p.folder.root = Head(scan.roots) /\ p.folder \notin scan.dirs /\ p \notin scan.files
      /\ IsInjective(scan.roots)
  BY <1>0, <1>p, <1>c DEF Position, OnDisk
<1>4. /\ files' = files /\ mounted' = mounted  BY <1>0 DEF fs
<1>5. p.folder.root \notin Range(Tail(scan.roots))
  <2>1. scan.roots \in Seq(Range(Roots)) /\ scan.roots # <<>>
    BY <1>0 DEF FullScan, LibraryInv, ScanOK, Scan
  <2> QED  BY <1>3, <2>1, HeadAndTail
<1>6. Position'
  BY <1>0, <1>2, <1>4 DEF Position, OnDisk
<1>d. OnDisk(p)  BY <1>0, <1>p DEF Position
\* Of the files, p alone is no longer ahead.
<1>7. \A q : ~Ahead(q) => ~Ahead(q)' /\ q # p
  BY <1>0, <1>2, <1>p, <1>3, <1>5 DEF Ahead
<1>8. \A q : ~Ahead(q)' => ~Ahead(q) \/ q = p
  BY <1>0, <1>2, <1>p, <1>3, <1>5 DEF Ahead
<1>9. ~Ahead(p)'  BY <1>2, <1>3, <1>5 DEF Ahead
<1> DEFINE r == [item |-> i, path |-> p, content |-> c, active |-> TRUE]
<1>10. /\ rows' = Put(rows, k, r) /\ r.item = i /\ r.path = p /\ r.content = c /\ r.active
       /\ k \in DOMAIN rows => Fingerprint(rows[k].path, rows[k].content) = Fingerprint(p, c)
  BY <1>1 DEF UpsertedRow
<1> HIDE DEF r
<1>11. /\ k \in DOMAIN rows' /\ rows'[k] = r
       /\ \A j \in DOMAIN rows : j # k => j \in DOMAIN rows' /\ rows'[j] = rows[j]
  BY <1>10 DEF Put
<1>12. HasRow(p, i)'
  BY <1>3, <1>4, <1>10, <1>11 DEF HasRow, ActiveOf, RowsOf
\* The row written was that of a copy of p, if it was any.
<1>13. ASSUME NEW q \in DOMAIN files, NEW j, HasRow(q, j),
              Fingerprint(q, files[q]) # Fingerprint(p, files[p])
       PROVE  HasRow(q, j)'
  <2>1. PICK l \in DOMAIN rows : /\ rows[l].item = j /\ rows[l].active /\ rows[l].path = q
                                 /\ rows[l].content = files[q]
    BY <1>13 DEF HasRow, ActiveOf, RowsOf
  <2>2. l # k  BY <1>3, <1>10, <1>13, <2>1
  <2>3. l \in DOMAIN rows' /\ rows'[l] = rows[l]  BY <1>11, <2>1, <2>2
  <2> QED  BY <1>4, <2>1, <2>3 DEF HasRow, ActiveOf, RowsOf
<1>14. /\ i \in DOMAIN items' /\ items'[i].available /\ items'[i].norm = TitleIn[p.folder.dir]
       /\ items'[i].root = p.folder.root
       /\ \A j \in DOMAIN items : j # i => j \in DOMAIN items' /\ items'[j] = items[j]
       /\ \A j \in DOMAIN items' : j = i \/ j \in DOMAIN items
       /\ i \in DOMAIN items => items'[i].norm = items[i].norm
  BY <1>1 DEF UpsertedItem
<1>c1. \A q : Copies(q)' = Copies(q)  BY <1>4 DEF Copies, OnDisk
<1>c2. \A q \in DOMAIN files : Fingerprint(q, files[q]) = Fingerprint(p, files[p]) =>
         p \in Copies(q) /\ TitleIn[q.folder.dir] = TitleIn[p.folder.dir]
  BY <1>3, <1>d, SameFingerprint DEF Copies
<1>15. Found'
  <2> SUFFICES ASSUME NEW q \in DOMAIN files, OnDisk(q)', ~Ahead(q)' PROVE FoundAs(q)'
    BY <1>4 DEF Found
  <2>1. CASE Fingerprint(q, files[q]) = Fingerprint(p, files[p])
    <3>1. p \in Copies(q)' /\ i \in scan'.seen  BY <1>2, <1>c1, <1>c2, <2>1
    <3>2. items'[i].norm = TitleIn[q.folder.dir]  BY <1>14, <1>c2, <2>1
    <3> QED  BY <1>12, <1>14, <3>1, <3>2 DEF FoundAs
  <2>2. CASE Fingerprint(q, files[q]) # Fingerprint(p, files[p])
    <3>1. OnDisk(q) /\ ~Ahead(q)  BY <1>4, <1>8, <2>2 DEF OnDisk
    <3>2. PICK w \in Copies(q), j \in scan.seen :
            items[j].available /\ items[j].norm = TitleIn[q.folder.dir] /\ HasRow(w, j)
      BY <3>1 DEF Found, FoundAs
    <3>3. j \in DOMAIN items  BY DEF LibraryInv, ScanOK
    <3>4. items'[j].available /\ items'[j].norm = TitleIn[q.folder.dir]  BY <1>14, <3>2, <3>3
    <3>5. w \in DOMAIN files /\ Fingerprint(w, files[w]) = Fingerprint(q, files[q])
      BY <3>2 DEF Copies
    <3>6. HasRow(w, j)'  BY <1>13, <2>2, <3>2, <3>5
    <3> QED  BY <1>2, <1>c1, <3>2, <3>4, <3>6 DEF FoundAs
  <2> QED  BY <2>1, <2>2
<1>16. Backed'
  <2> SUFFICES ASSUME NEW j \in scan'.seen
               PROVE  \E q \in DOMAIN files : ~Ahead(q)' /\ FileOf(q, j)'
    BY <1>4 DEF Backed
  <2>1. CASE j = i
    <3>1. FileOf(p, i)'  BY <1>12, <1>14 DEF FileOf
    <3> QED  BY <1>3, <1>9, <2>1, <3>1
  <2>2. CASE j # i
    <3>1. PICK q \in DOMAIN files : ~Ahead(q) /\ FileOf(q, j)  BY <1>2, <2>2 DEF Backed
    <3>2. q # p /\ ~Ahead(q)'  BY <1>7, <3>1
    <3>3. j \in DOMAIN items  BY <1>2, <2>2 DEF LibraryInv, ScanOK
    <3>4. items'[j] = items[j]  BY <1>14, <2>2, <3>3
    <3>5. HasRow(q, j)' \/ Copies(q)' # {q}
      <4>1. CASE Copies(q) # {q}  BY <1>c1, <4>1
      <4>2. CASE Fingerprint(q, files[q]) = Fingerprint(p, files[p])
        BY <1>c1, <1>c2, <3>2, <4>2
      <4>3. CASE HasRow(q, j) /\ Fingerprint(q, files[q]) # Fingerprint(p, files[p])
        BY <1>13, <4>3
      <4> QED  BY <3>1, <4>1, <4>2, <4>3 DEF FileOf
    <3>6. FileOf(q, j)'  BY <3>1, <3>4, <3>5 DEF FileOf
    <3> QED  BY <3>2, <3>6
  <2> QED  BY <2>1, <2>2
<1>17. StaleGone'
  BY <1>2, <1>4, <1>14 DEF StaleGone
<1> QED  BY <1>6, <1>15, <1>16, <1>17

LEMMA ScanInvStep ==
  ASSUME IsInjective(Roots), LibraryInv, ScanInv, [Next]_vars PROVE ScanInv'
<1> SUFFICES ASSUME FullScan' PROVE Position' /\ Found' /\ Backed' /\ StaleGone'
  BY DEF ScanInv
<1>0. /\ scan \in Scan /\ scan'.calm /\ scan'.item = 0
      /\ scan'.pc \in {"root", "walk", "match", "completed"}
      /\ \A p \in DOMAIN files : p.folder \in folders
  BY DEF LibraryInv, ScanOK, FullScan, DiskOK
<1>1. FullScan => Position /\ Found /\ Backed /\ StaleGone  BY DEF ScanInv
<1>2. CASE UNCHANGED <<fs, db, scan>>
  <2>1. FullScan /\ UNCHANGED <<files, mounted, items, rows, scan>>
    BY <1>2 DEF FullScan, fs, db
  <2>2. Position'  BY <1>1, <2>1 DEF Position, OnDisk
  <2>3. \A p : Ahead(p)' <=> Ahead(p)  BY <2>1 DEF Ahead
  <2> QED  BY <1>1, <1>2, <2>1, <2>2, <2>3, NothingMissed
<1>3. scan' # IdleScan  BY <1>0 DEF IdleScan
<1>4. CASE StartScan
  <2>1. scan' = [IdleScan EXCEPT !.pc = "root", !.roots = Roots]
    BY <1>0, <1>4 DEF StartScan, IdleScan
  <2>2. /\ scan'.pc = "root" /\ scan'.roots = Roots /\ scan'.files = {} /\ scan'.parsed = <<>>
        /\ scan'.seen = {}
    BY <2>1 DEF IdleScan
  <2>3. UNCHANGED <<files, mounted, items>>  BY <1>4 DEF StartScan, fs, db
  <2>4. Position'  BY <2>2 DEF Position
  <2>5. Found'
    <3>1. \A p \in DOMAIN files : OnDisk(p)' => Ahead(p)'
      BY <2>2, <2>3 DEF OnDisk, Ahead, LibraryInv, DiskOK
    <3> QED  BY <2>3, <3>1 DEF Found
  <2>6. Backed'  BY <2>2 DEF Backed
  <2>7. StaleGone'
    <3>1. \A i \in DOMAIN items : items[i].root \in Range(Roots)
      BY DEF LibraryInv, ItemsOK, Item
    <3> QED  BY <2>2, <2>3, <3>1 DEF StaleGone
  <2> QED  BY <2>4, <2>5, <2>6, <2>7
<1>5. CASE EnterRoot
  <2> DEFINE dirs == {f \in folders : f.root = Head(scan.roots)}
  <2>1. /\ scan.pc = "root" /\ scan.roots # <<>> /\ UNCHANGED <<fs, db>>
        /\ IF Head(scan.roots) \in mounted
           THEN scan' = [scan EXCEPT !.pc = "walk", !.dirs = dirs]
           ELSE scan' = [scan EXCEPT !.roots = Tail(scan.roots)]
    BY <1>5 DEF EnterRoot
  <2> HIDE DEF dirs
  <2>2. FullScan  BY <1>0, <2>1 DEF FullScan, Scan
  <2>3. /\ Range(scan.roots) = {Head(scan.roots)} \cup Range(Tail(scan.roots))
        /\ IsInjective(scan.roots)
        /\ IsInjective(Tail(scan.roots))
    <3>1. scan.roots \in Seq(Range(Roots))  BY <1>0 DEF Scan
    <3>2. IsInjective(scan.roots)  BY <1>1, <2>2 DEF Position
    <3> QED  BY <2>1, <3>1, <3>2, HeadAndTail
  <2>4. scan.files = {} /\ scan.parsed = <<>>  BY <1>1, <2>1, <2>2 DEF Position
  <2>5. CASE Head(scan.roots) \in mounted
    <3>1. /\ scan'.pc = "walk" /\ scan'.roots = scan.roots /\ scan'.dirs = dirs
          /\ scan'.files = {} /\ scan'.parsed = <<>> /\ scan'.seen = scan.seen
      BY <1>0, <2>1, <2>4, <2>5 DEF Scan
    <3>2. Position'  BY <2>3, <3>1 DEF Position, dirs
    <3>3. \A p \in DOMAIN files : OnDisk(p) /\ Ahead(p) => Ahead(p)'
      BY <1>0, <2>1, <2>3, <3>1 DEF Ahead, dirs
    <3>4. \A p \in DOMAIN files : Ahead(p)' => Ahead(p)
      BY <2>1, <2>3, <3>1 DEF Ahead, dirs
    <3> QED  BY <1>1, <2>1, <2>2, <3>1, <3>2, <3>3, <3>4, NothingMissed
  <2>6. CASE Head(scan.roots) \notin mounted
    <3>1. /\ scan'.pc = "root" /\ scan'.roots = Tail(scan.roots)
          /\ scan'.files = {} /\ scan'.parsed = <<>> /\ scan'.seen = scan.seen
      BY <1>0, <2>1, <2>4, <2>6 DEF Scan
    <3>2. Position'  BY <2>3, <3>1 DEF Position
    <3>3. \A p \in DOMAIN files : OnDisk(p) /\ Ahead(p) => Ahead(p)'
      BY <2>1, <2>3, <2>6, <3>1 DEF Ahead, OnDisk
    <3>4. \A p \in DOMAIN files : Ahead(p)' => Ahead(p)  BY <2>1, <2>3, <3>1 DEF Ahead
    <3>5. \A r \in mounted : r \in Range(scan.roots) => r \in Range(scan'.roots)
      BY <2>3, <2>6, <3>1
    <3> QED  BY <1>1, <2>1, <2>2, <3>1, <3>2, <3>3, <3>4, <3>5, NothingMissed
  <2> QED  BY <2>5, <2>6
<1>6. CASE WalkFolder
  <2>1. PICK f \in scan.dirs :
          scan' = [scan EXCEPT !.dirs = @ \ {f},
                               !.files = {p \in DOMAIN files : OnDisk(p) /\ p.folder = f}]
    BY <1>6 DEF WalkFolder
  <2>2. /\ scan.pc = "walk" /\ scan.files = {} /\ scan.parsed = <<>> /\ UNCHANGED <<fs, db>>
    BY <1>6 DEF WalkFolder
  <2>3. /\ scan'.pc = "walk" /\ scan'.roots = scan.roots /\ scan'.dirs = scan.dirs \ {f}
        /\ scan'.files = {p \in DOMAIN files : OnDisk(p) /\ p.folder = f}
        /\ scan'.parsed = <<>> /\ scan'.seen = scan.seen /\ FullScan
    BY <1>0, <2>1, <2>2 DEF Scan, FullScan
  <2>4. Position'
    <3>1. files' = files /\ mounted' = mounted  BY <2>2 DEF fs
    <3> QED  BY <1>1, <2>2, <2>3, <3>1 DEF Position, OnDisk
  <2>5. \A p \in DOMAIN files : OnDisk(p) /\ Ahead(p) => Ahead(p)'
    BY <2>2, <2>3 DEF Ahead
  <2>6. \A p \in DOMAIN files : Ahead(p)' => Ahead(p)  BY <2>2, <2>3 DEF Ahead
  <2> QED  BY <1>1, <2>2, <2>3, <2>4, <2>5, <2>6, NothingMissed
<1>7. CASE StatFile
  <2>1. PICK p \in scan.files :
          scan' = [scan EXCEPT !.files = @ \ {p},
                     !.parsed = IF OnDisk(p)
                                   /\ (scan.item # 0 => TitleIn[p.folder.dir] = items[scan.item].norm)
                                THEN <<p, files[p]>> ELSE <<>>]
    BY <1>7 DEF StatFile
  <2>2. scan.pc = "walk" /\ scan.parsed = <<>> /\ UNCHANGED <<fs, db>>  BY <1>7 DEF StatFile
  <2>3. FullScan  BY <1>0, <2>1, <2>2 DEF FullScan, Scan
  <2>4. /\ p \in DOMAIN files /\ OnDisk(p) /\ p.folder.root = Head(scan.roots)
        /\ p.folder \notin scan.dirs
    BY <1>1, <2>2, <2>3 DEF Position
  <2>5. scan' = [scan EXCEPT !.files = @ \ {p}, !.parsed = <<p, files[p]>>]
    BY <2>1, <2>3, <2>4 DEF FullScan
  <2>6. /\ scan'.pc = "walk" /\ scan'.roots = scan.roots /\ scan'.dirs = scan.dirs
        /\ scan'.files = scan.files \ {p} /\ scan'.parsed = <<p, files[p]>>
        /\ scan'.seen = scan.seen
    BY <1>0, <2>2, <2>5 DEF Scan
  <2>7. scan'.parsed[1] = p /\ scan'.parsed[2] = files[p] /\ scan'.parsed # <<>>  BY <2>6
  <2>8. Position'
    <3>1. files' = files /\ mounted' = mounted  BY <2>2 DEF fs
    <3> QED  BY <1>1, <2>2, <2>3, <2>4, <2>6, <2>7, <3>1 DEF Position, OnDisk
  <2>9. \A q \in DOMAIN files : OnDisk(q) /\ Ahead(q) => Ahead(q)'
    BY <2>2, <2>6, <2>7 DEF Ahead
  <2>10. \A q \in DOMAIN files : Ahead(q)' => Ahead(q)  BY <2>2, <2>6, <2>7 DEF Ahead
  <2> QED  BY <1>1, <2>2, <2>3, <2>6, <2>8, <2>9, <2>10, NothingMissed
<1>8. CASE UpsertFile
  <2>1. FullScan
    <3>1. PICK i : scan' = [scan EXCEPT !.parsed = <<>>, !.seen = @ \cup {i}]  BY <1>8, Upserted
    <3> QED  BY <1>0, <1>8, <3>1 DEF FullScan, Scan, UpsertFile
  <2> QED  BY <1>0, <1>1, <1>8, <2>1, ScanUpserts
<1>9. CASE StalePass
  <2>1. /\ scan.pc = "walk" /\ scan.dirs = {} /\ scan.files = {} /\ scan.parsed = <<>>
        /\ UNCHANGED <<rows, fs>>
        /\ scan' = [scan EXCEPT !.pc = "root", !.roots = Tail(@)]
        /\ items' = [i \in DOMAIN items |->
                       IF items[i].root = Head(scan.roots) /\ i \notin scan.seen
                       THEN [items[i] EXCEPT !.available = FALSE] ELSE items[i]]
    BY <1>9 DEF StalePass, Walked
  <2>2. /\ scan'.pc = "root" /\ scan'.roots = Tail(scan.roots) /\ scan'.files = {}
        /\ scan'.parsed = <<>> /\ scan'.seen = scan.seen /\ FullScan
    BY <1>0, <2>1 DEF Scan, FullScan
  <2>3. /\ Range(scan.roots) = {Head(scan.roots)} \cup Range(Tail(scan.roots))
        /\ IsInjective(Tail(scan.roots))
    <3>1. scan.roots \in Seq(Range(Roots)) /\ scan.roots # <<>>
      BY <1>0, <2>1, <2>2 DEF Scan, FullScan, LibraryInv, ScanOK
    <3>2. IsInjective(scan.roots)  BY <1>1, <2>2 DEF Position
    <3> QED  BY <3>1, <3>2, HeadAndTail
  <2>4. Position'  BY <2>2, <2>3 DEF Position
  <2>5. \A p : Ahead(p)' <=> Ahead(p)  BY <2>1, <2>2 DEF Ahead
  <2>6. files' = files /\ mounted' = mounted  BY <2>1 DEF fs
  <2>8. /\ DOMAIN items' = DOMAIN items
        /\ \A i \in DOMAIN items : i \in scan.seen => items'[i] = items[i]
        /\ \A i \in DOMAIN items : /\ items'[i].root = items[i].root
                                   /\ items'[i].available => items[i].available
                                   /\ items'[i].available /\ items[i].root = Head(scan.roots)
                                        => i \in scan.seen
    <3>1. \A i \in DOMAIN items : items[i] \in Item  BY DEF LibraryInv, ItemsOK
    <3>2. \A i \in DOMAIN items : /\ [items[i] EXCEPT !.available = FALSE].root = items[i].root
                                  /\ ~[items[i] EXCEPT !.available = FALSE].available
      BY <3>1 DEF Item
    <3> QED  BY <2>1, <3>2
  <2>9. scan.seen \subseteq DOMAIN items  BY DEF LibraryInv, ScanOK
  <2>10. Found' /\ Backed'
    <3>1. \A i \in scan.seen : items'[i] = items[i]  BY <2>8, <2>9
    <3> QED  BY <1>1, <2>1, <2>2, <2>5, <3>1, SeenStay
  <2>11. StaleGone'  BY <1>1, <2>2, <2>3, <2>6, <2>8 DEF StaleGone
  <2> QED  BY <2>4, <2>10, <2>11
<1>10. CASE ReadUnmatched \/ ScanDone
  <2>0. PICK phase \in {"match", "completed"} :
          \E todo : scan' = [scan EXCEPT !.pc = phase, !.todo = todo]
    <3>1. CASE ReadUnmatched  BY <3>1 DEF ReadUnmatched
    <3>2. CASE ScanDone
      <4>1. scan' = [scan EXCEPT !.pc = "completed", !.todo = scan.todo]
        BY <1>0, <3>2 DEF ScanDone, Scan
      <4> QED  BY <4>1
    <3> QED  BY <1>10, <3>1, <3>2
  <2>1. PICK todo : scan' = [scan EXCEPT !.pc = phase, !.todo = todo]  BY <2>0
  <2>2. /\ scan.pc \in {"root", "match"}
        /\ scan.pc = "root" => scan.roots = <<>>
        /\ UNCHANGED <<fs, db>>
    BY <1>10 DEF ReadUnmatched, ScanDone
  <2>3. /\ scan'.pc \in {"match", "completed"} /\ scan'.roots = scan.roots
        /\ scan'.seen = scan.seen /\ FullScan
    BY <1>0, <2>1, <2>2 DEF Scan, FullScan
  <2>4. scan.roots = <<>> /\ IsInjective(scan.roots)  BY <1>1, <2>2, <2>3 DEF Position
  <2>5. Position'  BY <2>3, <2>4 DEF Position
  <2>6. \A p : ~Ahead(p)' /\ ~Ahead(p)
    <3>1. Range(<<>>) = {}  BY DEF Range
    <3> QED  BY <2>2, <2>3, <2>4, <3>1 DEF Ahead
  <2> QED  BY <1>1, <2>2, <2>3, <2>5, <2>6, NothingMissed
<1>11. CASE MatchItem
  <2>1. PICK i \in scan.todo : items' \in Refreshed(i) /\ scan' = [scan EXCEPT !.todo = @ \ {i}]
    BY <1>11 DEF MatchItem
  <2>2. scan.pc = "match" /\ UNCHANGED <<rows, fs>>  BY <1>11 DEF MatchItem
  <2>3. /\ scan'.pc = "match" /\ scan'.roots = scan.roots /\ scan'.seen = scan.seen /\ FullScan
    BY <1>0, <2>1, <2>2 DEF Scan, FullScan
  <2>4. Position'  BY <1>1, <2>2, <2>3 DEF Position
  <2>5. \A p : ~Ahead(p)' /\ ~Ahead(p)  BY <2>2, <2>3 DEF Ahead
  <2>6. files' = files /\ mounted' = mounted  BY <2>2 DEF fs
  <2>8. /\ DOMAIN items' = DOMAIN items
        /\ \A j \in DOMAIN items :
             /\ items'[j].available = items[j].available
             /\ items'[j].norm = items[j].norm /\ items'[j].root = items[j].root
    <3>1. SameFilms  BY <1>11, TouchedUp
    <3>2. \A j \in DOMAIN items : items'[j].available = items[j].available
      <4>1. /\ items \in [DOMAIN items -> Item] /\ i \in DOMAIN items
        BY DEF LibraryInv, ItemsOK, ScanOK
      <4>2. CASE items' = [items EXCEPT ![i].needsMatch = TRUE]  BY <4>1, <4>2 DEF Item
      <4>3. ASSUME NEW t,
                   items' = [items EXCEPT ![i].title = t, ![i].matched = TRUE,
                                          ![i].needsMatch = FALSE]
            PROVE  \A j \in DOMAIN items : items'[j].available = items[j].available
        BY <4>1, <4>3 DEF Item
      <4> QED  BY <2>1, <4>2, <4>3 DEF Refreshed
    <3> QED  BY <3>1, <3>2 DEF SameFilms
  <2>9. scan.seen \subseteq DOMAIN items  BY DEF LibraryInv, ScanOK
  <2>10. Found' /\ Backed'  BY <1>1, <2>2, <2>3, <2>5, <2>8, <2>9, SeenStay
  <2>11. StaleGone'  BY <1>1, <2>3, <2>6, <2>8 DEF StaleGone
  <2> QED  BY <2>4, <2>10, <2>11
<1>12. ~RescanOpen
  <2>1. ASSUME RescanOpen PROVE FALSE
    <3>1. scan.item # 0  BY <2>1 DEF RescanOpen, LibraryInv, ScanOK
    <3>2. scan'.item = scan.item
      <4>1. \/ \E f, before : scan' = [scan EXCEPT !.pc = "walk", !.dirs = {f}, !.before = before]
            \/ scan' = [scan EXCEPT !.pc = "warned"]
        BY <2>1 DEF RescanOpen
      <4> QED  BY <1>0, <4>1 DEF Scan
    <3> QED  BY <1>0, <3>1, <3>2
  <2> QED  BY <2>1
<1>13. ~RescanClose  BY <1>0 DEF RescanClose, Scan
<1>14. ~ScanFails  BY <1>0 DEF ScanFails, Scan
<1> QED
  BY <1>0, <1>2, <1>3, <1>4, <1>5, <1>6, <1>7, <1>8, <1>9, <1>10, <1>11, <1>12, <1>13,
     <1>14, CalmScan

\* A full scan that completed while nothing else touched the disk or the
\* tables has found each file of a readable root, whatever crashes, failures and
\* moves went before: it, or a copy of it in another root, is an active row of
\* an available item of its title; and each available item of such a root has
\* a file of its title there.  No root is listed twice.
THEOREM ScansFindTheFiles ==
  ASSUME IsInjective(Roots) PROVE Spec => []ScanReflectsDisk
<1>1. Init => ScanInv  BY DEF Init, IdleScan, ScanInv, FullScan
<1>2. LibraryInv /\ ScanInv /\ [Next]_vars => ScanInv'  BY ScanInvStep
<1>3. LibraryInv /\ ScanInv => ScanReflectsDisk
  <2> SUFFICES ASSUME LibraryInv, ScanInv, scan.pc = "completed", scan.item = 0, scan.calm
               PROVE  /\ \A p \in DOMAIN files : OnDisk(p) =>
                           \E q \in Copies(p), i \in DOMAIN items :
                             /\ items[i].available
                             /\ items[i].norm = TitleIn[p.folder.dir] /\ HasRow(q, i)
                      /\ \A i \in DOMAIN items :
                           items[i].available /\ items[i].root \in mounted =>
                             \E p \in DOMAIN files :
                               /\ p.folder.root = items[i].root
                               /\ TitleIn[p.folder.dir] = items[i].norm
                               /\ HasRow(p, i) \/ Copies(p) # {p}
    BY DEF ScanReflectsDisk
  <2>1. Position /\ Found /\ Backed /\ StaleGone  BY DEF ScanInv, FullScan
  <2>2. scan.roots = <<>> /\ \A p : ~Ahead(p)  BY <2>1 DEF Position, Ahead
  <2>3. scan.seen \subseteq DOMAIN items  BY DEF LibraryInv, ScanOK
  <2>4. \A r : r \notin Range(scan.roots)  BY <2>2 DEF Range
  <2>5. \A p \in DOMAIN files : OnDisk(p) => FoundAs(p)  BY <2>1, <2>2 DEF Found
  <2>6. \A i \in scan.seen : \E p \in DOMAIN files : FileOf(p, i)  BY <2>1 DEF Backed
  <2>7. \A i \in DOMAIN items :
          items[i].available /\ items[i].root \in mounted => i \in scan.seen
    BY <2>1, <2>4 DEF StaleGone
  <2> QED  BY <2>3, <2>5, <2>6, <2>7 DEF FoundAs, FileOf
<1> QED  BY <1>1, <1>2, <1>3, LibraryInvariant, PTL DEF Spec
=============================================================================
