--------------------------- MODULE FindLinksProofs ---------------------------
(***************************************************************************)
(* Proofs about finding links: the workflow analysis and the delivery walk  *)
(* it calls, the guided set-up of a source, and the lookup of a selected    *)
(* result listing by listing and source by source.                         *)
(*                                                                         *)
(* Each part has an invariant of its own variables, which its own steps     *)
(* preserve; the steps of the other parts leave those variables alone.      *)
(***************************************************************************)
EXTENDS Web, FiniteSetTheorems, TLAPS

\* A set with one more element.
LEMMA OneMore ==
  ASSUME NEW S, NEW x, IsFiniteSet(S)
  PROVE  /\ IsFiniteSet(S \cup {x}) /\ Cardinality(S) \in Nat
         /\ Cardinality(S \cup {x}) \in {Cardinality(S), Cardinality(S) + 1}
<1>1. Cardinality(S) \in Nat
  BY FS_CardinalityType
<1>2. CASE x \in S
  <2>1. S \cup {x} = S  BY <1>2
  <2> QED BY <1>1, <2>1
<1>3. CASE x \notin S
  <2>1. IsFiniteSet(S \cup {x})  BY FS_AddElement
  <2>2. Cardinality(S \cup {x}) = IF x \in S THEN Cardinality(S) ELSE Cardinality(S) + 1
    BY FS_AddElement
  <2> QED BY <1>1, <1>3, <2>1, <2>2
<1> QED BY <1>2, <1>3

-----------------------------------------------------------------------------
(* The workflow analysis.                                                  *)

Branch == [page : Pages, from : Pages \cup {MoviePage}, depth : Nat, priority : 0 .. 3]
Keys == Pages \X (Pages \cup {MoviePage})
ResultRow == [page : Pages \cup {MoviePage, Graph}, status : Status]
Walks == [phase : {"idle", "movie", "walk", "done", "raised"},
          quality : {Unlabelled} \cup {r.quality : r \in Requests},
          queue : SUBSET Branch, visited : SUBSET Keys, queued : SUBSET Keys,
          results : SUBSET ResultRow, late : BOOLEAN, cut : BOOLEAN,
          status : Status \cup {"none", "failed"}]

Verified == \E r \in walk.results : r.status = "success"

\* A branch that was found is requested, or waits in the queue, or was given
\* up for a file reached the direct way.
BranchesTracked ==
  /\ walk.phase = "movie" => walk.queued = {} /\ walk.results = {}
  /\ walk.phase = "walk" =>
       \/ walk.cut
       \/ \A k \in walk.queued : k \in walk.visited \/ \E a \in walk.queue : Key(a) = k
  /\ walk.cut => Verified

WalkInv ==
  /\ walk \in Walks
  /\ IsFiniteSet(walk.visited) /\ Cardinality(walk.visited) <= MaxNodes
  /\ walk.visited \subseteq walk.queued
  /\ \A a \in walk.queue : Key(a) \in walk.queued
  /\ BranchesTracked
  /\ BranchesAccounted

LEMMA SmallerOfTwo ==
  ASSUME NEW m \in Int, NEW n \in Int PROVE Min({m, n}) \in {m, n} /\ Min({m, n}) <= m /\ Min({m, n}) <= n
<1>1. \E x \in {m, n} : \A y \in {m, n} : x =< y
  OBVIOUS
<1> QED BY <1>1 DEF Min

LEMMA IdleWalk == Idle \in Walks
BY DEF Walks, Idle, Status

\* A walk that has not met a branch yet, and what starts one.
LEMMA NewWalk ==
  ASSUME walk \in Walks, walk.phase \in {"idle", "movie"}, walk.visited = {},
         walk.queued = {}, walk.queue = {}, walk.results = {}, ~walk.cut
  PROVE  WalkInv
<1>1. IsFiniteSet({}) /\ Cardinality({}) = 0  BY FS_EmptySet
<1>2. MaxNodes \in Nat  BY WorkflowAssumption
<1>3. IsFiniteSet(walk.visited) /\ Cardinality(walk.visited) <= MaxNodes
  <2>1. IsFiniteSet(walk.visited) /\ Cardinality(walk.visited) = 0  BY <1>1
  <2> QED BY <1>2, <2>1
<1> QED BY <1>3 DEF WalkInv, BranchesTracked, BranchesAccounted

LEMMA WalkStarts ==
  ASSUME \/ walk' = Idle
         \/ \E quality \in {r.quality : r \in Requests} : StartWalk(quality)
  PROVE  WalkInv'
<1>1. /\ walk' \in Walks /\ walk'.phase \in {"idle", "movie"} /\ walk'.visited = {}
      /\ walk'.queued = {} /\ walk'.queue = {} /\ walk'.results = {} /\ ~walk'.cut
  <2>1. CASE walk' = Idle  BY <2>1, IdleWalk DEF Idle
  <2>2. ASSUME NEW quality \in {r.quality : r \in Requests}, StartWalk(quality)
        PROVE  /\ walk' \in Walks /\ walk'.phase = "movie" /\ walk'.visited = {}
               /\ walk'.queued = {} /\ walk'.queue = {} /\ walk'.results = {} /\ ~walk'.cut
    BY <2>2, IdleWalk DEF StartWalk, Walks, Idle
  <2> QED BY <2>1, <2>2
<1>2. IsFiniteSet({}) /\ Cardinality({}) = 0  BY FS_EmptySet
<1>3. MaxNodes \in Nat  BY WorkflowAssumption
<1>4. IsFiniteSet(walk'.visited) /\ Cardinality(walk'.visited) <= MaxNodes
  <2>1. IsFiniteSet(walk'.visited) /\ Cardinality(walk'.visited) = 0  BY <1>1, <1>2
  <2> QED BY <1>3, <2>1
<1> QED BY <1>1, <1>4 DEF WalkInv, BranchesTracked, BranchesAccounted

\* What a visit of a queued branch leaves behind.
LEMMA VisitKeeps ==
  ASSUME WalkInv, NEW a \in walk.queue, Visit(a),
         NEW rows \in SUBSET ResultRow, NEW actions \in SUBSET Branch,
         Visited(a, rows, actions)
  PROVE  WalkInv'
<1>1. walk \in Walks /\ walk.phase = "walk" /\ Key(a) \in walk.queued /\ Key(a) \in Keys
  BY DEF WalkInv, Visit, Walking, Walks, Key, Keys, Branch
<1>2. \A b \in actions : Key(b) \in Keys
  BY DEF Key, Keys, Branch
<1> DEFINE found == {Key(b) : b \in actions}
<1>3. /\ walk' = [walk EXCEPT !.visited = @ \cup {Key(a)}, !.results = @ \cup rows,
                              !.queue = (@ \ {a}) \cup actions, !.queued = @ \cup found]
      /\ found \subseteq Keys
      /\ \A b \in actions : Key(b) \in found
      /\ \A k \in found : \E b \in actions : Key(b) = k
  BY <1>2 DEF Visited
<1> HIDE DEF found
<1>4. /\ walk'.phase = "walk" /\ walk'.visited = walk.visited \cup {Key(a)}
      /\ walk'.results = walk.results \cup rows /\ walk'.queue = (walk.queue \ {a}) \cup actions
      /\ walk'.queued = walk.queued \cup found /\ walk'.cut = walk.cut
      /\ walk' \in Walks
  BY <1>1, <1>3 DEF Walks
<1>5. IsFiniteSet(walk'.visited) /\ Cardinality(walk'.visited) <= MaxNodes
  <2>1. Cardinality(walk.visited) < MaxNodes  BY DEF Visit, Walking
  <2>2. IsFiniteSet(walk.visited)  BY DEF WalkInv
  <2>3. /\ IsFiniteSet(walk.visited \cup {Key(a)}) /\ Cardinality(walk.visited) \in Nat
        /\ Cardinality(walk.visited \cup {Key(a)})
             \in {Cardinality(walk.visited), Cardinality(walk.visited) + 1}
    BY <2>2, OneMore
  <2> QED BY <1>4, <2>1, <2>3, WorkflowAssumption
<1>6. walk'.visited \subseteq walk'.queued  BY <1>1, <1>4 DEF WalkInv
<1>7. \A b \in walk'.queue : Key(b) \in walk'.queued  BY <1>3, <1>4 DEF WalkInv
<1>8. BranchesTracked'
  <2>1. ASSUME ~walk.cut, NEW k \in walk'.queued
        PROVE  k \in walk'.visited \/ \E b \in walk'.queue : Key(b) = k
    <3>1. CASE k \in found  BY <1>3, <1>4, <3>1
    <3>2. CASE k \in walk.queued
      <4>1. k \in walk.visited \/ \E b \in walk.queue : Key(b) = k
        BY <1>1, <2>1, <3>2 DEF WalkInv, BranchesTracked
      <4>2. ASSUME NEW b \in walk.queue, Key(b) = k, b # a
            PROVE  \E c \in walk'.queue : Key(c) = k
        BY <1>4, <4>2
      <4> QED BY <1>4, <4>1, <4>2
    <3> QED BY <1>4, <2>1, <3>1, <3>2
  <2>2. walk.cut => Verified'
    BY <1>4 DEF WalkInv, BranchesTracked, Verified
  <2> QED BY <1>4, <2>1, <2>2 DEF BranchesTracked
<1>9. BranchesAccounted'  BY <1>4 DEF BranchesAccounted
<1> QED BY <1>4, <1>5, <1>6, <1>7, <1>8, <1>9 DEF WalkInv

\* A step that only takes a branch from the queue, with or without a row, or
\* empties it for the file that was verified.
LEMMA QueueShrinks ==
  ASSUME WalkInv, NEW a \in walk.queue, Walking,
         NEW visited \in {walk.visited, walk.visited \cup {Key(a)}}, Key(a) \in visited,
         visited # walk.visited => Key(a) \notin walk.visited,
         NEW queue \in {{}, walk.queue \ {a}}, NEW cut \in BOOLEAN, NEW late \in BOOLEAN,
         NEW rows \in SUBSET ResultRow,
         walk' = [walk EXCEPT !.visited = visited, !.queue = queue, !.cut = cut, !.late = late,
                              !.results = @ \cup rows],
         walk.cut => cut, queue = walk.queue \ {a} \/ cut,
         cut => walk.cut \/ \E r \in rows : r.status = "success"
  PROVE  WalkInv'
<1>1. walk \in Walks /\ walk.phase = "walk" /\ Key(a) \in walk.queued
  BY DEF WalkInv, Walking
<1>2. /\ walk'.phase = "walk" /\ walk'.visited = visited /\ walk'.queue = queue
      /\ walk'.results = walk.results \cup rows /\ walk'.queued = walk.queued
      /\ walk'.cut = cut /\ walk' \in Walks
  <2>1. visited \in SUBSET Keys /\ queue \in SUBSET Branch
    BY <1>1 DEF Walks, WalkInv
  <2> QED BY <1>1, <2>1 DEF Walks
<1>3. IsFiniteSet(visited) /\ Cardinality(visited) <= MaxNodes
  <2>1. /\ IsFiniteSet(walk.visited) /\ Cardinality(walk.visited) <= MaxNodes
        /\ Cardinality(walk.visited) < MaxNodes
    BY DEF WalkInv, Walking
  <2>2. /\ IsFiniteSet(walk.visited \cup {Key(a)}) /\ Cardinality(walk.visited) \in Nat
        /\ Cardinality(walk.visited \cup {Key(a)})
             \in {Cardinality(walk.visited), Cardinality(walk.visited) + 1}
    BY <2>1, OneMore
  <2> QED BY <2>1, <2>2, WorkflowAssumption
<1>4. /\ walk'.visited \subseteq walk'.queued
      /\ \A b \in walk'.queue : Key(b) \in walk'.queued
  BY <1>1, <1>2 DEF WalkInv
<1>5. BranchesTracked'
  <2>1. ASSUME ~cut, NEW k \in walk.queued
        PROVE  k \in visited \/ \E b \in queue : Key(b) = k
    <3>1. k \in walk.visited \/ \E b \in walk.queue : Key(b) = k
      BY <1>1, <2>1 DEF WalkInv, BranchesTracked
    <3> QED BY <2>1, <3>1
  <2>2. cut => Verified'
    BY <1>2 DEF WalkInv, BranchesTracked, Verified
  <2> QED BY <1>2, <2>1, <2>2 DEF BranchesTracked
<1>6. BranchesAccounted'  BY <1>2 DEF BranchesAccounted
<1> QED BY <1>2, <1>3, <1>4, <1>5, <1>6 DEF WalkInv

\* The end: what is left is told, and the status says what the rows say.
LEMMA EndKeeps == ASSUME WalkInv, EndWalk PROVE WalkInv'
<1> DEFINE results == walk.results \cup Unfinished
<1>1. /\ walk \in Walks /\ walk.phase = "walk"
      /\ walk' = [walk EXCEPT !.phase = "done", !.status = Summary(results), !.results = results]
  BY DEF WalkInv, EndWalk, Ends
<1>2. /\ walk.queue # {} => Row(Graph, "partial") \in results
      /\ results \in SUBSET ResultRow /\ walk.results \subseteq results
  BY <1>1 DEF Unfinished, Row, Walks, ResultRow, Status
<1>3. /\ Summary(results) \in Status
      /\ Summary(results) = "success" <=> \E r \in results : r.status = "success"
      /\ Summary(results) = "blocked" =>
           results # {} /\ \A r \in results : r.status = "blocked"
  BY DEF Summary, Status
<1> HIDE DEF results
<1>4. /\ walk'.phase = "done" /\ walk'.status = Summary(results) /\ walk'.results = results
      /\ walk'.queue = walk.queue /\ walk'.queued = walk.queued /\ walk'.cut = walk.cut
      /\ walk'.visited = walk.visited /\ walk' \in Walks
  BY <1>1, <1>2, <1>3 DEF Walks
<1>5. BranchesTracked'
  BY <1>1, <1>2, <1>4 DEF WalkInv, BranchesTracked, Verified
<1>6. BranchesAccounted'
  <2>1. \/ walk.queued \subseteq walk.visited
        \/ Row(Graph, "partial") \in results
        \/ walk.cut /\ \E r \in results : r.status = "success"
    BY <1>1, <1>2 DEF WalkInv, BranchesTracked, Verified
  <2> QED BY <1>3, <1>4, <2>1 DEF BranchesAccounted
<1> QED BY <1>4, <1>5, <1>6 DEF WalkInv

\* What the movie page led to: an end without a walk, or the first branches.
LEMMA MovieKeeps == ASSUME WalkInv, ReadMovie PROVE WalkInv'
<1>1. /\ walk \in Walks /\ walk.phase = "movie" /\ walk.queued = {} /\ walk.results = {}
      /\ walk.queue = {} /\ walk.visited = {} /\ ~walk.cut
  <2>1. walk.phase = "movie" /\ walk \in Walks /\ walk.queued = {} /\ walk.results = {}
    BY DEF WalkInv, ReadMovie, BranchesTracked
  <2> QED BY <2>1 DEF WalkInv, BranchesTracked, Verified, Walks
<1>2. CASE Raises
  <2>1. walk' = [walk EXCEPT !.phase = "raised"]  BY <1>2 DEF Raises
  <2>2. /\ walk'.phase = "raised" /\ walk'.visited = walk.visited /\ walk'.queue = walk.queue
        /\ walk'.queued = walk.queued /\ walk'.cut = walk.cut /\ walk' \in Walks
    BY <1>1, <2>1 DEF Walks
  <2> QED BY <1>1, <2>2 DEF WalkInv, BranchesTracked, BranchesAccounted
<1>3. ASSUME NEW status \in {"failed", "blocked"}, NEW rows \in SUBSET ResultRow,
             Ends(status, rows),
             status = "blocked" <=> rows # {}, \A r \in rows : r.status = "blocked"
      PROVE  WalkInv'
  <2>1. /\ walk'.phase = "done" /\ walk'.status = status /\ walk'.results = rows
        /\ walk'.queue = walk.queue /\ walk'.queued = walk.queued /\ walk'.cut = walk.cut
        /\ walk'.visited = walk.visited /\ walk' \in Walks
    BY <1>1, <1>3 DEF Walks, Ends, Status
  <2>2. BranchesAccounted'
    BY <1>1, <1>3, <2>1 DEF BranchesAccounted
  <2> QED BY <1>1, <2>1, <2>2 DEF WalkInv, BranchesTracked
<1>4. ASSUME NEW links \in SUBSET Pages, NEW roots \in Roots(links),
             walk' = [walk EXCEPT !.phase = "walk",
                        !.queue = {Action(p, MoviePage, 0, Priority[p]) : p \in roots},
                        !.queued = {Key(a) : a \in {Action(p, MoviePage, 0, Priority[p])
                                                       : p \in roots}}]
      PROVE  WalkInv'
  <2> DEFINE actions == {Action(p, MoviePage, 0, Priority[p]) : p \in roots}
             found == {Key(a) : a \in actions}
  <2>1. roots \subseteq Pages  BY <1>4 DEF Roots, Picked, kSubset
  <2>2. actions \subseteq Branch  BY <2>1, WorkflowAssumption DEF Action, Branch
  <2>3. \A a \in actions : Key(a) \in found  OBVIOUS
  <2>4. \A k \in found : \E a \in actions : Key(a) = k  OBVIOUS
  <2>5. found \subseteq Keys  BY <2>2 DEF Key, Keys, Branch
  <2>6. walk' = [walk EXCEPT !.phase = "walk", !.queue = actions, !.queued = found]  BY <1>4
  <2> HIDE DEF actions, found
  <2>7. /\ walk'.phase = "walk" /\ walk'.queue = actions /\ walk'.queued = found
        /\ walk'.visited = walk.visited /\ walk'.cut = walk.cut /\ walk' \in Walks
    BY <1>1, <2>2, <2>5, <2>6 DEF Walks
  <2>8. BranchesTracked'  BY <1>1, <2>4, <2>7 DEF BranchesTracked
  <2> QED BY <1>1, <2>3, <2>7, <2>8 DEF WalkInv, BranchesAccounted
<1>5. {} \in SUBSET ResultRow /\ {Row(MoviePage, "blocked")} \in SUBSET ResultRow
  BY DEF Row, ResultRow, Status
<1>6. CASE Ends("failed", {})  BY <1>3, <1>5, <1>6
<1>7. CASE Ends("blocked", {Row(MoviePage, "blocked")})
  <2>1. \A r \in {Row(MoviePage, "blocked")} : r.status = "blocked"  BY DEF Row
  <2> QED BY <1>3, <1>5, <1>7, <2>1
<1> QED BY <1>2, <1>4, <1>6, <1>7 DEF ReadMovie

\* Every step of the walk.
LEMMA WalkStepKeeps == ASSUME WalkInv, WalkStep PROVE WalkInv'
<1>1. CASE ReadMovie  BY <1>1, MovieKeeps
<1>2. CASE EndWalk  BY <1>2, EndKeeps
<1>3. ASSUME NEW a \in walk.queue,
             \/ DropVisited(a) \/ StopAtForm(a) \/ FetchRaises(a) \/ FetchTooLate(a)
             \/ ReachFile(a) \/ PressDirectDownload(a) \/ FollowRedirect(a)
             \/ MeetChallenge(a) \/ StopAtPage(a) \/ QueueBranches(a)
      PROVE  WalkInv'
  <2>1. walk \in Walks /\ a \in Branch  BY DEF WalkInv, Walks
  <2>2. \A status \in Status : {Row(a.page, status)} \in SUBSET ResultRow
    BY <2>1 DEF Row, ResultRow, Branch
  <2>3. ASSUME NEW status \in Status, Visit(a), Stopped(a, status) PROVE WalkInv'
    BY <2>2, <2>3, VisitKeeps DEF Stopped
  <2>4. ASSUME Visit(a), CutAt(a) PROVE WalkInv'
    <3>1. walk' = [walk EXCEPT !.visited = walk.visited \cup {Key(a)}, !.queue = {}, !.cut = TRUE,
                               !.late = walk.late, !.results = @ \cup {Row(a.page, "success")}]
      BY <2>1, <2>4 DEF CutAt, Walks
    <3>2. {Row(a.page, "success")} \in SUBSET ResultRow  BY <2>2 DEF Status
    <3>3. \E r \in {Row(a.page, "success")} : r.status = "success"  BY DEF Row
    <3>4. Walking /\ Key(a) \notin walk.visited /\ walk.late \in BOOLEAN /\ walk.cut \in BOOLEAN
      BY <2>1, <2>4 DEF Visit, Walks
    <3> QED BY <3>1, <3>2, <3>3, <3>4, QueueShrinks
  <2>5. CASE DropVisited(a)
    <3>1. walk' = [walk EXCEPT !.visited = walk.visited, !.queue = walk.queue \ {a},
                               !.cut = walk.cut, !.late = walk.late, !.results = @ \cup {}]
      BY <2>1, <2>5 DEF DropVisited, Walks
    <3>2. Walking /\ Key(a) \in walk.visited /\ walk.late \in BOOLEAN /\ walk.cut \in BOOLEAN
      BY <2>1, <2>5 DEF DropVisited, Walks
    <3>3. /\ {} \in SUBSET ResultRow /\ walk.queue \ {a} \in {{}, walk.queue \ {a}}
          /\ walk.visited \in {walk.visited, walk.visited \cup {Key(a)}}
      OBVIOUS
    <3> QED BY <3>1, <3>2, <3>3, QueueShrinks
  <2>6. CASE FetchTooLate(a)
    <3>1. walk' = [walk EXCEPT !.visited = walk.visited \cup {Key(a)}, !.queue = walk.queue \ {a},
                               !.cut = walk.cut, !.late = TRUE,
                               !.results = @ \cup {Row(a.page, "partial")}]
      BY <2>1, <2>6 DEF FetchTooLate, Walks
    <3>2. Walking /\ Key(a) \notin walk.visited /\ walk.cut \in BOOLEAN
      BY <2>1, <2>6 DEF FetchTooLate, Fetch, Visit, Walks
    <3>3. {Row(a.page, "partial")} \in SUBSET ResultRow  BY <2>2 DEF Status
    <3> QED BY <3>1, <3>2, <3>3, QueueShrinks
  <2>7. CASE FetchRaises(a)
    <3>1. walk' = [walk EXCEPT !.phase = "raised"]  BY <2>7 DEF FetchRaises, Raises
    <3>2. /\ walk'.phase = "raised" /\ walk'.visited = walk.visited /\ walk'.queue = walk.queue
          /\ walk'.queued = walk.queued /\ walk'.cut = walk.cut
          /\ walk'.results = walk.results /\ walk' \in Walks
      BY <2>1, <3>1 DEF Walks
    <3> QED BY <3>2 DEF WalkInv, BranchesTracked, BranchesAccounted, Verified
  <2>8. CASE StopAtForm(a) \/ MeetChallenge(a) \/ StopAtPage(a)
    BY <2>3, <2>8 DEF StopAtForm, MeetChallenge, StopAtPage, Fetch, Status
  <2>9. CASE ReachFile(a) \/ PressDirectDownload(a)
    BY <2>3, <2>4, <2>9 DEF ReachFile, PressDirectDownload, Fetch, Status
  <2>10. CASE FollowRedirect(a)
    <3>1. PICK next \in Pages :
            Visited(a, {}, {Action(next, a.page, a.depth + 1,
                                   Min({a.priority, Priority[next]}))})
      BY <2>10 DEF FollowRedirect
    <3>2. a.priority \in 0 .. 3 /\ Priority[next] \in 0 .. 3
      BY <2>1, WorkflowAssumption DEF Branch
    <3>3. Min({a.priority, Priority[next]}) \in 0 .. 3
      <4>1. a.priority \in Int /\ Priority[next] \in Int  BY <3>2
      <4>2. Min({a.priority, Priority[next]}) \in {a.priority, Priority[next]}
        BY <4>1, SmallerOfTwo
      <4> QED BY <3>2, <4>2
    <3>4. Action(next, a.page, a.depth + 1, Min({a.priority, Priority[next]})) \in Branch
      BY <2>1, <3>3 DEF Action, Branch
    <3> QED BY <2>10, <3>1, <3>4, VisitKeeps DEF FollowRedirect, Fetch
  <2>11. CASE QueueBranches(a)
    <3>1. PICK links \in SUBSET Pages, branches \in UNION {BranchActions(l) : l \in SUBSET Pages} :
            LET kept == {p \in branches : p # a.page /\ Fits(p)}
            IN /\ branches \in BranchActions(links)
               /\ Visited(a, {}, {Action(p, a.page, a.depth + 1, Priority[p]) : p \in kept})
      BY <2>11 DEF QueueBranches
    <3>2. branches \subseteq Pages  BY <3>1 DEF BranchActions, Picked, kSubset
    <3> DEFINE kept == {p \in branches : p # a.page /\ Fits(p)}
    <3>3. {Action(p, a.page, a.depth + 1, Priority[p]) : p \in kept} \subseteq Branch
      BY <2>1, <3>2, WorkflowAssumption DEF Action, Branch
    <3> QED BY <2>11, <3>1, <3>3, VisitKeeps DEF QueueBranches, Fetch
  <2> QED BY <1>3, <2>5, <2>6, <2>7, <2>8, <2>9, <2>10, <2>11
<1> QED BY <1>1, <1>2, <1>3 DEF WalkStep

\* The deadline only stops the walk.
LEMMA DeadlineKeeps == ASSUME WalkInv, DeadlinePasses PROVE WalkInv'
<1>1. walk \in Walks /\ walk' = [walk EXCEPT !.late = TRUE]  BY DEF WalkInv, DeadlinePasses
<1>2. /\ walk'.phase = walk.phase /\ walk'.visited = walk.visited /\ walk'.queue = walk.queue
      /\ walk'.queued = walk.queued /\ walk'.cut = walk.cut /\ walk'.status = walk.status
      /\ walk'.results = walk.results /\ walk' \in Walks
  BY <1>1 DEF Walks
<1> QED BY <1>2 DEF WalkInv, BranchesTracked, BranchesAccounted, Verified

-----------------------------------------------------------------------------
(* The walk to the delivery URL, and the guided set-up that proves it.      *)

ChasePages == Urls \cup {NoPage}
Chases == [phase : {"idle", "chase", "found", "lost", "raised"},
           queue : SUBSET (ChasePages \X (0 .. MaxChase)), visited : SUBSET ChasePages,
           url : Delivered \cup {NoPage}, depth : 0 .. MaxChase]
ChaseInv == chase \in Chases /\ (chase.phase = "found" <=> chase.url # NoPage)

Card == [title : BOOLEAN, page : ChasePages]
Kinds == {"direct-file", "structured-api-result", "redirect-endpoint", "result-page"}
Failures == {"failed", "no-matching-result-links", "javascript-rendering-required",
             "url-pattern-mismatch", "html-parsing-failed", "no-repeating-result-container",
             "delivery-chain-not-found", "title-could-not-be-inferred"}
Setups == [phase : {"idle", "form", "sample", "page", "example", "render", "match", "prove",
                    "done"},
           auto : BOOLEAN, mode : {"auto", "browser", "static"}, html : BOOLEAN,
           samples : 0 .. MaxSamples, kind : Kinds, cards : Seq(Card), at : Nat \ {0},
           proof : Seq(Delivered \cup {NoPage}),
           status : {"none", "working"} \cup Failures]

\* A proof belongs to one of the cards that may be tried, and to its own.
SetupInv ==
  /\ setup \in Setups
  /\ Len(setup.proof) = Len(setup.cards)
  /\ setup.phase # "done" => setup.status = "none"
  /\ \A i \in DOMAIN setup.proof : setup.proof[i] # NoPage => i <= MaxProven
  /\ SetupProvesDelivery

LEMMA DeliveryLimits ==
  MaxChase \in Nat /\ MaxSamples \in Nat /\ MaxProven \in Nat /\ NoPage \notin Delivered
BY DeliveredAssumption

LEMMA NoChaseYet == NoChase \in Chases /\ NoChase.phase = "idle" /\ NoChase.url = NoPage
BY DeliveryLimits DEF Chases, NoChase

LEMMA ChaseStarts ==
  ASSUME NEW page \in ChasePages
  PROVE  /\ ChaseFrom(page) \in Chases /\ ChaseFrom(page).phase = "chase"
         /\ ChaseFrom(page).url = NoPage
<1>1. <<page, 0>> \in ChasePages \X (0 .. MaxChase)  BY DeliveryLimits
<1> QED BY <1>1, NoChaseYet DEF Chases, ChaseFrom

LEMMA ChaseStepKeeps == ASSUME ChaseInv, ChaseStep PROVE ChaseInv'
<1>1. chase \in Chases /\ chase.phase = "chase" /\ chase.url = NoPage
  BY DEF ChaseInv, ChaseStep, ChaseBusy
<1>2. CASE ChaseLost \/ ChaseRaises
  BY <1>1, <1>2 DEF ChaseInv, Chases, ChaseLost, ChaseRaises
<1>3. ASSUME NEW entry \in Nearest,
             DropSeen(entry) \/ DeadEnd(entry) \/ Delivers(entry) \/ ReadLinks(entry)
      PROVE  ChaseInv'
  <2>1. /\ entry \in chase.queue /\ entry[1] \in ChasePages /\ entry[2] \in 0 .. MaxChase
        /\ MaxChase \in Nat
    BY <1>1, DeliveredAssumption DEF Nearest, Chases
  <2>2. /\ Popped(entry) \in Chases /\ Popped(entry).phase = "chase"
        /\ Popped(entry).url = NoPage
    BY <1>1, <2>1 DEF Popped, Chases
  <2>3. CASE DropSeen(entry) \/ DeadEnd(entry)
    BY <2>2, <2>3 DEF DropSeen, DeadEnd, ChaseInv
  <2>4. CASE Delivers(entry)
    <3>1. PICK final \in Delivered :
            chase' = [Popped(entry) EXCEPT !.phase = "found", !.url = final, !.depth = entry[2]]
      BY <2>4 DEF Delivers
    <3>2. final # NoPage  BY DeliveredAssumption
    <3> QED BY <2>1, <2>2, <3>1, <3>2 DEF ChaseInv, Chases
  <2>5. CASE ReadLinks(entry)
    <3>1. PICK links \in SUBSET Urls, kept \in UNION {Kept(l) : l \in SUBSET Urls} :
            /\ kept \in Kept(links)
            /\ chase' = [Popped(entry) EXCEPT !.queue =
                           @ \cup {<<p, entry[2] + 1>> : p \in kept}]
      BY <2>5 DEF ReadLinks
    <3>2. kept \subseteq Urls  BY <3>1 DEF Kept, kSubset
    <3>3. entry[2] + 1 \in 0 .. MaxChase  BY <2>1, <2>5 DEF ReadLinks
    <3> DEFINE next == {<<p, entry[2] + 1>> : p \in kept}
    <3>4. next \in SUBSET (ChasePages \X (0 .. MaxChase))
      BY <3>2, <3>3 DEF ChasePages
    <3>5. chase' = [Popped(entry) EXCEPT !.queue = @ \cup next]  BY <3>1
    <3> HIDE DEF next
    <3> QED BY <2>2, <3>4, <3>5 DEF ChaseInv, Chases
  <2> QED BY <1>3, <2>3, <2>4, <2>5
<1> QED BY <1>2, <1>3 DEF ChaseStep

LEMMA SetupTypes ==
  ASSUME setup \in Setups
  PROVE  /\ setup.cards \in Seq(Card) /\ setup.proof \in Seq(Delivered \cup {NoPage})
         /\ setup.at \in Nat \ {0} /\ setup.samples \in 0 .. MaxSamples
         /\ Len(setup.cards) \in Nat /\ DOMAIN setup.cards = 1 .. Len(setup.cards)
         /\ Len(setup.proof) \in Nat /\ DOMAIN setup.proof = 1 .. Len(setup.proof)
<1>1. /\ setup.cards \in Seq(Card) /\ setup.proof \in Seq(Delivered \cup {NoPage})
      /\ setup.at \in Nat \ {0} /\ setup.samples \in 0 .. MaxSamples
  BY DEF Setups
<1> QED BY <1>1

LEMMA NoSetupYet ==
  /\ NoSetup \in Setups /\ NoSetup.cards = <<>> /\ NoSetup.proof = <<>>
  /\ NoSetup.status = "none" /\ NoSetup.phase = "idle"
<1>1. 0 \in 0 .. MaxSamples  BY DeliveryLimits
<1>2. NoSetup \in Setups  BY <1>1 DEF NoSetup, Setups, Kinds
<1> QED BY <1>2 DEF NoSetup

\* What only moves the set-up on, or ends it without a source.
LEMMA SetupMovesOn ==
  ASSUME SetupInv, setup.phase # "done", setup' \in Setups,
         setup'.cards = setup.cards, setup'.proof = setup.proof,
         setup'.status # "working", setup'.phase # "done" => setup'.status = "none"
  PROVE  SetupInv'
BY DEF SetupInv, SetupProvesDelivery

LEMMA SetupStarts ==
  ASSUME NEW auto \in BOOLEAN, NEW mode \in {"auto", "browser", "static"},
         StartSetup(auto, mode)
  PROVE  SetupInv'
<1>1. PICK phase \in {"form", "page"} :
        setup' = [NoSetup EXCEPT !.phase = phase, !.auto = auto, !.mode = mode]
  BY DEF StartSetup
<1>2. /\ setup' \in Setups /\ setup'.cards = <<>> /\ setup'.proof = <<>>
      /\ setup'.status = "none"
  BY <1>1, NoSetupYet DEF Setups
<1>3. Len(setup'.proof) = Len(setup'.cards) /\ DOMAIN setup'.proof = {}
  <2>1. DOMAIN <<>> = {}  OBVIOUS
  <2> QED BY <1>2, <2>1
<1> QED BY <1>2, <1>3 DEF SetupInv, SetupProvesDelivery

LEMMA SetupEnds ==
  ASSUME SetupInv, setup.phase # "done", NEW status \in Failures, EndSetup(status)
  PROVE  SetupInv'
<1>1. setup \in Setups /\ setup' = [setup EXCEPT !.phase = "done", !.status = status]
  BY DEF SetupInv, EndSetup
<1>2. /\ setup' \in Setups /\ setup'.cards = setup.cards /\ setup'.proof = setup.proof
      /\ setup'.status = status /\ setup'.phase = "done"
  BY <1>1 DEF Setups
<1>3. status # "working"  BY DEF Failures
<1> QED BY <1>2, <1>3, SetupMovesOn

\* The number of cards that are tried.
LEMMA TriedCards ==
  ASSUME SetupInv, Proving
  PROVE  /\ setup.at \in 1 .. Len(setup.proof) /\ setup.at <= MaxProven
         /\ setup.phase = "prove"
<1>1. /\ setup.at \in Nat \ {0} /\ Len(setup.cards) \in Nat /\ MaxProven \in Nat
      /\ Len(setup.proof) = Len(setup.cards)
  BY DeliveryLimits, SetupTypes DEF SetupInv
<1>2. /\ Min({MaxProven, Len(setup.cards)}) \in {MaxProven, Len(setup.cards)}
      /\ Min({MaxProven, Len(setup.cards)}) <= MaxProven
      /\ Min({MaxProven, Len(setup.cards)}) <= Len(setup.cards)
  <2>1. MaxProven \in Int /\ Len(setup.cards) \in Int  BY <1>1
  <2> QED BY <2>1, SmallerOfTwo
<1>3. setup.at <= Min({MaxProven, Len(setup.cards)}) /\ setup.phase = "prove"  BY DEF Proving
<1> QED BY <1>1, <1>2, <1>3

LEMMA SetupStepKeeps == ASSUME ChaseInv, SetupInv, SetupStep PROVE ChaseInv' /\ SetupInv'
<1>0. setup \in Setups  BY DEF SetupInv
<1>1. CASE SetupFails \/ NoSampleFound \/ NoResultLinks \/ NoContainer
  <2>1. UNCHANGED chase /\ setup.phase # "done"
    BY <1>1 DEF SetupFails, NoSampleFound, NoResultLinks, NoContainer, SetupAt
  <2>2. \E status \in Failures : EndSetup(status)
    BY <1>1 DEF SetupFails, NoSampleFound, NoResultLinks, NoContainer, Failures
  <2> QED BY <2>1, <2>2, SetupEnds DEF ChaseInv
<1>2. CASE FindSearchForm \/ TrySample \/ ReadSearchPage \/ InspectExample
  <2>1. /\ UNCHANGED chase /\ setup.phase # "done" /\ setup.status = "none"
        /\ setup.samples \in 0 .. MaxSamples /\ MaxSamples \in Nat
    BY <1>0, <1>2, DeliveryLimits, SetupTypes
       DEF FindSearchForm, TrySample, ReadSearchPage, InspectExample, SetupAt, SetupInv
  <2>2. /\ setup' \in Setups /\ setup'.cards = setup.cards /\ setup'.proof = setup.proof
        /\ setup'.status = setup.status
    <3>1. CASE FindSearchForm  
      <4>1. PICK samples \in 1 .. MaxSamples :
              setup' = [setup EXCEPT !.phase = "sample", !.samples = samples]
        BY <3>1 DEF FindSearchForm
      <4>2. samples \in 0 .. MaxSamples  BY <2>1, <4>1
      <4> QED BY <1>0, <4>1, <4>2 DEF Setups
    <3>2. CASE TrySample
      <4>1. PICK shown \in BOOLEAN :
              setup' = [setup EXCEPT !.samples = @ - 1, !.phase = IF shown THEN "page" ELSE @]
        BY <3>2 DEF TrySample
      <4>2. setup.samples - 1 \in 0 .. MaxSamples
        <5>1. setup.samples > 0  BY <3>2 DEF TrySample
        <5> QED BY <2>1, <5>1
      <4> QED BY <1>0, <4>1, <4>2 DEF Setups
    <3>3. CASE ReadSearchPage  BY <1>0, <3>3 DEF ReadSearchPage, Setups
    <3>4. CASE InspectExample  BY <1>0, <3>4 DEF InspectExample, Setups, Kinds
    <3> QED BY <1>2, <3>1, <3>2, <3>3, <3>4
  <2> QED BY <2>1, <2>2, SetupMovesOn DEF ChaseInv
<1>3. CASE RenderPage
  <2>1. UNCHANGED chase /\ setup.phase = "render" /\ setup.status = "none"
    BY <1>3 DEF RenderPage, SetupAt, SetupInv
  <2>2. CASE setup' = [setup EXCEPT !.phase = "match"]
    <3>1. /\ setup' \in Setups /\ setup'.cards = setup.cards /\ setup'.proof = setup.proof
          /\ setup'.status = setup.status
      BY <1>0, <2>2 DEF Setups
    <3> QED BY <2>1, <3>1, SetupMovesOn DEF ChaseInv
  <2>3. CASE EndSetup("javascript-rendering-required")
    BY <2>1, <2>3, SetupEnds DEF ChaseInv, Failures
  <2> QED BY <1>3, <2>2, <2>3 DEF RenderPage
<1>4. CASE ReadCards
  <2>1. PICK n \in 2 .. MaxCards, cards \in UNION {[1 .. m -> Card] : m \in Nat} :
          /\ cards \in [1 .. n -> Card]
          /\ setup' = [setup EXCEPT !.phase = "prove", !.cards = cards,
                                    !.proof = [i \in 1 .. n |-> NoPage]]
    <3>1. \A n \in 2 .. MaxCards : n \in Nat  OBVIOUS
    <3> QED BY <1>4, <3>1 DEF ReadCards, Card, ChasePages
  <2> DEFINE proof == [i \in 1 .. n |-> NoPage]
  <2>2. /\ cards \in Seq(Card) /\ Len(cards) = n
        /\ proof \in Seq(Delivered \cup {NoPage}) /\ Len(proof) = n
        /\ \A i \in DOMAIN proof : proof[i] = NoPage
    BY <2>1
  <2> HIDE DEF proof
  <2>3. setup' = [setup EXCEPT !.phase = "prove", !.cards = cards, !.proof = proof]
    BY <2>1 DEF proof
  <2>4. setup.phase = "match" /\ UNCHANGED chase /\ setup.status = "none"
    BY <1>4 DEF ReadCards, SetupAt, SetupInv
  <2>5. /\ setup' \in Setups /\ setup'.cards = cards /\ setup'.proof = proof
        /\ setup'.status = "none"
    BY <1>0, <2>2, <2>3, <2>4 DEF Setups
  <2> QED BY <2>2, <2>4, <2>5 DEF SetupInv, SetupProvesDelivery, ChaseInv
<1>5. CASE ProveCard
  <2>1. /\ UNCHANGED setup /\ setup.at \in 1 .. Len(setup.cards)
        /\ chase' = ChaseFrom(setup.cards[setup.at].page)
    BY <1>5, TriedCards DEF ProveCard, StartChase, SetupInv
  <2>2. setup.cards[setup.at].page \in ChasePages  
    <3>1. setup.cards[setup.at] \in Card  BY <1>0, <2>1, SetupTypes
    <3> QED BY <3>1 DEF Card
  <2>3. ChaseInv'  BY <2>1, <2>2, ChaseStarts DEF ChaseInv
  <2> QED BY <2>1, <2>3 DEF SetupInv, SetupProvesDelivery
<1>6. CASE CardProven
  <2>1. chase' = NoChase /\ Proving  BY <1>6 DEF CardProven
  <2>2. ChaseInv'  BY <2>1, NoChaseYet DEF ChaseInv
  <2>3. /\ setup.at \in 1 .. Len(setup.proof) /\ setup.at <= MaxProven
        /\ setup.phase = "prove" /\ setup.status = "none"
    BY <2>1, TriedCards DEF SetupInv
  <2>4. CASE EndSetup("failed")  BY <2>2, <2>3, <2>4, SetupEnds DEF Failures
  <2>5. CASE setup' = [setup EXCEPT !.at = @ + 1, !.proof[setup.at] = chase.url]
    <3>1. chase.url \in Delivered \cup {NoPage}  BY DEF ChaseInv, Chases
    <3> DEFINE proof == [setup.proof EXCEPT ![setup.at] = chase.url]
    <3>2. /\ proof \in Seq(Delivered \cup {NoPage}) /\ Len(proof) = Len(setup.proof)
          /\ DOMAIN proof = DOMAIN setup.proof
          /\ \A i \in DOMAIN proof : i # setup.at => proof[i] = setup.proof[i]
      <4>1. setup.proof \in Seq(Delivered \cup {NoPage})  BY <1>0, SetupTypes
      <4> QED BY <2>3, <3>1, <4>1
    <3>3. setup' = [setup EXCEPT !.at = setup.at + 1, !.proof = proof]
      BY <1>0, <2>5 DEF Setups
    <3> HIDE DEF proof
    <3>4. /\ setup' \in Setups /\ setup'.cards = setup.cards /\ setup'.proof = proof
          /\ setup'.status = setup.status /\ setup'.phase = setup.phase
      <4>1. setup.at + 1 \in Nat \ {0}  BY <1>0, SetupTypes
      <4> QED BY <1>0, <3>2, <3>3, <4>1 DEF Setups
    <3> QED BY <2>2, <2>3, <3>2, <3>4 DEF SetupInv, SetupProvesDelivery
  <2> QED BY <1>6, <2>4, <2>5 DEF CardProven
<1>7. CASE JudgeCards
  <2>1. UNCHANGED chase /\ setup.phase = "prove"  BY <1>7 DEF JudgeCards, SetupAt
  <2>2. ASSUME NEW i \in DOMAIN setup.cards, Valid(i), EndSetup("working")
        PROVE  SetupInv'
    <3>1. setup' = [setup EXCEPT !.phase = "done", !.status = "working"]
      BY <2>2 DEF EndSetup
    <3>2. /\ setup' \in Setups /\ setup'.cards = setup.cards /\ setup'.proof = setup.proof
          /\ setup'.kind = setup.kind /\ setup'.phase = "done"
      BY <1>0, <3>1 DEF Setups
    <3>3. i \in DOMAIN setup.proof /\ setup.proof[i] \in Delivered \cup {NoPage}
      <4>1. setup.proof \in Seq(Delivered \cup {NoPage}) /\ DOMAIN setup.proof = DOMAIN setup.cards
        BY <1>0, SetupTypes DEF SetupInv
      <4> QED BY <2>2, <4>1
    <3>4. /\ setup.cards[i].title /\ setup.cards[i].page # NoPage
          /\ setup.kind = "direct-file" => i <= MaxProven /\ setup.proof[i] \in Delivered
      BY <2>2, <3>3 DEF Valid, SetupInv
    <3>5. SetupProvesDelivery'  BY <2>2, <3>2, <3>4 DEF SetupProvesDelivery
    <3> QED BY <3>2, <3>5 DEF SetupInv
  <2>3. ASSUME NEW status \in Failures, EndSetup(status) PROVE SetupInv'
    <3>1. setup.phase # "done"  BY <2>1
    <3> QED BY <2>3, <3>1, SetupEnds
  <2>4. ChaseInv'  BY <2>1 DEF ChaseInv
  <2>5. \/ \E i \in DOMAIN setup.cards : Valid(i) /\ EndSetup("working")
        \/ \E status \in Failures : EndSetup(status)
    BY <1>7 DEF JudgeCards, Failures
  <2> QED BY <2>2, <2>3, <2>4, <2>5
<1>8. CASE ChaseStep /\ UNCHANGED setup
  BY <1>8, ChaseStepKeeps DEF SetupInv, SetupProvesDelivery
<1> QED BY <1>1, <1>2, <1>3, <1>4, <1>5, <1>6, <1>7, <1>8 DEF SetupStep

-----------------------------------------------------------------------------
(* The lookup of a selected result.                                        *)

Asked(request) == ToSet(Targets[request.quality])
Qualities == UNION {ToSet(Targets[q]) : q \in DOMAIN Targets}
FoundLink == [from : Candidates, source : Candidates, quality : Qualities,
              listing : Listings \cup {Plain}]
LookPhases == {"look", "rows"}
FindPhases == {"idle", "arrive", "analysis", "delivery", "done"} \cup LookPhases
Statuses == {0, 200, 400, 404, 409, 422, 502}
AnyRequest == Requests \cup {NoFind.request}
AnyCandidate == Candidates \cup {0}
DirectLinks == 0 .. MaxDirect
Finds == [phase : FindPhases, request : AnyRequest, primary : AnyCandidate,
          rest : Seq(Candidates), todo : Seq(Qualities), open : SUBSET Listings,
          alone : BOOLEAN, rows : SUBSET Listings, direct : DirectLinks,
          links : SUBSET FoundLink, status : Statuses, answer : SUBSET FoundLink,
          fallback : BOOLEAN, number : Nat]

\* What a request, or the key of a cached answer, promises of a link.
LinkFits(link, asked, fallback) ==
  /\ link.quality \in Asked(asked)
  /\ asked.season # 0 => /\ KindOf(link.listing) = "Season Zip"
                         /\ link.listing.season = asked.season
  /\ asked.episode # 0 => fallback \/ IsExact(link.listing, asked)

\* During the lookup, every link is of the source that is being asked.
LookIsOfOne ==
  /\ find.request \in Requests /\ find.request.type = "generic"
  /\ find.primary \in Candidates
  /\ find.todo \in Seq(Asked(find.request))
  /\ find.phase = "rows" => find.todo # <<>>
  /\ \A l \in find.links : l.from = find.primary /\ l.quality \in Asked(find.request)
  /\ \A entry \in findCache : entry.key # CacheKey(find.request)

FindInv ==
  /\ find \in Finds
  /\ find.phase # "idle" => find.request \in Requests
  /\ find.phase # "rows" => find.open = {} /\ find.rows = {}
  /\ find.phase = "arrive" => find.links = {}
  /\ find.phase \in LookPhases => LookIsOfOne
  /\ \A l \in find.answer : l.source = l.from
  /\ find.phase = "done" => \A l \in find.answer : LinkFits(l, find.request, find.fallback)

\* The cache: one answer for a key, and it fits every request with that key.
CacheInv ==
  /\ \A e1, e2 \in findCache : e1.key = e2.key => e1 = e2
  /\ \A entry \in findCache :
       /\ entry.links \in SUBSET FoundLink /\ entry.fallback \in BOOLEAN
       /\ \A l \in entry.links : l.source = l.from /\ LinkFits(l, entry.key, entry.fallback)

LEMMA GenericRequest ==
  ASSUME NEW r \in Requests, r.type = "generic"
  PROVE  /\ r.candidate \in Candidates /\ r.failover \in Seq(Candidates)
         /\ r.quality \in DOMAIN Targets
         /\ Targets[r.quality] \in Seq(Asked(r)) /\ Asked(r) \subseteq Qualities
BY FindAssumption DEF Asked, Qualities

LEMMA NoFindYet ==
  /\ NoFind \in Finds /\ NoFind.links = {} /\ NoFind.answer = {} /\ NoFind.open = {}
  /\ NoFind.rows = {} /\ NoFind.phase = "idle"
<1>1. /\ 0 \in DirectLinks /\ NoFind.request \in AnyRequest /\ NoFind.phase \in FindPhases
      /\ 0 \in AnyCandidate /\ 0 \in Statuses /\ <<>> \in Seq(Candidates) /\ <<>> \in Seq(Qualities)
      /\ {} \in SUBSET Listings /\ {} \in SUBSET FoundLink /\ 0 \in Nat
  BY FindAssumption DEF DirectLinks, AnyRequest, FindPhases, AnyCandidate, Statuses, NoFind
<1>2. NoFind.request = [type |-> "none"]  BY DEF NoFind
<1>3. [type |-> "none"] \in AnyRequest  BY <1>1, <1>2
<1>4. "idle" \in FindPhases  BY DEF FindPhases
<1> QED BY <1>1, <1>3, <1>4 DEF NoFind, Finds

LEMMA FirstRequest ==
  ASSUME NEW request \in Requests, Ask(request), FindInv PROVE FindInv'
<1>1. find' = [NoFind EXCEPT !.request = request, !.number = find.number + 1, !.phase = "arrive"]
      /\ find.number + 1 \in Nat
  BY DEF Ask, FindInv, Finds
<1>2. "arrive" \in FindPhases /\ request \in AnyRequest /\ "arrive" \notin LookPhases
  BY DEF FindPhases, AnyRequest, LookPhases
<1>3. /\ find' \in Finds /\ find'.phase = "arrive" /\ find'.request = request
      /\ find'.links = {} /\ find'.answer = {} /\ find'.open = {} /\ find'.rows = {}
  BY <1>1, <1>2, NoFindYet DEF Finds
<1> QED BY <1>2, <1>3 DEF FindInv

\* An answer that fits, from a phase without workers.
LEMMA RepliesKeeps ==
  ASSUME FindInv, find.phase \notin {"idle", "rows"},
         NEW status \in Statuses, NEW links \in SUBSET FoundLink,
         NEW fallback \in BOOLEAN, Replies(status, links, fallback),
         \A l \in links : l.source = l.from /\ LinkFits(l, find.request, fallback)
  PROVE  FindInv'
<1>1. /\ find \in Finds /\ find.request \in Requests /\ find.open = {} /\ find.rows = {}
      /\ find' = [find EXCEPT !.phase = "done", !.status = status, !.answer = links,
                              !.fallback = fallback]
  BY DEF FindInv, Replies
<1>2. "done" \in FindPhases /\ "done" \notin LookPhases  BY DEF FindPhases, LookPhases
<1>3. /\ find' \in Finds /\ find'.phase = "done" /\ find'.request = find.request
      /\ find'.answer = links /\ find'.fallback = fallback
      /\ find'.open = {} /\ find'.rows = {}
  BY <1>1, <1>2 DEF Finds
<1> QED BY <1>1, <1>2, <1>3 DEF FindInv

LEMMA EmptyReply ==
  ASSUME FindInv, find.phase \notin {"idle", "rows"},
         NEW status \in Statuses, Replies(status, {}, FALSE)
  PROVE  FindInv'
<1>1. {} \in SUBSET FoundLink /\ FALSE \in BOOLEAN  OBVIOUS
<1>2. \A l \in {} : l.source = l.from /\ LinkFits(l, find.request, FALSE)  OBVIOUS
<1> QED BY <1>1, <1>2, RepliesKeeps

\* The request goes on to the analysis or to the delivery walk.
LEMMA GoesKeeps ==
  ASSUME FindInv, find.phase = "arrive", NEW phase \in {"analysis", "delivery"}, Goes(phase)
  PROVE  FindInv'
<1>1. /\ find \in Finds /\ find' = [find EXCEPT !.phase = phase] /\ find.request \in Requests
      /\ find.open = {} /\ find.rows = {} /\ \A l \in find.answer : l.source = l.from
  BY DEF FindInv, Goes
<1>2. phase \in FindPhases /\ phase \notin LookPhases  BY DEF FindPhases, LookPhases
<1>3. /\ find' \in Finds /\ find'.phase = phase /\ find'.request = find.request
      /\ find'.answer = find.answer /\ find'.open = find.open /\ find'.rows = find.rows
  BY <1>1, <1>2 DEF Finds
<1> QED BY <1>1, <1>2, <1>3 DEF FindInv

\* A step of the lookup that keeps its promises.
LEMMA LookKeeps ==
  ASSUME FindInv, find' \in Finds, find'.phase \in LookPhases, findCache' = findCache,
         find'.request = find.request, find'.answer = find.answer,
         find'.phase = "look" => find'.open = {} /\ find'.rows = {},
         LookIsOfOne'
  PROVE  FindInv'
BY DEF FindInv, LookPhases, LookIsOfOne

\* The lookup leaves a quality for the next one: links of this source, and of
\* qualities that were asked for, may have been added.
LEMMA QualityDone ==
  ASSUME FindInv, find.phase \in LookPhases, findCache' = findCache,
         NEW links \in SUBSET FoundLink,
         \A l \in links : l.from = find.primary /\ l.quality \in Asked(find.request),
         NEW todo \in Seq(Asked(find.request)),
         find' = [NextQuality EXCEPT !.todo = todo, !.links = links]
  PROVE  FindInv'
<1>1. find \in Finds /\ LookIsOfOne  BY DEF FindInv
<1>2. find' = [find EXCEPT !.todo = todo, !.phase = "look", !.rows = {}, !.open = {},
                           !.direct = 0, !.links = links]
  BY <1>1 DEF NextQuality, Finds
<1>3. /\ "look" \in FindPhases /\ "look" \in LookPhases /\ 0 \in DirectLinks
      /\ {} \in SUBSET Listings
  BY FindAssumption DEF FindPhases, LookPhases, DirectLinks
<1>4. todo \in Seq(Qualities)
  <2>1. Asked(find.request) \subseteq Qualities  BY <1>1, GenericRequest DEF LookIsOfOne
  <2> QED BY <2>1
<1>5. /\ find' \in Finds /\ find'.phase = "look" /\ find'.request = find.request
      /\ find'.answer = find.answer /\ find'.open = {} /\ find'.rows = {}
      /\ find'.links = links /\ find'.todo = todo /\ find'.primary = find.primary
  BY <1>1, <1>2, <1>3, <1>4 DEF Finds
<1>6. LookIsOfOne'  BY <1>1, <1>5 DEF LookIsOfOne
<1> QED BY <1>3, <1>5, <1>6, LookKeeps

LEMMA HeadAndTail ==
  ASSUME NEW S, NEW s \in Seq(S), s # <<>> PROVE Head(s) \in S /\ Tail(s) \in Seq(S)
OBVIOUS

\* What is known of a lookup under way.
LEMMA LookFacts ==
  ASSUME FindInv, find.phase \in LookPhases
  PROVE  /\ LookIsOfOne /\ find \in Finds /\ find.links \in SUBSET FoundLink
         /\ find.primary \in Candidates /\ Asked(find.request) \subseteq Qualities
         /\ find.todo \in Seq(Asked(find.request))
         /\ find.todo # <<>> => /\ Quality \in Asked(find.request)
                                /\ Tail(find.todo) \in Seq(Asked(find.request))
<1>1. find \in Finds /\ LookIsOfOne  BY DEF FindInv
<1>2. Asked(find.request) \subseteq Qualities  BY <1>1, GenericRequest DEF LookIsOfOne
<1>3. find.todo \in Seq(Asked(find.request))  BY <1>1 DEF LookIsOfOne
<1>4. find.todo # <<>> => /\ Head(find.todo) \in Asked(find.request)
                          /\ Tail(find.todo) \in Seq(Asked(find.request))
  BY <1>3, HeadAndTail
<1>5. find.links \in SUBSET FoundLink  BY <1>1 DEF Finds
<1> QED BY <1>1, <1>2, <1>3, <1>4, <1>5 DEF LookIsOfOne, Quality

LEMMA LinkIsFound ==
  ASSUME NEW from \in Candidates, NEW quality \in Qualities, NEW l \in Listings \cup {Plain}
  PROVE  /\ Link(from, quality, l) \in FoundLink
         /\ Link(from, quality, l).from = from /\ Link(from, quality, l).quality = quality
BY DEF Link, FoundLink

LEMMA LookUpKeeps == ASSUME FindInv, LookUp PROVE FindInv'
<1>1. /\ find \in Finds /\ find.phase = "arrive" /\ find.request.type = "generic"
      /\ find.request \in Requests /\ find.links = {} /\ find.open = {} /\ find.rows = {}
      /\ UNCHANGED findCache /\ \A entry \in findCache : entry.key # CacheKey(find.request)
      /\ find' = [find EXCEPT !.phase = "look", !.primary = find.request.candidate,
                    !.todo = Targets[find.request.quality], !.rest = find.request.failover]
      /\ \A l \in find.answer : l.source = l.from
  BY DEF FindInv, LookUp, Checked, Arrived, FindOnly
<1>2. /\ find.request.candidate \in Candidates /\ find.request.failover \in Seq(Candidates)
      /\ Targets[find.request.quality] \in Seq(Asked(find.request))
      /\ Asked(find.request) \subseteq Qualities
  BY <1>1, GenericRequest
<1>3. /\ "look" \in FindPhases /\ "look" \in LookPhases
      /\ find.request.candidate \in AnyCandidate
      /\ Targets[find.request.quality] \in Seq(Qualities)
  BY <1>2 DEF FindPhases, LookPhases, AnyCandidate
<1>4. /\ find' \in Finds /\ find'.phase = "look" /\ find'.request = find.request
      /\ find'.primary = find.request.candidate /\ find'.todo = Targets[find.request.quality]
      /\ find'.links = {} /\ find'.open = {} /\ find'.rows = {} /\ find'.answer = find.answer
  BY <1>1, <1>2, <1>3 DEF Finds
<1>5. LookIsOfOne'  BY <1>1, <1>2, <1>4 DEF LookIsOfOne
<1> QED BY <1>1, <1>3, <1>4, <1>5 DEF FindInv

\* A page that lists its links, whether they are resolved at once or later.
LEMMA PageListed ==
  ASSUME FindInv, Looking, findCache' = findCache,
         NEW shown \in SUBSET (Listings \cup {Plain}),
         find' = [NextQuality EXCEPT
                    !.links = @ \cup {Link(find.primary, Quality, l) : l \in shown}]
  PROVE  FindInv'
<1>1. find.phase \in LookPhases /\ find.todo # <<>>  BY DEF Looking, LookPhases
<1>2. /\ LookIsOfOne /\ find \in Finds /\ find.links \in SUBSET FoundLink
      /\ find.primary \in Candidates /\ Asked(find.request) \subseteq Qualities
      /\ Quality \in Asked(find.request) /\ Tail(find.todo) \in Seq(Asked(find.request))
  BY <1>1, LookFacts
<1> DEFINE links == find.links \cup {Link(find.primary, Quality, l) : l \in shown}
<1>3. /\ links \in SUBSET FoundLink
      /\ \A l \in links : l.from = find.primary /\ l.quality \in Asked(find.request)
  BY <1>2, LinkIsFound DEF LookIsOfOne
<1>4. find' = [NextQuality EXCEPT !.todo = Tail(find.todo), !.links = links]
  <2>1. NextQuality.todo = Tail(find.todo) /\ NextQuality.links = find.links
    BY <1>2 DEF NextQuality, Finds
  <2>2. NextQuality = [NextQuality EXCEPT !.todo = Tail(find.todo)]
    BY <1>2, <2>1 DEF NextQuality, Finds
  <2> QED BY <1>2, <2>1, <2>2 DEF NextQuality, Finds
<1> HIDE DEF links
<1> QED BY <1>1, <1>2, <1>3, <1>4, QualityDone

LEMMA ListSeriesKeeps == ASSUME FindInv, ListSeries PROVE FindInv'
<1>1. PICK shown \in SUBSET Listings :
        find' = [NextQuality EXCEPT
                   !.links = @ \cup {Link(find.primary, Quality, l) : l \in shown}]
  BY DEF ListSeries
<1>2. Looking /\ findCache' = findCache /\ shown \in SUBSET (Listings \cup {Plain})
  BY <1>1 DEF ListSeries, FindOnly
<1> QED BY <1>1, <1>2, PageListed

LEMMA FastOptionsKeeps == ASSUME FindInv, FastOptions PROVE FindInv'
<1>1. find' = [NextQuality EXCEPT !.links = @ \cup {Link(find.primary, Quality, l) : l \in {Plain}}]
  <2>1. {Link(find.primary, Quality, l) : l \in {Plain}} = {Link(find.primary, Quality, Plain)}
    OBVIOUS
  <2> QED BY <2>1 DEF FastOptions
<1>2. Looking /\ findCache' = findCache /\ {Plain} \in SUBSET (Listings \cup {Plain})
  BY DEF FastOptions, FindOnly
<1> QED BY <1>1, <1>2, PageListed

\* A quality that is left without a link of it, or by an error.
LEMMA QualityLeft ==
  ASSUME FindInv, find.phase \in LookPhases, findCache' = findCache,
         NEW todo \in Seq(Asked(find.request)), find' = [NextQuality EXCEPT !.todo = todo]
  PROVE  FindInv'
<1>1. LookIsOfOne /\ find \in Finds /\ find.links \in SUBSET FoundLink  BY LookFacts
<1>2. find' = [NextQuality EXCEPT !.todo = todo, !.links = find.links]
  BY <1>1 DEF NextQuality, Finds
<1> QED BY <1>1, <1>2, QualityDone DEF LookIsOfOne

LEMMA NextQualityKeeps ==
  ASSUME FindInv, find.phase \in LookPhases, find.todo # <<>>, findCache' = findCache,
         find' = NextQuality
  PROVE  FindInv'
<1>1. find \in Finds /\ Tail(find.todo) \in Seq(Asked(find.request))  BY LookFacts
<1>2. find' = [NextQuality EXCEPT !.todo = Tail(find.todo)]
  BY <1>1 DEF NextQuality, Finds
<1> QED BY <1>1, <1>2, QualityLeft

LEMMA OpenListingsKeeps == ASSUME FindInv, OpenListings PROVE FindInv'
<1>1. PICK shown \in SUBSET Listings :
        find' = IF shown = {} THEN NextQuality
                ELSE [find EXCEPT !.phase = "rows", !.open = shown,
                                  !.alone = Cardinality(shown) = 1]
  BY DEF OpenListings
<1>2. find.phase \in LookPhases /\ find.todo # <<>> /\ findCache' = findCache
  BY DEF OpenListings, Looking, LookPhases, FindOnly
<1>3. CASE shown = {}  BY <1>1, <1>2, <1>3, NextQualityKeeps
<1>4. CASE shown # {}
  <2>1. find' = [find EXCEPT !.phase = "rows", !.open = shown, !.alone = Cardinality(shown) = 1]
    BY <1>1, <1>4
  <2>2. LookIsOfOne /\ find \in Finds  BY <1>2, LookFacts
  <2>3. "rows" \in FindPhases /\ "rows" \in LookPhases /\ (Cardinality(shown) = 1) \in BOOLEAN
    BY DEF FindPhases, LookPhases
  <2>4. /\ find' \in Finds /\ find'.phase = "rows" /\ find'.request = find.request
        /\ find'.answer = find.answer /\ find'.links = find.links /\ find'.todo = find.todo
        /\ find'.primary = find.primary
    BY <2>1, <2>2, <2>3 DEF Finds
  <2>5. LookIsOfOne'  BY <1>2, <2>2, <2>4 DEF LookIsOfOne
  <2> QED BY <1>2, <2>3, <2>4, <2>5, LookKeeps
<1> QED BY <1>3, <1>4

\* Of the workers' rows, and of the links taken from them.
LEMMA RowsMoveOn ==
  ASSUME FindInv, find.phase = "rows", findCache' = findCache,
         find' \in Finds, find'.phase = "rows",
         find'.request = find.request, find'.answer = find.answer, find'.todo = find.todo,
         find'.primary = find.primary,
         \A l \in find'.links : l.from = find.primary /\ l.quality \in Asked(find.request)
  PROVE  FindInv'
<1>1. LookIsOfOne /\ find.todo # <<>>  BY DEF FindInv, LookPhases, LookIsOfOne
<1>2. LookIsOfOne'  BY <1>1 DEF LookIsOfOne
<1> QED BY <1>2, LookKeeps DEF LookPhases

LEMMA ListingDoneKeeps == ASSUME FindInv, NEW l \in Listings, ListingDone(l) PROVE FindInv'
<1>1. PICK row \in {"direct", "leads", "none"} :
        find' = [find EXCEPT !.open = @ \ {l},
                   !.rows = IF row = "none" THEN @ ELSE @ \cup {l},
                   !.direct = IF row = "direct" THEN @ + 1 ELSE @]
  BY DEF ListingDone
<1>2. find.phase = "rows" /\ find.direct < MaxDirect /\ findCache' = findCache
  BY DEF ListingDone, Harvesting, FindOnly
<1>3. find \in Finds /\ LookIsOfOne  BY <1>2, LookFacts DEF LookPhases
<1> DEFINE rows == IF row = "none" THEN find.rows ELSE find.rows \cup {l}
           direct == IF row = "direct" THEN find.direct + 1 ELSE find.direct
<1>4. rows \in SUBSET Listings /\ find.open \ {l} \in SUBSET Listings  BY <1>3 DEF Finds
<1>5. direct \in DirectLinks
  <2>1. find.direct \in DirectLinks  BY <1>3 DEF Finds
  <2> QED BY <1>2, <2>1, FindAssumption DEF DirectLinks
<1>6. find' = [find EXCEPT !.open = find.open \ {l}, !.rows = rows, !.direct = direct]
  BY <1>1, <1>3 DEF Finds
<1> HIDE DEF rows, direct
<1>7. /\ find' \in Finds /\ find'.phase = "rows" /\ find'.request = find.request
      /\ find'.answer = find.answer /\ find'.links = find.links /\ find'.todo = find.todo
      /\ find'.primary = find.primary
  BY <1>2, <1>3, <1>4, <1>5, <1>6 DEF Finds
<1> QED BY <1>2, <1>3, <1>7, RowsMoveOn DEF LookIsOfOne

LEMMA TakeRowKeeps == ASSUME FindInv, NEW l \in Listings, TakeRow(l) PROVE FindInv'
<1>1. find.phase = "rows" /\ findCache' = findCache  BY DEF TakeRow, FindOnly
<1>2. /\ LookIsOfOne /\ find \in Finds /\ find.links \in SUBSET FoundLink
      /\ find.primary \in Candidates /\ Asked(find.request) \subseteq Qualities
      /\ find.todo # <<>> /\ Quality \in Asked(find.request)
  BY <1>1, LookFacts DEF LookPhases, LookIsOfOne
<1> DEFINE link == Link(find.primary, Quality, l)
           same == {other \in find.links : SameLabel(other, l)}
<1>3. PICK links \in {find.links, find.links \cup {link}, (find.links \ same) \cup {link}} :
        find' = [find EXCEPT !.rows = @ \ {l}, !.links = links]
  BY DEF TakeRow
<1>4. link \in FoundLink /\ link.from = find.primary /\ link.quality = Quality
  BY <1>2, LinkIsFound
<1>5. links \subseteq find.links \cup {link}  BY <1>3
<1> HIDE DEF link, same
<1>6. /\ links \in SUBSET FoundLink
      /\ \A k \in links : k.from = find.primary /\ k.quality \in Asked(find.request)
  BY <1>2, <1>4, <1>5 DEF LookIsOfOne
<1>7. find.rows \ {l} \in SUBSET Listings  BY <1>2 DEF Finds
<1>8. find' = [find EXCEPT !.rows = find.rows \ {l}, !.links = links]
  BY <1>2, <1>3 DEF Finds
<1>9. /\ find' \in Finds /\ find'.phase = "rows" /\ find'.request = find.request
      /\ find'.answer = find.answer /\ find'.links = links /\ find'.todo = find.todo
      /\ find'.primary = find.primary
  BY <1>1, <1>2, <1>6, <1>7, <1>8 DEF Finds
<1> QED BY <1>1, <1>6, <1>9, RowsMoveOn

LEMMA RowsTakenKeeps == ASSUME FindInv, RowsTaken PROVE FindInv'
<1>1. find.phase \in LookPhases /\ find.phase = "rows" /\ findCache' = findCache
      /\ find' = NextQuality
  BY DEF RowsTaken, LookPhases, FindOnly
<1>2. find.todo # <<>>  BY <1>1, LookFacts DEF LookIsOfOne
<1> QED BY <1>1, <1>2, NextQualityKeeps

LEMMA LookUpFailsKeeps == ASSUME FindInv, LookUpFails PROVE FindInv'
<1>1. /\ find.phase \in LookPhases /\ findCache' = findCache
      /\ find' = [NextQuality EXCEPT !.todo = <<>>]
  BY DEF LookUpFails, Looking, LookPhases, FindOnly
<1>2. <<>> \in Seq(Asked(find.request))  OBVIOUS
<1> QED BY <1>1, <1>2, QualityLeft

LEMMA NextSourceKeeps == ASSUME FindInv, NextSource PROVE FindInv'
<1>1. /\ find.phase = "look" /\ find.todo = <<>> /\ find.links = {} /\ find.rest # <<>>
      /\ findCache' = findCache
      /\ find' = IF Head(find.rest) \in Series THEN [find EXCEPT !.rest = Tail(@)]
                 ELSE [find EXCEPT !.rest = Tail(@), !.primary = Head(find.rest),
                                   !.todo = Targets[find.request.quality]]
  BY DEF NextSource, Looked, FindOnly
<1>2. "look" \in LookPhases  BY DEF LookPhases
<1>3. LookIsOfOne /\ find \in Finds  BY <1>1, <1>2, LookFacts
<1>4. find.rest \in Seq(Candidates)  BY <1>3 DEF Finds
<1>5. Head(find.rest) \in Candidates /\ Tail(find.rest) \in Seq(Candidates)  BY <1>1, <1>4
<1>6. find.open = {} /\ find.rows = {}  BY <1>1 DEF FindInv
<1>7. CASE Head(find.rest) \in Series
  <2>1. find' = [find EXCEPT !.rest = Tail(find.rest)]  BY <1>1, <1>3, <1>7 DEF Finds
  <2>2. /\ find' \in Finds /\ find'.phase = "look" /\ find'.request = find.request
        /\ find'.answer = find.answer /\ find'.links = {} /\ find'.todo = find.todo
        /\ find'.primary = find.primary /\ find'.open = {} /\ find'.rows = {}
    BY <1>1, <1>3, <1>5, <1>6, <2>1 DEF Finds
  <2>3. LookIsOfOne'  BY <1>1, <1>3, <2>2 DEF LookIsOfOne
  <2> QED BY <1>1, <1>2, <2>2, <2>3, LookKeeps
<1>8. CASE Head(find.rest) \notin Series
  <2>1. find' = [find EXCEPT !.rest = Tail(find.rest), !.primary = Head(find.rest),
                             !.todo = Targets[find.request.quality]]
    BY <1>1, <1>3, <1>8 DEF Finds
  <2>2. /\ Targets[find.request.quality] \in Seq(Asked(find.request))
        /\ Asked(find.request) \subseteq Qualities
    BY <1>3, GenericRequest DEF LookIsOfOne
  <2>3. Targets[find.request.quality] \in Seq(Qualities) /\ Head(find.rest) \in AnyCandidate
    BY <1>5, <2>2 DEF AnyCandidate
  <2>4. /\ find' \in Finds /\ find'.phase = "look" /\ find'.request = find.request
        /\ find'.answer = find.answer /\ find'.links = {}
        /\ find'.todo = Targets[find.request.quality]
        /\ find'.primary = Head(find.rest) /\ find'.open = {} /\ find'.rows = {}
    BY <1>1, <1>3, <1>5, <1>6, <2>1, <2>3 DEF Finds
  <2>5. LookIsOfOne'  BY <1>1, <1>3, <1>5, <2>2, <2>4 DEF LookIsOfOne
  <2> QED BY <1>1, <1>2, <2>4, <2>5, LookKeeps
<1> QED BY <1>7, <1>8

\* The links that are chosen for a request fit it, and so does the answer that
\* is kept for the key of the request.
LEMMA ChosenFit ==
  ASSUME NEW r \in Requests, NEW links \in SUBSET FoundLink,
         \A l \in links : l.source = l.from /\ l.quality \in Asked(r),
         NEW fallback \in BOOLEAN,
         fallback <=> r.episode # 0 /\ \A l \in links : ~IsExact(l.listing, r)
  PROVE  /\ Selected(links, r) \in SUBSET links
         /\ \A l \in Selected(links, r) : LinkFits(l, r, fallback)
<1> DEFINE exact == {l \in links : IsExact(l.listing, r)}
           chosen == IF exact # {} THEN exact ELSE links
<1>1. chosen \subseteq links  OBVIOUS
<1>2. \A l \in chosen : r.episode # 0 => fallback \/ IsExact(l.listing, r)  OBVIOUS
<1>3. Selected(links, r) =
        IF r.season = 0 THEN chosen
        ELSE {l \in chosen : KindOf(l.listing) = "Season Zip" /\ l.listing.season = r.season}
  BY DEF Selected
<1> HIDE DEF chosen
<1>4. Selected(links, r) \subseteq chosen  BY <1>3
<1>5. \A l \in Selected(links, r) : r.season # 0 => /\ KindOf(l.listing) = "Season Zip"
                                                    /\ l.listing.season = r.season
  BY <1>3
<1> QED BY <1>1, <1>2, <1>4, <1>5 DEF LinkFits

\* A key and the requests that have it ask for the same.
LEMMA KeyAsksTheSame ==
  ASSUME NEW r \in Requests, NEW key, key = CacheKey(r), NEW l, NEW fallback \in BOOLEAN
  PROVE  LinkFits(l, r, fallback) <=> LinkFits(l, key, fallback)
<1>1. /\ key.quality = r.quality /\ key.season = r.season /\ key.episode = r.episode
      /\ key.episodeSeason = r.episodeSeason
  BY DEF CacheKey
<1>2. Asked(key) = Asked(r)  BY <1>1 DEF Asked
<1>3. IsExact(l.listing, key) <=> IsExact(l.listing, r)  BY <1>1 DEF IsExact
<1> QED BY <1>1, <1>2, <1>3 DEF LinkFits

LEMMA AnswerFoundKeeps ==
  ASSUME FindInv, CacheInv, AnswerFound PROVE FindInv' /\ CacheInv'
<1>1. find.phase = "look" /\ "look" \in LookPhases  BY DEF AnswerFound, Looked, LookPhases
<1>2. /\ LookIsOfOne /\ find \in Finds /\ find.links \in SUBSET FoundLink
      /\ find.primary \in Candidates /\ find.request \in Requests
  BY <1>1, LookFacts DEF LookIsOfOne
<1> DEFINE fallback == /\ find.request.episode # 0
                       /\ \A l \in find.links : ~IsExact(l.listing, find.request)
           ascribed == Ascribed(find.links)
           links == Selected(ascribed, find.request)
           entry == [key |-> CacheKey(find.request), links |-> links, fallback |-> fallback]
<1>3. /\ ascribed \in SUBSET FoundLink
      /\ \A l \in ascribed : l.source = l.from /\ l.quality \in Asked(find.request)
      /\ fallback <=> find.request.episode # 0
                      /\ \A l \in ascribed : ~IsExact(l.listing, find.request)
  <2>1. \A l \in find.links : l \in FoundLink /\ l.from = find.primary
                              /\ l.quality \in Asked(find.request)
    BY <1>2 DEF LookIsOfOne
  <2>2. \A l \in find.links : /\ [l EXCEPT !.source = find.primary] \in FoundLink
                              /\ [l EXCEPT !.source = find.primary].source = find.primary
                              /\ [l EXCEPT !.source = find.primary].from = find.primary
                              /\ [l EXCEPT !.source = find.primary].quality = l.quality
                              /\ [l EXCEPT !.source = find.primary].listing = l.listing
    BY <1>2, <2>1 DEF FoundLink
  <2>3. ascribed = {[l EXCEPT !.source = find.primary] : l \in find.links}  BY DEF Ascribed
  <2> HIDE DEF ascribed
  <2>4. ascribed \in SUBSET FoundLink  BY <2>2, <2>3
  <2>5. \A l \in ascribed : l.source = l.from /\ l.quality \in Asked(find.request)
    <3>1. SUFFICES ASSUME NEW k \in ascribed
                   PROVE  k.source = k.from /\ k.quality \in Asked(find.request)
      OBVIOUS
    <3>2. PICK l \in find.links : k = [l EXCEPT !.source = find.primary]  BY <2>3
    <3> QED BY <2>1, <2>2, <3>2
  <2>6. (\A l \in ascribed : ~IsExact(l.listing, find.request))
          <=> (\A l \in find.links : ~IsExact(l.listing, find.request))
    <3>1. \A l \in find.links : \E k \in ascribed : k.listing = l.listing  BY <2>2, <2>3
    <3>2. \A k \in ascribed : \E l \in find.links : k.listing = l.listing  BY <2>2, <2>3
    <3>3. \A k, l : k.listing = l.listing =>
            (IsExact(k.listing, find.request) <=> IsExact(l.listing, find.request))
      OBVIOUS
    <3> QED BY <3>1, <3>2, <3>3
  <2> QED BY <2>4, <2>5, <2>6
<1>4. /\ links \in SUBSET FoundLink
      /\ \A l \in links : l.source = l.from /\ LinkFits(l, find.request, fallback)
  BY <1>2, <1>3, ChosenFit
<1>5. Replies(200, links, fallback) /\ findCache' = findCache \cup {entry}
  BY DEF AnswerFound
<1>6. 200 \in Statuses /\ fallback \in BOOLEAN  BY DEF Statuses
<1> HIDE DEF links, fallback
<1>7. FindInv'  BY <1>1, <1>4, <1>5, <1>6, RepliesKeeps
<1>8. CacheInv'
  <2>1. entry.key = CacheKey(find.request) /\ entry.links = links /\ entry.fallback = fallback
    OBVIOUS
  <2>2. \A l \in entry.links : l.source = l.from /\ LinkFits(l, entry.key, entry.fallback)
    BY <1>2, <1>4, <1>6, <2>1, KeyAsksTheSame
  <2>3. \A other \in findCache : other.key # entry.key  BY <1>2, <2>1 DEF LookIsOfOne
  <2> HIDE DEF entry
  <2> QED BY <1>4, <1>5, <1>6, <2>1, <2>2, <2>3 DEF CacheInv
<1> QED BY <1>7, <1>8

LEMMA AnswerCachedKeeps == ASSUME FindInv, CacheInv, AnswerCached PROVE FindInv'
<1>1. /\ find.phase = "arrive" /\ find.request \in Requests
  BY DEF AnswerCached, Checked, Arrived, FindInv
<1>2. PICK entry \in findCache : /\ entry.key = CacheKey(find.request)
                                 /\ Replies(200, entry.links, entry.fallback)
  BY DEF AnswerCached
<1>3. /\ entry.links \in SUBSET FoundLink /\ entry.fallback \in BOOLEAN
      /\ \A l \in entry.links : l.source = l.from /\ LinkFits(l, entry.key, entry.fallback)
  BY <1>2 DEF CacheInv
<1>4. \A l \in entry.links : LinkFits(l, find.request, entry.fallback)
  BY <1>1, <1>2, <1>3, KeyAsksTheSame
<1>5. 200 \in Statuses  BY DEF Statuses
<1> QED BY <1>1, <1>2, <1>3, <1>4, <1>5, RepliesKeeps

\* The steps that answer without a link, on the way or at the end.
LEMMA NothingFound ==
  ASSUME FindInv,
         \/ Reject \/ AdapterUnavailable \/ AdapterLinks \/ AdapterFails \/ AnalysisEnds
         \/ CustomUnavailable \/ CustomDirect \/ DeliveryEnds \/ OtherSeason
  PROVE  FindInv' /\ findCache' = findCache /\ walk' = walk /\ chase' = chase
<1>1. /\ find.phase \in {"arrive", "analysis", "delivery"}
      /\ findCache' = findCache /\ walk' = walk /\ chase' = chase
  BY DEF Reject, AdapterUnavailable, AdapterLinks, AdapterFails, AnalysisEnds,
         CustomUnavailable, CustomDirect, DeliveryEnds, OtherSeason, Arrived, FindOnly
<1>2. \E status \in Statuses : Replies(status, {}, FALSE)
  <2>0. /\ 400 \in Statuses /\ 404 \in Statuses /\ 422 \in Statuses /\ 200 \in Statuses
        /\ 502 \in Statuses /\ 409 \in Statuses
    BY DEF Statuses
  <2>1. CASE Reject
    <3>1. PICK status \in {400, 404} : Replies(status, {}, FALSE)  BY <2>1 DEF Reject
    <3>2. status \in Statuses  BY <2>0
    <3> QED BY <3>1, <3>2
  <2>2. CASE AdapterUnavailable \/ AdapterLinks \/ AdapterFails
    BY <2>0, <2>2 DEF AdapterUnavailable, AdapterLinks, AdapterFails
  <2>3. CASE CustomUnavailable \/ CustomDirect \/ OtherSeason
    BY <2>0, <2>3 DEF CustomUnavailable, CustomDirect, OtherSeason
  <2>4. CASE AnalysisEnds
    <3>1. (IF walk.phase = "raised" THEN 502 ELSE 200) \in Statuses  BY DEF Statuses
    <3> QED BY <2>4, <3>1 DEF AnalysisEnds
  <2>5. CASE DeliveryEnds
    <3>1. (CASE chase.phase = "found" -> 200 [] chase.phase = "lost" -> 422 [] OTHER -> 0)
            \in Statuses
      BY DEF Statuses
    <3> QED BY <2>5, <3>1 DEF DeliveryEnds
  <2> QED BY <2>1, <2>2, <2>3, <2>4, <2>5
<1> QED BY <1>1, <1>2, EmptyReply

-----------------------------------------------------------------------------
(* The parts together.                                                     *)

\* A part that a step leaves alone keeps its invariant.
LEMMA FindAlone == ASSUME FindInv, UNCHANGED <<find, findCache>> PROVE FindInv'
BY DEF FindInv, LookIsOfOne

LEMMA CacheAlone == ASSUME CacheInv, UNCHANGED findCache PROVE CacheInv'
BY DEF CacheInv

LEMMA WalkAlone == ASSUME WalkInv, UNCHANGED walk PROVE WalkInv'
BY DEF WalkInv, BranchesTracked, Verified, BranchesAccounted

LEMMA ChaseAlone == ASSUME ChaseInv, UNCHANGED chase PROVE ChaseInv'
BY DEF ChaseInv

LEMMA SetupAlone == ASSUME SetupInv, UNCHANGED setup PROVE SetupInv'
BY DEF SetupInv, SetupProvesDelivery

\* The invariant of the parts that find links and set sources up.
LinksInv == FindInv /\ CacheInv /\ WalkInv /\ ChaseInv /\ SetupInv

\* An analysis is of a request with a quality.
LEMMA AnalysedQuality ==
  ASSUME FindInv, AnalyseMovie
  PROVE  \E quality \in {r.quality : r \in Requests} : StartWalk(quality)
<1>1. find.request \in Requests  BY DEF FindInv, AnalyseMovie, Arrived
<1> QED BY <1>1 DEF AnalyseMovie

LEMMA FindStepKeeps ==
  ASSUME LinksInv, FindStep PROVE FindInv' /\ CacheInv' /\ WalkInv' /\ ChaseInv'
<1>0. FindInv /\ CacheInv /\ WalkInv /\ ChaseInv  BY DEF LinksInv
<1>1. CASE \/ Reject \/ AdapterUnavailable \/ AdapterLinks \/ AdapterFails \/ AnalysisEnds
           \/ CustomUnavailable \/ CustomDirect \/ DeliveryEnds \/ OtherSeason
  BY <1>0, <1>1, NothingFound, CacheAlone, WalkAlone, ChaseAlone
<1>2. CASE AnalyseMovie
  <2>1. find.phase = "arrive" /\ Goes("analysis") /\ UNCHANGED <<chase, findCache>>
    BY <1>2 DEF AnalyseMovie, Arrived
  <2>2. FindInv'  BY <1>0, <2>1, GoesKeeps
  <2>3. WalkInv'  BY <1>0, <1>2, AnalysedQuality, WalkStarts
  <2> QED BY <1>0, <2>1, <2>2, <2>3, CacheAlone, ChaseAlone
<1>3. CASE AnalysisStep
  BY <1>0, <1>3, WalkStepKeeps, FindAlone, CacheAlone, ChaseAlone DEF AnalysisStep
<1>4. CASE ResolveCustom
  <2>1. /\ find.phase = "arrive" /\ Goes("delivery") /\ UNCHANGED <<walk, findCache>>
        /\ \E page \in Urls : chase' = ChaseFrom(page)
    BY <1>4 DEF ResolveCustom, Arrived, StartChase
  <2>2. FindInv'  BY <1>0, <2>1, GoesKeeps
  <2>3. ChaseInv'
    <3>1. PICK page \in ChasePages : chase' = ChaseFrom(page)  BY <2>1 DEF ChasePages
    <3> QED BY <3>1, ChaseStarts DEF ChaseInv
  <2> QED BY <1>0, <2>1, <2>2, <2>3, CacheAlone, WalkAlone
<1>5. CASE DeliveryStep
  BY <1>0, <1>5, ChaseStepKeeps, FindAlone, CacheAlone, WalkAlone DEF DeliveryStep
<1>6. CASE AnswerCached
  BY <1>0, <1>6, AnswerCachedKeeps, CacheAlone, WalkAlone, ChaseAlone DEF AnswerCached, FindOnly
<1>7. CASE AnswerFound
  BY <1>0, <1>7, AnswerFoundKeeps, WalkAlone, ChaseAlone DEF AnswerFound
<1>8. CASE LookUp \/ LookUpFails \/ ListSeries \/ FastOptions
  <2>1. FindOnly  BY <1>8 DEF LookUp, LookUpFails, ListSeries, FastOptions
  <2>2. FindInv'
    BY <1>0, <1>8, LookUpKeeps, LookUpFailsKeeps, ListSeriesKeeps, FastOptionsKeeps
  <2> QED BY <1>0, <2>1, <2>2, CacheAlone, WalkAlone, ChaseAlone DEF FindOnly
<1>9. CASE OpenListings \/ RowsTaken \/ NextSource \/ \E l \in Listings : ListingDone(l) \/ TakeRow(l)
  <2>1. FindOnly  BY <1>9 DEF OpenListings, RowsTaken, NextSource, ListingDone, TakeRow
  <2>2. FindInv'
    BY <1>0, <1>9, OpenListingsKeeps, RowsTakenKeeps, NextSourceKeeps, ListingDoneKeeps,
       TakeRowKeeps
  <2> QED BY <1>0, <2>1, <2>2, CacheAlone, WalkAlone, ChaseAlone DEF FindOnly
<1> QED BY <1>1, <1>2, <1>3, <1>4, <1>5, <1>6, <1>7, <1>8, <1>9 DEF FindStep

LEMMA FindStepSetup == FindStep => UNCHANGED setup
BY DEF FindStep, Reject, AdapterUnavailable, AdapterLinks, AdapterFails, AnalyseMovie,
       AnalysisStep, AnalysisEnds, CustomUnavailable, CustomDirect, ResolveCustom, DeliveryStep,
       DeliveryEnds, OtherSeason, AnswerCached, LookUp, LookUpFails, ListSeries, FastOptions,
       OpenListings, RowsTaken, NextSource, AnswerFound, ListingDone, TakeRow, FindOnly

LEMMA LinksInitially == Init => LinksInv
<1> SUFFICES ASSUME Init PROVE LinksInv  OBVIOUS
<1>1. /\ find = NoFind /\ findCache = {} /\ walk = Idle /\ chase = NoChase /\ setup = NoSetup
  BY DEF Init, FindInit, WorkflowInit, DeliveryInit
<1>2. FindInv  BY <1>1, NoFindYet DEF FindInv, LookPhases
<1>3. CacheInv  BY <1>1 DEF CacheInv
<1>4. WalkInv
  <2>1. /\ Idle \in Walks /\ Idle.phase = "idle" /\ Idle.visited = {} /\ Idle.queued = {}
        /\ Idle.queue = {} /\ Idle.results = {} /\ ~Idle.cut
    BY IdleWalk DEF Idle
  <2> QED BY <1>1, <2>1, NewWalk
<1>5. ChaseInv  BY <1>1, NoChaseYet DEF ChaseInv
<1>6. SetupInv
  <2>1. Len(<<>>) = 0 /\ DOMAIN <<>> = {}  OBVIOUS
  <2> QED BY <1>1, <2>1, NoSetupYet DEF SetupInv, SetupProvesDelivery
<1> QED BY <1>2, <1>3, <1>4, <1>5, <1>6 DEF LinksInv

LEMMA LinksKept == LinksInv /\ [Next]_vars => LinksInv'
<1> SUFFICES ASSUME LinksInv, [Next]_vars PROVE LinksInv'  OBVIOUS
<1>0. FindInv /\ CacheInv /\ WalkInv /\ ChaseInv /\ SetupInv  BY DEF LinksInv
<1> USE <1>0
\* A step of another part, or none.
<1>1. ASSUME UNCHANGED findVars PROVE LinksInv'
  BY <1>1, FindAlone, CacheAlone, WalkAlone, ChaseAlone, SetupAlone DEF findVars, LinksInv
<1>2. CASE UNCHANGED vars  BY <1>1, <1>2 DEF vars
<1>3. CASE Searching(SearchUsers) \/ Searching(Tick) \/ \E t \in Threads : Searching(SearchProgress(t))
  BY <1>1, <1>3 DEF Searching
<1>4. CASE \/ Resolving(ResolveStep)
           \/ \E u \in Links : Resolving(StartResolve(u)) \/ Resolving(LinkExpires(u))
                               \/ Resolving(CacheExpires(u))
  BY <1>1, <1>4 DEF Resolving
<1>5. ASSUME NEW request \in Requests, Finding(Ask(request)) PROVE LinksInv'
  <2>1. Ask(request) /\ walk' = Idle /\ chase' = NoChase /\ UNCHANGED <<setup, findCache>>
    BY <1>5 DEF Finding, Ask
  <2>2. FindInv'  BY <2>1, FirstRequest
  <2>3. WalkInv'  BY <2>1, WalkStarts
  <2>4. ChaseInv'  BY <2>1, NoChaseYet DEF ChaseInv
  <2> QED BY <2>1, <2>2, <2>3, <2>4, CacheAlone, SetupAlone DEF LinksInv
<1>6. CASE Finding(FindStep)
  <2>1. FindStep  BY <1>6 DEF Finding
  <2>2. UNCHANGED setup  BY <2>1, FindStepSetup
  <2> QED BY <2>1, <2>2, FindStepKeeps, SetupAlone DEF LinksInv
<1>7. CASE Finding(FindCacheExpires)
  <2>1. /\ \E entry \in findCache : findCache' = findCache \ {entry}
        /\ UNCHANGED <<find, walk, chase, setup>>
    BY <1>7 DEF Finding, FindCacheExpires
  <2>2. findCache' \subseteq findCache  BY <2>1
  <2>3. FindInv'  BY <2>1, <2>2 DEF FindInv, LookIsOfOne
  <2>4. CacheInv'  BY <2>2 DEF CacheInv
  <2> QED BY <2>1, <2>3, <2>4, WalkAlone, ChaseAlone, SetupAlone DEF LinksInv
<1>8. CASE Finding(DeadlinePasses /\ UNCHANGED <<find, findCache, chase, setup>>)
  BY <1>8, DeadlineKeeps, FindAlone, CacheAlone, ChaseAlone, SetupAlone DEF Finding, LinksInv
<1>9. ASSUME NEW auto \in BOOLEAN, NEW mode \in {"auto", "browser", "static"},
             SettingUp(StartSetup(auto, mode))
      PROVE  LinksInv'
  <2>1. StartSetup(auto, mode) /\ UNCHANGED <<find, findCache, walk>>  BY <1>9 DEF SettingUp
  <2>2. ChaseInv'  BY <2>1, NoChaseYet DEF StartSetup, ChaseInv
  <2> QED BY <2>1, <2>2, SetupStarts, FindAlone, CacheAlone, WalkAlone DEF LinksInv
<1>10. CASE SettingUp(SetupStep)
  BY <1>10, SetupStepKeeps, FindAlone, CacheAlone, WalkAlone DEF SettingUp, LinksInv
<1> QED BY <1>2, <1>3, <1>4, <1>5, <1>6, <1>7, <1>8, <1>9, <1>10 DEF Next

THEOREM LinksInvariant == Spec => []LinksInv
BY LinksInitially, LinksKept, PTL DEF Spec

\* For every set of pages, whatever they show and however they link to each
\* other, and for every limit: when an analysis ends, every branch it found was
\* requested, or is reported as left, or was made unnecessary by a file; and
\* the overall status says what was met (workflow_analyzer.py).
THEOREM NoBranchIsForgotten == Spec => []BranchesAccounted
<1>1. LinksInv => BranchesAccounted  BY DEF LinksInv, WalkInv
<1> QED BY <1>1, LinksInvariant, PTL

\* A source that the guided set-up calls working has an example with a title
\* and a page; where links lead to files directly, one of the examples that
\* were tried was followed to a file (custom_authorized_source.py).
THEOREM WorkingSourcesWereProven == Spec => []SetupProvesDelivery
<1>1. LinksInv => SetupProvesDelivery  BY DEF LinksInv, SetupInv
<1> QED BY <1>1, LinksInvariant, PTL

\* However many sources a lookup falls back on, a link of its answer is
\* ascribed to the site whose page showed it (web_app.py, AppHandler.do_POST).
THEOREM LinksAreAscribed == Spec => []LinksNameTheirSource
<1>1. LinksInv => LinksNameTheirSource  BY DEF LinksInv, FindInv, LinksNameTheirSource
<1> QED BY <1>1, LinksInvariant, PTL

\* A cached answer is as good as a fresh one: for every list of requests and
\* every way the cache expires, the links of an answer have a quality that was
\* asked for, and are of the season and the episode, or the answer says so.
THEOREM AnswersAreToTheRequest == Spec => []AnswersFitTheRequest
<1>1. LinksInv => AnswersFitTheRequest
  <2> SUFFICES ASSUME LinksInv, find.phase = "done", NEW l \in find.answer
               PROVE  /\ \E i \in DOMAIN Targets[find.request.quality] :
                           l.quality = Targets[find.request.quality][i]
                      /\ find.request.season # 0 =>
                           /\ KindOf(l.listing) = "Season Zip"
                           /\ l.listing.season = find.request.season
                      /\ find.request.episode # 0 =>
                           find.fallback \/ IsExact(l.listing, find.request)
    BY DEF AnswersFitTheRequest
  <2>1. LinkFits(l, find.request, find.fallback)  BY DEF LinksInv, FindInv
  <2>2. \E i \in DOMAIN Targets[find.request.quality] :
          l.quality = Targets[find.request.quality][i]
    BY <2>1 DEF LinkFits, Asked, ToSet
  <2> QED BY <2>1, <2>2 DEF LinkFits
<1> QED BY <1>1, LinksInvariant, PTL
=============================================================================
