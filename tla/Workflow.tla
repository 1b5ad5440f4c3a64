------------------------------ MODULE Workflow ------------------------------
(* analyze_movie_workflow (workflow_analyzer.py): from one movie page, the   *)
(* download branches are requested one after the other, the most direct      *)
(* first, until a file is verified, nothing is left, or a limit is met.       *)
(* Remote servers answer anything; a page is what it links to.               *)
EXTENDS Integers, FiniteSets, FiniteSetsExt

CONSTANTS
  Pages,           \* targets the walk may meet
  MoviePage,
  Kind,            \* [Pages -> "download" | "plain" | "navigation" | "form"]
  QualityOf,       \* [Pages -> the quality a link to the page is labelled with]
  Priority,        \* [Pages -> 0 .. 3]: HOST_PRIORITY of a link to the page
  Unlabelled,      \* a link with no quality in its text
  MaxRoots,        \* MAX_QUALITY_LINKS
  MaxActions,      \* MAX_ACTIONS_PER_PAGE
  MaxDepth,        \* MAX_DEPTH
  MaxNodes         \* MAX_WORKFLOW_NODES

ASSUME WorkflowAssumption ==
  /\ Priority \in [Pages -> 0 .. 3]
  /\ MaxRoots \in Nat /\ MaxActions \in Nat /\ MaxDepth \in Nat /\ MaxNodes \in Nat

VARIABLE walk      \* the one analysis under way, or the last one

Status == {"success", "blocked", "partial"}
Graph == "graph"                             \* the row of the limit message
Idle == [phase |-> "idle", quality |-> Unlabelled, queue |-> {}, visited |-> {},
         queued |-> {}, results |-> {}, late |-> FALSE, cut |-> FALSE, status |-> "none"]
WorkflowInit == walk = Idle

\* An action of the page "from"; "priority" also sees the label, which a
\* redirect inherits.
Action(page, from, depth, priority) ==
  [page |-> page, from |-> from, depth |-> depth, priority |-> priority]
Key(action) == <<action.page, action.from>>
Row(page, status) == [page |-> page, status |-> status]

\* No quality is as good as all of them.
QualityMatches(page) == walk.quality = "all" \/ QualityOf[page] = walk.quality
Fits(page) == QualityOf[page] = Unlabelled \/ QualityMatches(page)

\* _pick takes the first ones of the page, here any.
Picked(links, maximum) ==
  IF Cardinality(links) <= maximum THEN {links} ELSE kSubset(maximum, links)

\* Links with the chosen label first; else downloads, never another label's.
Roots(links) ==
  LET labelled == {p \in links : /\ QualityOf[p] # Unlabelled /\ QualityMatches(p)
                                 /\ Kind[p] # "navigation"}
  IN Picked(IF labelled # {} THEN labelled
            ELSE {p \in links : Kind[p] = "download" /\ Fits(p)}, MaxRoots)

BranchActions(links) ==
  LET direct == {p \in links : Kind[p] \in {"download", "form"}
                               \/ QualityOf[p] # Unlabelled}
  IN Picked(IF direct # {} THEN direct
            ELSE {p \in links : Kind[p] # "navigation"}, MaxActions)

Summary(results) ==
  LET of(status) == {r \in results : r.status = status}
  IN CASE of("success") # {} -> "success"
       [] of("success") = {} /\ results # {} /\ of("blocked") = results -> "blocked"
       [] OTHER -> "partial"

WalkBusy == walk.phase \in {"movie", "walk"}

\* The analyser is called for one movie page and one quality.
StartWalk(quality) == walk' = [Idle EXCEPT !.phase = "movie", !.quality = quality]

Ends(status, results) ==
  walk' = [walk EXCEPT !.phase = "done", !.status = status, !.results = results]

\* A URL that is no longer public raises out of the analysis, whatever was
\* verified before.
Raises == walk' = [walk EXCEPT !.phase = "raised"]

\* The movie page, as HTML or, where that was rejected or is an empty shell,
\* as the browser renders it.
ReadMovie ==
  /\ walk.phase = "movie"
  /\ \/ Raises
     \/ Ends("failed", {})
     \/ Ends("blocked", {Row(MoviePage, "blocked")})
     \/ \E links \in SUBSET Pages : \E roots \in Roots(links) :
          LET actions == {Action(p, MoviePage, 0, Priority[p]) : p \in roots}
          IN walk' = [walk EXCEPT !.phase = "walk", !.queue = actions,
                                  !.queued = {Key(a) : a \in actions}]

\* Mutant: no limit.
WalkingOn == walk.phase = "walk" /\ ~walk.late /\ walk.queue # {}
Walking == /\ walk.phase = "walk" /\ ~walk.late /\ walk.queue # {}
           /\ Cardinality(walk.visited) < MaxNodes

\* The queue is sorted by priority before each step; of equal ones any.
Foremost == {a \in walk.queue : \A b \in walk.queue : a.priority <= b.priority}

DropVisited(a) ==
  /\ Walking /\ a \in Foremost /\ Key(a) \in walk.visited
  /\ walk' = [walk EXCEPT !.queue = @ \ {a}]

Visit(a) == Walking /\ a \in Foremost /\ Key(a) \notin walk.visited

\* What a visit leaves: more results and more actions.
Visited(a, rows, actions) ==
  walk' = [walk EXCEPT !.visited = @ \cup {Key(a)}, !.results = @ \cup rows,
                       !.queue = (@ \ {a}) \cup actions,
                       !.queued = @ \cup {Key(b) : b \in actions}]

Stopped(a, status) == Visited(a, {Row(a.page, status)}, {})

\* A form is reported and not submitted.
StopAtForm(a) == Visit(a) /\ Kind[a.page] = "form" /\ Stopped(a, "partial")

Fetch(a) == Visit(a) /\ Kind[a.page] # "form"

FetchRaises(a) == Fetch(a) /\ Raises

\* The deadline passed while the page was fetched.
FetchTooLate(a) ==
  /\ Fetch(a)
  /\ walk' = [walk EXCEPT !.visited = @ \cup {Key(a)}, !.queue = @ \ {a}, !.late = TRUE,
                          !.results = @ \cup {Row(a.page, "partial")}]

\* A verified file ends the walk when it was reached the direct way: by a
\* direct link, or by the page's own direct-download button.
CutAt(a) ==
  walk' = [walk EXCEPT !.visited = @ \cup {Key(a)}, !.queue = {}, !.cut = TRUE,
                       !.results = @ \cup {Row(a.page, "success")}]

ReachFile(a) ==
  Fetch(a) /\ IF a.priority = 0 THEN CutAt(a) ELSE Stopped(a, "success")

PressDirectDownload(a) == Fetch(a) /\ CutAt(a)

\* The next hop has no depth limit, only the limit on nodes.
FollowRedirect(a) ==
  /\ Fetch(a)
  /\ \E next \in Pages :
       Visited(a, {}, {Action(next, a.page, a.depth + 1, Min({a.priority, Priority[next]}))})

MeetChallenge(a) == Fetch(a) /\ Stopped(a, "blocked")

\* No readable page, the depth limit, or nothing to follow.
StopAtPage(a) == Fetch(a) /\ Stopped(a, "partial")

QueueBranches(a) ==
  /\ Fetch(a) /\ a.depth < MaxDepth
  /\ \E links \in SUBSET Pages : \E branches \in BranchActions(links) :
       LET kept == {p \in branches : p # a.page /\ Fits(p)}
       IN /\ kept # {}
          /\ Visited(a, {}, {Action(p, a.page, a.depth + 1, Priority[p]) : p \in kept})

DeadlinePasses ==
  /\ walk.phase = "walk" /\ ~walk.late
  /\ walk' = [walk EXCEPT !.late = TRUE]

\* Mutant: it is dropped.
Dropped == {}
\* What is left in the queue is reported as one partial row.
Unfinished == IF walk.queue # {} THEN {Row(Graph, "partial")} ELSE {}

EndWalk ==
  /\ walk.phase = "walk" /\ ~Walking
  /\ LET results == walk.results \cup Unfinished IN Ends(Summary(results), results)

WalkStep ==
  \/ ReadMovie \/ EndWalk
  \/ \E a \in walk.queue :
       \/ DropVisited(a) \/ StopAtForm(a) \/ FetchRaises(a) \/ FetchTooLate(a)
       \/ ReachFile(a) \/ PressDirectDownload(a) \/ FollowRedirect(a)
       \/ MeetChallenge(a) \/ StopAtPage(a) \/ QueueBranches(a)

\* Part of the type invariant of the composition.
WalkTypeOK ==
  /\ walk.phase \in {"idle", "movie", "walk", "done", "raised"}
  /\ walk.status \in Status \cup {"none", "failed"}
  /\ walk.visited \subseteq walk.queued
  /\ Cardinality(walk.visited) <= MaxNodes
  /\ {Key(a) : a \in walk.queue} \subseteq walk.queued
  /\ \A r \in walk.results : r.status \in Status

\* Every branch the analysis found is accounted for when it ends: it was
\* requested, or the answer says that branches were left, or a file reached
\* the direct way made them unnecessary; and the overall status promises a
\* file exactly when one was verified, a block only when nothing else was met.
BranchesAccounted ==
  walk.phase = "done" =>
    LET met == {r.status : r \in walk.results}
    IN /\ \/ walk.queued \subseteq walk.visited
          \/ Row(Graph, "partial") \in walk.results
          \/ walk.cut /\ "success" \in met
       /\ walk.status = "success" <=> "success" \in met
       /\ walk.status = "blocked" => met = {"blocked"}
=============================================================================
