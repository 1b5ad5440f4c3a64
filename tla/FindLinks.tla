----------------------------- MODULE FindLinks -----------------------------
(* POST /api/find (web_app.py): the links behind one selected search result.  *)
(* A saved adapter falls back on the workflow analysis, an authorized source  *)
(* walks to its delivery URL; any other result is looked up listing by        *)
(* listing, then in the other sources of the same release.                    *)
EXTENDS Workflow, Delivery, SequencesExt

CONSTANTS
  Candidates,      \* results of legacy sites, each of a site of its own
  Series,          \* those whose title or URL says series
  SeasonOf,        \* [Candidates -> 0 .. ]: the season it names, 0 for none
  Listings,        \* what a listing is labelled with
  Requests,        \* the requests of users; an episode is one of a season
  Targets,         \* [qualities of requests -> sequences of qualities]
  MaxDirect,       \* direct links after which the other listings are left
  MaxFinds         \* bound on the requests of a behaviour

ASSUME FindAssumption ==
  /\ Series \subseteq Candidates
  /\ \A r \in Requests : r.type = "generic" =>
       /\ r.candidate \in Candidates /\ r.failover \in Seq(Candidates)
       /\ r.quality \in DOMAIN Targets
  /\ \A quality \in DOMAIN Targets : Targets[quality] \in Seq(ToSet(Targets[quality]))
  /\ MaxDirect \in Nat /\ MaxFinds \in Nat

VARIABLES
  find,            \* the request under way, or the last one
  findCache        \* FIND_RESULT_CACHE

NoFind == [phase |-> "idle", request |-> [type |-> "none"], primary |-> 0, rest |-> <<>>,
           todo |-> <<>>, open |-> {}, alone |-> FALSE, rows |-> {}, direct |-> 0, links |-> {},
           status |-> 0, answer |-> {}, fallback |-> FALSE, number |-> 0]
FindInit == find = NoFind /\ findCache = {} /\ WorkflowInit /\ DeliveryInit

FindBusy == find.phase \notin {"idle", "done"}

\* series_meta: what the label of a listing says it is.
KindOf(listing) ==
  IF listing.episode # 0 THEN "Episode" ELSE IF listing.pack THEN "Season Zip"
  ELSE IF listing.season = 0 THEN "" ELSE "File"

\* A link: the candidate whose page showed it, the site it is ascribed to.
Link(from, quality, listing) ==
  [from |-> from, source |-> from, quality |-> quality, listing |-> listing]

\* Mutant: the season is forgotten.
SeasonlessKey(request) ==
  [quality |-> request.quality, candidate |-> request.candidate,
   episode |-> request.episode, episodeSeason |-> request.episodeSeason]
\* The part of a request its cached answer is kept for; not the fail-over list.
CacheKey(request) ==
  [quality |-> request.quality, candidate |-> request.candidate, season |-> request.season,
   episode |-> request.episode, episodeSeason |-> request.episodeSeason]

Goes(phase) == find' = [find EXCEPT !.phase = phase]
Replies(status, links, fallback) ==
  find' = [find EXCEPT !.phase = "done", !.status = status, !.answer = links,
                       !.fallback = fallback]
FindOnly == UNCHANGED <<walk, chase, setup, findCache>>

\* A request for a result of one of three types; nothing of the last remains.
Ask(request) ==
  /\ ~FindBusy /\ find.number < MaxFinds
  /\ find' = [NoFind EXCEPT !.request = request, !.number = find.number + 1, !.phase = "arrive"]
  /\ walk' = Idle /\ chase' = NoChase /\ UNCHANGED <<setup, findCache>>

Arrived(type) == find.phase = "arrive" /\ find.request.type = type

\* A field is missing or the quality is not one of the release; the release
\* expired from the cache of the search.
Reject == /\ find.phase = "arrive"
          /\ \E status \in {400, 404} : Replies(status, {}, FALSE)
          /\ FindOnly

\* The adapter is gone or needs retesting; its own links; an error of it.
AdapterUnavailable == Arrived("adapter") /\ Replies(422, {}, FALSE) /\ FindOnly
AdapterLinks == Arrived("adapter") /\ Replies(200, {}, FALSE) /\ FindOnly
AdapterFails == Arrived("adapter") /\ Replies(502, {}, FALSE) /\ FindOnly

\* Without links of its own, and where the analysis is enabled for its domain.
AnalyseMovie ==
  /\ Arrived("adapter") /\ Goes("analysis")
  /\ StartWalk(find.request.quality) /\ UNCHANGED <<chase, setup, findCache>>
AnalysisStep == find.phase = "analysis" /\ WalkStep /\ UNCHANGED <<find, chase, setup, findCache>>
AnalysisEnds ==
  /\ find.phase = "analysis" /\ ~WalkBusy
  /\ Replies(IF walk.phase = "raised" THEN 502 ELSE 200, {}, FALSE) /\ FindOnly

\* The result of an authorized source: the source was deleted meanwhile, or
\* has no delivery pattern, or the walk is made.
CustomUnavailable == Arrived("custom") /\ Replies(422, {}, FALSE) /\ FindOnly
CustomDirect == Arrived("custom") /\ Replies(200, {}, FALSE) /\ FindOnly
ResolveCustom ==
  /\ Arrived("custom") /\ Goes("delivery")
  /\ \E page \in Urls : StartChase(page)
  /\ UNCHANGED <<walk, setup, findCache>>
DeliveryStep == find.phase = "delivery" /\ ChaseStep /\ UNCHANGED <<find, walk, setup, findCache>>
\* No handler is around the call: an error ends the request without an answer.
DeliveryEnds ==
  /\ find.phase = "delivery" /\ ~ChaseBusy
  /\ Replies(CASE chase.phase = "found" -> 200 [] chase.phase = "lost" -> 422 [] OTHER -> 0,
             {}, FALSE)
  /\ FindOnly

\* A result that names another season is refused.
SeasonFits(request) == request.season = 0 \/ SeasonOf[request.candidate] \in {0, request.season}
OtherSeason ==
  /\ Arrived("generic") /\ ~SeasonFits(find.request)
  /\ Replies(409, {}, FALSE) /\ FindOnly

Checked == Arrived("generic") /\ SeasonFits(find.request)

AnswerCached ==
  /\ Checked
  /\ \E entry \in findCache :
       /\ entry.key = CacheKey(find.request)
       /\ Replies(200, entry.links, entry.fallback)
  /\ FindOnly

\* The primary result first, then those of the fail-over list that are not
\* series, while nothing was found; each in all the qualities asked for.
LookUp ==
  /\ Checked /\ \A entry \in findCache : entry.key # CacheKey(find.request)
  /\ find' = [find EXCEPT !.phase = "look", !.primary = find.request.candidate,
                !.todo = Targets[find.request.quality], !.rest = find.request.failover]
  /\ FindOnly

Looking == find.phase = "look" /\ find.todo # <<>>
Quality == Head(find.todo)
NextQuality == [find EXCEPT !.todo = Tail(@), !.phase = "look", !.rows = {}, !.open = {}, !.direct = 0]

\* A series page: its listings, to be resolved when the user picks one.
ListSeries ==
  /\ Looking /\ find.primary \in Series
  /\ \E shown \in SUBSET Listings :
       find' = [NextQuality EXCEPT
                  !.links = @ \cup {Link(find.primary, Quality, l) : l \in shown}]
  /\ FindOnly

\* Links the listings lead to at once. They carry no season or episode.
Plain == [season |-> 0, episode |-> 0, pack |-> FALSE]
FastOptions ==
  /\ Looking /\ find.primary \notin Series
  /\ find' = [NextQuality EXCEPT !.links = @ \cup {Link(find.primary, Quality, Plain)}]
  /\ FindOnly

\* The thorough way: every listing of the page in a worker of its own.
OpenListings ==
  /\ Looking /\ find.primary \notin Series
  /\ \E shown \in SUBSET Listings :
       find' = IF shown = {} THEN NextQuality
               ELSE [find EXCEPT !.phase = "rows", !.open = shown,
                                 !.alone = Cardinality(shown) = 1]
  /\ FindOnly

Harvesting == find.phase = "rows" /\ find.open # {} /\ find.direct < MaxDirect

\* A worker is done, in any order: a row with a direct link, one whose links
\* lead on, or none, an error of a worker included.
ListingDone(l) ==
  /\ Harvesting /\ l \in find.open
  /\ \E row \in {"direct", "leads", "none"} :
       find' = [find EXCEPT !.open = @ \ {l},
                  !.rows = IF row = "none" THEN @ ELSE @ \cup {l},
                  !.direct = IF row = "direct" THEN @ + 1 ELSE @]
  /\ FindOnly

\* Rows of the primary result with one label and one size are one link.
SameLabel(link, listing) ==
  /\ find.primary = find.request.candidate /\ link.quality = Quality
  /\ KindOf(listing) # "" \/ listing.season # 0
  /\ link.listing.season = listing.season /\ KindOf(link.listing) = KindOf(listing)

\* A row's link is of no use, or of a label there is already; or it is added,
\* in the place of those of its label where they have expired meanwhile.
TakeRow(l) ==
  /\ find.phase = "rows" /\ ~Harvesting /\ l \in find.rows
  /\ LET same == {link \in find.links : SameLabel(link, l)}
         link == Link(find.primary, Quality, l)
     IN \E links \in {find.links, find.links \cup {link}, (find.links \ same) \cup {link}} :
          find' = [find EXCEPT !.rows = @ \ {l}, !.links = links]
  /\ FindOnly

RowsTaken ==
  /\ find.phase = "rows" /\ ~Harvesting /\ find.rows = {}
  /\ find' = NextQuality /\ FindOnly

\* An error leaves the qualities of this candidate; its links are kept. That
\* of a worker does so only where it is the one worker.
LookUpFails ==
  /\ \/ Looking /\ find.primary \in Series
     \/ find.phase = "rows" /\ (Harvesting => find.alone)
  /\ find' = [NextQuality EXCEPT !.todo = <<>>] /\ FindOnly

Looked == find.phase = "look" /\ find.todo = <<>>

\* Mutant: the others are asked for more links.
AnotherSource ==
  /\ Looked /\ find.rest # <<>>
  /\ find' = [find EXCEPT !.rest = Tail(@), !.primary = Head(find.rest),
                          !.todo = Targets[find.request.quality]]
  /\ FindOnly

NextSource ==
  /\ Looked /\ find.links = {} /\ find.rest # <<>>
  /\ find' = IF Head(find.rest) \in Series THEN [find EXCEPT !.rest = Tail(@)]
             ELSE [find EXCEPT !.rest = Tail(@), !.primary = Head(find.rest),
                               !.todo = Targets[find.request.quality]]
  /\ FindOnly

IsExact(listing, request) ==
  /\ request.episode # 0 /\ listing.episode = request.episode
  /\ listing.season = request.episodeSeason

\* Exact episodes only, where there are any; then only packs of the season.
Selected(links, request) ==
  LET exact == {l \in links : IsExact(l.listing, request)}
      chosen == IF exact # {} THEN exact ELSE links
  IN IF request.season = 0 THEN chosen
     ELSE {l \in chosen : KindOf(l.listing) = "Season Zip" /\ l.listing.season = request.season}

Ascribed(links) == {[l EXCEPT !.source = find.primary] : l \in links}

\* An answer without a link is kept as well.
AnswerFound ==
  /\ Looked /\ (find.links # {} \/ find.rest = <<>>)
  /\ LET fallback == /\ find.request.episode # 0
                     /\ \A l \in find.links : ~IsExact(l.listing, find.request)
         links == Selected(Ascribed(find.links), find.request)
     IN /\ Replies(200, links, fallback)
        /\ findCache' = findCache \cup {[key |-> CacheKey(find.request), links |-> links,
                                         fallback |-> fallback]}
  /\ UNCHANGED <<walk, chase, setup>>

\* An hour passes, or the entry is evicted.
FindCacheExpires ==
  /\ findCache # {} /\ \E entry \in findCache : findCache' = findCache \ {entry}
  /\ UNCHANGED <<find, walk, chase, setup>>

FindStep ==
  \/ Reject \/ AdapterUnavailable \/ AdapterLinks \/ AdapterFails \/ AnalyseMovie \/ AnalysisStep
  \/ AnalysisEnds \/ CustomUnavailable \/ CustomDirect \/ ResolveCustom \/ DeliveryStep
  \/ DeliveryEnds \/ OtherSeason \/ AnswerCached \/ LookUp \/ LookUpFails \/ ListSeries
  \/ FastOptions \/ OpenListings \/ RowsTaken \/ NextSource \/ AnswerFound
  \/ \E l \in Listings : ListingDone(l) \/ TakeRow(l)

\* Part of the type invariant of the composition.
FindTypeOK ==
  /\ find.status \in {0, 200, 400, 404, 409, 422, 502}
  /\ find.direct <= MaxDirect
  /\ find.phase # "rows" => find.open = {} /\ find.rows = {}
  /\ \A e1, e2 \in findCache : e1.key = e2.key => e1 = e2

\* Every link of an answer is ascribed to the site whose page it was found on,
\* whichever sources failed or were tried before it.
LinksNameTheirSource == \A l \in find.answer : l.source = l.from

\* An answer, fresh or an hour old, is an answer to this request: its links
\* have a quality that was asked for; for a season they are packs of that
\* season; for an episode they are that episode, or the answer says they are not.
AnswersFitTheRequest ==
  find.phase = "done" =>
    \A l \in find.answer :
      /\ \E i \in DOMAIN Targets[find.request.quality] :
           l.quality = Targets[find.request.quality][i]
      /\ find.request.season # 0 => /\ KindOf(l.listing) = "Season Zip"
                                    /\ l.listing.season = find.request.season
      /\ find.request.episode # 0 => find.fallback \/ IsExact(l.listing, find.request)
=============================================================================
