------------------------------ MODULE Delivery ------------------------------
(* Authorized sources (custom_authorized_source.py): the bounded walk along  *)
(* public links from a result page to the delivery URL a source was set up    *)
(* with, and the guided set-up that learns such a source and proves the walk. *)
EXTENDS Integers, Sequences, FiniteSets, FiniteSetsExt

CONSTANTS
  Urls,            \* URLs the walk may meet
  Delivered,       \* those in the delivery pattern (host, path prefix, extension)
  NoPage,          \* a card without a link
  MaxChase,        \* maxDepth of the pattern
  MaxPageLinks,    \* links kept of one page: 12
  MaxSamples,      \* sample queries of the one-URL set-up: 8
  MaxCards,        \* cards read: 20
  MaxProven        \* cards whose delivery is tried: 5

ASSUME DeliveredAssumption ==
  /\ Delivered \subseteq Urls /\ NoPage \notin Urls
  /\ MaxChase \in Nat /\ MaxPageLinks \in Nat /\ MaxSamples \in Nat
  /\ MaxCards \in Nat /\ MaxProven \in Nat

VARIABLES
  chase,           \* the walk under way, or the last one
  setup            \* the guided set-up under way, or the last one

NoChase == [phase |-> "idle", queue |-> {}, visited |-> {}, url |-> NoPage, depth |-> 0]
NoSetup == [phase |-> "idle", auto |-> FALSE, mode |-> "auto", html |-> TRUE, samples |-> 0,
            kind |-> "result-page", cards |-> <<>>, at |-> 1, proof |-> <<>>, status |-> "none"]
DeliveryInit == chase = NoChase /\ setup = NoSetup

ChaseBusy == chase.phase = "chase"

\* A walk starts at any URL of a card or a result, an empty one included.
ChaseFrom(page) == [NoChase EXCEPT !.phase = "chase", !.queue = {<<page, 0>>}]
StartChase(page) == chase' = ChaseFrom(page)

\* First in, first out: of one depth any order, the page's order is not kept.
Nearest == {entry \in chase.queue : \A other \in chase.queue : entry[2] <= other[2]}
Popped(entry) == [chase EXCEPT !.queue = @ \ {entry}, !.visited = @ \cup {entry[1]}]

DropSeen(entry) == entry[1] \in chase.visited /\ chase' = Popped(entry)

\* Unreachable, refused or unresolved; at the depth limit or another file;
\* a page that is not HTML.
DeadEnd(entry) == entry[1] \notin chase.visited /\ chase' = Popped(entry)

\* The headers of the page, redirects followed, are those of a delivery URL.
Delivers(entry) ==
  /\ entry[1] \in Urls \ chase.visited
  /\ \E final \in Delivered :
       chase' = [Popped(entry) EXCEPT !.phase = "found", !.url = final, !.depth = entry[2]]

\* Links in the pattern first; then any, up to the number kept.
Kept(links) ==
  IF Cardinality(links) <= MaxPageLinks THEN {links}
  ELSE {kept \in kSubset(MaxPageLinks, links) :
          kept \subseteq Delivered \/ links \cap Delivered \subseteq kept}

ReadLinks(entry) ==
  /\ entry[1] \in Urls \ chase.visited /\ entry[2] < MaxChase
  /\ \E links \in SUBSET (Urls \ (chase.visited \cup {entry[1]})) : \E kept \in Kept(links) :
       chase' = [Popped(entry) EXCEPT !.queue = @ \cup {<<p, entry[2] + 1>> : p \in kept}]

\* An error other than the ones the walk expects leaves it.
ChaseRaises == chase' = [chase EXCEPT !.phase = "raised"]

ChaseLost == chase.queue = {} /\ chase' = [chase EXCEPT !.phase = "lost"]

ChaseStep ==
  /\ ChaseBusy
  /\ \/ ChaseLost
     \/ chase.queue # {} /\ ChaseRaises
     \/ \E entry \in Nearest :
          DropSeen(entry) \/ DeadEnd(entry) \/ Delivers(entry) \/ ReadLinks(entry)

SetupBusy == setup.phase \notin {"idle", "done"}

\* From a search page and an example, or from the address of the site alone.
StartSetup(auto, mode) ==
  /\ ~SetupBusy
  /\ setup' = [NoSetup EXCEPT !.phase = IF auto THEN "form" ELSE "page",
                              !.auto = auto, !.mode = mode]
  /\ UNCHANGED chase

EndSetup(status) == setup' = [setup EXCEPT !.phase = "done", !.status = status]
SetupAt(phase) == setup.phase = phase /\ UNCHANGED chase

\* An error of a request, and any other one, leaves the set-up.
SetupFails ==
  /\ setup.phase \in {"form", "sample", "page", "example"}
  /\ EndSetup("failed") /\ UNCHANGED chase

\* The site's own search form, and words of the page to search for.
FindSearchForm ==
  /\ SetupAt("form")
  /\ \E samples \in 1..MaxSamples :
       setup' = [setup EXCEPT !.phase = "sample", !.samples = samples]

\* One sample query: its page, rendered too if it can be, may show a result.
TrySample ==
  /\ SetupAt("sample") /\ setup.samples > 0
  /\ \E shown \in BOOLEAN :
       setup' = [setup EXCEPT !.samples = @ - 1, !.phase = IF shown THEN "page" ELSE @]

NoSampleFound == SetupAt("sample") /\ setup.samples = 0 /\ EndSetup("no-matching-result-links")

\* The search page is fetched again, also after a sample query.
ReadSearchPage ==
  /\ SetupAt("page")
  /\ \E html \in BOOLEAN : setup' = [setup EXCEPT !.phase = "example", !.html = html]

\* Headers and redirects only.
InspectExample ==
  /\ SetupAt("example")
  /\ \E kind \in {"direct-file", "structured-api-result", "redirect-endpoint", "result-page"} :
       setup' = [setup EXCEPT !.phase = "render", !.kind = kind]

\* A browser that fails ends the set-up only where it was asked for.
RenderPage ==
  /\ SetupAt("render")
  /\ \/ setup' = [setup EXCEPT !.phase = "match"]
     \/ setup.mode = "browser" /\ setup.html /\ EndSetup("javascript-rendering-required")

NoResultLinks ==
  SetupAt("match") /\ EndSetup(IF setup.html THEN "url-pattern-mismatch" ELSE "html-parsing-failed")
NoContainer == SetupAt("match") /\ setup.html /\ EndSetup("no-repeating-result-container")

\* The repeated cards around links like the example's; for a direct file,
\* which no search page links to, around any link.
ReadCards ==
  /\ SetupAt("match") /\ setup.html
  /\ \E n \in 2..MaxCards :
     \E cards \in [1..n -> [title : BOOLEAN, page : Urls \cup {NoPage}]] :
       setup' = [setup EXCEPT !.phase = "prove", !.cards = cards,
                              !.proof = [i \in 1..n |-> NoPage]]

Proving == /\ setup.phase = "prove" /\ setup.kind = "direct-file"
           /\ setup.at <= Min({MaxProven, Len(setup.cards)})

ProveCard ==
  /\ Proving /\ ~ChaseBusy /\ chase.phase = "idle"
  /\ StartChase(setup.cards[setup.at].page) /\ UNCHANGED setup

CardProven ==
  /\ Proving /\ chase.phase \in {"found", "lost", "raised"}
  /\ IF chase.phase = "raised" THEN EndSetup("failed")
     ELSE setup' = [setup EXCEPT !.at = @ + 1, !.proof[setup.at] = chase.url]
  /\ chase' = NoChase

\* Mutant: a link of the card is enough.
Linked(i) == setup.cards[i].title /\ setup.cards[i].page # NoPage
Valid(i) == /\ setup.cards[i].title /\ setup.cards[i].page # NoPage
            /\ setup.kind = "direct-file" => setup.proof[i] # NoPage

JudgeCards ==
  /\ SetupAt("prove") /\ ~Proving
  /\ EndSetup(IF \E i \in DOMAIN setup.cards : Valid(i) THEN "working"
              ELSE IF setup.kind = "direct-file" THEN "delivery-chain-not-found"
              ELSE "title-could-not-be-inferred")

SetupStep ==
  \/ SetupFails \/ FindSearchForm \/ TrySample \/ NoSampleFound \/ ReadSearchPage
  \/ InspectExample \/ RenderPage \/ NoResultLinks \/ NoContainer \/ ReadCards
  \/ ProveCard \/ CardProven \/ JudgeCards
  \/ SetupBusy /\ ChaseStep /\ UNCHANGED setup

\* Part of the type invariant of the composition.
DeliveryTypeOK ==
  /\ chase.phase \in {"idle", "chase", "found", "lost", "raised"}
  /\ chase.visited \subseteq Urls \cup {NoPage}
  /\ \A entry \in chase.queue : entry[2] \in 0..MaxChase
  /\ chase.phase = "found" <=> chase.url # NoPage
  /\ DOMAIN setup.proof = DOMAIN setup.cards

\* A source is only reported as working when a card of its search page has a
\* title and leads somewhere; for a direct file, when the walk from that very
\* card ended at a URL of the delivery pattern the source will be used with.
SetupProvesDelivery ==
  setup.status = "working" =>
    \E i \in DOMAIN setup.cards :
      /\ setup.cards[i].title /\ setup.cards[i].page # NoPage
      /\ setup.kind = "direct-file" => i <= MaxProven /\ setup.proof[i] \in Delivered
=============================================================================
