------------------------------ MODULE Resolver ------------------------------
(* resolve_inner_link (web_app.py): from the link of a listing to a URL that  *)
(* can be copied, through the pages of the hosts the program knows. The       *)
(* resolvers call each other recursively; the stack holds the open calls.     *)
EXTENDS Integers, Sequences, SequencesExt

CONSTANTS
  Links,           \* URLs a resolution may meet
  HostOf,          \* [Links -> Hosts]
  NoLink,
  MaxFrames        \* the interpreter's recursion limit

VARIABLES
  expired,         \* links that can be copied, but that are no longer served
  linkCache,       \* GDFLIX_LINK_CACHE and DFAST_LINK_CACHE
  resolving        \* the resolution under way, or the last one

Hosts == {"file", "quick", "busycdn", "foxcloud", "gdflix", "dlfast", "elsewhere"}
ASSUME HostAssumption ==
  HostOf \in [Links -> Hosts] /\ NoLink \notin Links /\ MaxFrames \in Nat \ {0}

Copyable == {u \in Links : HostOf[u] \in {"file", "quick"}}
Intermediate == {u \in Links : HostOf[u] \in {"busycdn", "gdflix", "dlfast"}}

\* Only a link of the quick host is asked whether it is still served; those of
\* the other file hosts are good as they stand.
Usable(u) == u \in Copyable /\ ~(HostOf[u] = "quick" /\ u \in expired)

NoResolution == [phase |-> "idle", stack |-> <<>>, answer |-> NoLink]
ResolverInit == expired = {} /\ linkCache = [u \in Links |-> NoLink] /\ resolving = NoResolution

\* An open call: of resolve_inner_link, at its host's resolver ("host"), in
\* that resolver of the quick host ("page"), or at the redirects ("redirect").
Frame(u, at) == [url |-> u, at |-> at]
Opened(u) == Frame(u, "new")

Top == Last(resolving.stack)
At(stage) == resolving.phase = "open" /\ Top.at = stage
Moved(stage) == [resolving EXCEPT !.stack = Append(Front(@), Frame(Top.url, stage))]
\* The top call goes on at a stage while it waits for a nested one.
Nested(stage, u) == [Moved(stage) EXCEPT !.stack = Append(@, Opened(u))]

StartResolve(u) ==
  /\ resolving.phase # "open"
  /\ resolving' = [NoResolution EXCEPT !.phase = "open", !.stack = <<Opened(u)>>]
  /\ UNCHANGED <<expired, linkCache>>

\* The call made by the quick host's resolver that is open deepest, or 0.
QuickCall == LET open == {i \in DOMAIN resolving.stack : resolving.stack[i].at = "page"}
             IN IF open = {} THEN 0 ELSE Max(open)

\* A usable link is handed through every open call, except that the caller of
\* the quick host's resolver looks at it again, as a resolution of its own.
Answered(u) ==
  IF QuickCall = 0 THEN [resolving EXCEPT !.phase = "done", !.stack = <<>>, !.answer = u]
  ELSE [resolving EXCEPT !.stack = SubSeq(@, 1, QuickCall - 1)
                           \o <<Frame(@[QuickCall].url, "redirect"), Opened(u)>>]

AnswerUsable ==
  /\ At("new") /\ Usable(Top.url)
  /\ resolving' = Answered(Top.url)
  /\ UNCHANGED linkCache

\* What the page of a host may lead to, the calls between the hosts' resolvers
\* included; nothing where it is gone or unknown.
Leads(host) ==
  CASE host = "busycdn" -> Links
    [] host = "foxcloud" -> {u \in Links : HostOf[u] = "file"}
    [] host \in {"gdflix", "dlfast"} -> Links
    [] host = "quick" -> Copyable
    [] OTHER -> {}

\* Mutant: a link is not asked for again.
UseCopyable(r) ==
  IF r = NoLink \/ r \in Intermediate THEN Moved("redirect")
  ELSE IF r \in Copyable THEN Answered(r)
  ELSE Nested("redirect", r)

\* What the host's resolver returned: usable, the beginning of another
\* resolution, or of no use.
Use(r) ==
  IF r = NoLink \/ r \in Intermediate THEN Moved("redirect")
  ELSE IF Usable(r) THEN Answered(r)
  ELSE Nested("redirect", r)

Cached(u) == HostOf[u] \in {"gdflix", "dlfast"} /\ linkCache[u] # NoLink

AskHost ==
  /\ At("new") /\ ~Usable(Top.url) /\ HostOf[Top.url] # "quick"
  /\ Len(resolving.stack) < MaxFrames
  /\ \E r \in IF Cached(Top.url) THEN {linkCache[Top.url]}
              ELSE Leads(HostOf[Top.url]) \cup {NoLink} :
       /\ resolving' = Use(r)
       /\ linkCache' = IF HostOf[Top.url] \in {"gdflix", "dlfast"} /\ r # NoLink
                       THEN [linkCache EXCEPT ![Top.url] = r] ELSE linkCache

\* The quick host: where it redirects, resolved in turn if it can be, ...
AskQuick ==
  /\ At("new") /\ ~Usable(Top.url) /\ HostOf[Top.url] = "quick"
  /\ Len(resolving.stack) < MaxFrames
  /\ \E final \in Links :
       resolving' = IF final # Top.url /\ Usable(final) THEN Answered(final)
                    ELSE IF final # Top.url /\ final \notin Intermediate
                    THEN Nested("page", final)
                    ELSE Moved("host")
  /\ UNCHANGED linkCache

\* ... else a link of its page that can be copied.
ReadQuickPage ==
  /\ At("page") \/ At("host")
  /\ \E r \in Leads("quick") \cup {NoLink} :
       resolving' = IF r = NoLink \/ ~Usable(r) THEN Moved("redirect") ELSE Answered(r)
  /\ UNCHANGED linkCache

\* Nothing was found behind the page: where the link redirects to.
FollowRedirects ==
  /\ At("redirect")
  /\ \E final \in Links :
       resolving' =
         IF final # Top.url /\ Usable(final) THEN Answered(final)
         ELSE IF /\ final # Top.url
                 /\ HostOf[final] \in {"gdflix", "busycdn", "dlfast", "quick"}
         THEN Nested("empty", final)
         ELSE Moved("empty")
  /\ UNCHANGED linkCache

\* A call that returns nothing; its caller goes on at its own stage.
ReturnNothing ==
  /\ At("empty")
  /\ resolving' = [resolving EXCEPT !.stack = Front(@),
                                    !.phase = IF Len(resolving.stack) = 1 THEN "done" ELSE @]
  /\ UNCHANGED linkCache

\* Hosts that lead to each other: the recursion limit, caught by the quick
\* host's resolver only.
TooDeep ==
  /\ At("new") /\ ~Usable(Top.url) /\ Len(resolving.stack) >= MaxFrames
  /\ resolving' =
       IF QuickCall # 0
       THEN [resolving EXCEPT !.stack = Append(SubSeq(@, 1, QuickCall - 1),
                                               Frame(@[QuickCall].url, "redirect"))]
       ELSE [resolving EXCEPT !.phase = "raised", !.stack = <<>>]
  /\ UNCHANGED linkCache

ResolveStep ==
  /\ \/ AnswerUsable \/ AskHost \/ AskQuick \/ ReadQuickPage
     \/ FollowRedirects \/ ReturnNothing \/ TooDeep
  /\ UNCHANGED expired

\* A link ends, of whichever file host; a cached resolution grows old or is
\* evicted.
LinkExpires(u) ==
  /\ u \in Copyable /\ u \notin expired
  /\ expired' = expired \cup {u} /\ UNCHANGED <<linkCache, resolving>>
CacheExpires(u) ==
  /\ linkCache[u] # NoLink
  /\ linkCache' = [linkCache EXCEPT ![u] = NoLink] /\ UNCHANGED <<expired, resolving>>

\* Part of the type invariant of the composition.
ResolverTypeOK ==
  /\ resolving.phase \in {"idle", "open", "done", "raised"}
  /\ Len(resolving.stack) <= MaxFrames
  /\ resolving.phase = "open" <=> resolving.stack # <<>>
  /\ \A u \in Links : linkCache[u] # NoLink => HostOf[u] \in {"gdflix", "dlfast"}

\* A resolution answers with a link that can be copied, and with one of the
\* quick host only while that is still served, whatever was cached for hours or
\* seen earlier in the same resolution. (Nobody asks after a link of the other
\* file hosts: one that ended is answered, out of the cache, for hours.)
ResolvedIsUsable ==
  [][\/ resolving'.answer \in {resolving.answer, NoLink}
     \/ /\ resolving'.answer \in Copyable
        /\ HostOf[resolving'.answer] = "quick" => resolving'.answer \notin expired]_<<expired, linkCache, resolving>>
=============================================================================
