-------------------------------- MODULE Web --------------------------------
(* The public side of the legacy application: searching, finding links,       *)
(* resolving one link, and the set-up of an authorized source. They share no  *)
(* state but the code they call: each behaviour is one of one part, in which   *)
(* Workflow and Delivery serve the parts that call them.                       *)
EXTENDS FindLinks, Searches, Resolver

CONSTANTS ActiveParts   \* the parts explored

VARIABLE part

findVars == <<find, findCache, walk, chase, setup>>
resolverVars == <<expired, linkCache, resolving>>
vars == <<part, findVars, resolverVars, searchVars>>

Init == part \in ActiveParts /\ FindInit /\ SearchInit /\ ResolverInit

Searching(step) == part = "search" /\ step /\ UNCHANGED <<part, findVars, resolverVars>>
Finding(step) == part = "find" /\ step /\ UNCHANGED <<part, resolverVars, searchVars>>
SettingUp(step) == /\ part = "setup" /\ step
                   /\ UNCHANGED <<part, find, findCache, walk, resolverVars, searchVars>>
Resolving(step) == part = "resolve" /\ step /\ UNCHANGED <<part, findVars, searchVars>>

Next ==
  \/ Searching(SearchUsers) \/ Searching(Tick)
  \/ \E t \in Threads : Searching(SearchProgress(t))
  \/ \E request \in Requests : Finding(Ask(request))
  \/ Finding(FindStep) \/ Finding(FindCacheExpires)
  \/ Finding(DeadlinePasses /\ UNCHANGED <<find, findCache, chase, setup>>)
  \/ \E auto \in BOOLEAN, mode \in {"auto", "browser", "static"} :
       SettingUp(StartSetup(auto, mode))
  \/ SettingUp(SetupStep)
  \/ \E u \in Links : Resolving(StartResolve(u)) \/ Resolving(LinkExpires(u))
                      \/ Resolving(CacheExpires(u))
  \/ Resolving(ResolveStep)

\* The process runs and time passes; sites answer, or their time limits answer
\* for them. Nothing makes a saved adapter answer: it has no time limit of its
\* own that the search could rely on.
Progress ==
  \/ \E t \in Threads : Searching(SearchProgress(t))
  \/ Searching(Tick) \/ Finding(FindStep) \/ SettingUp(SetupStep) \/ Resolving(ResolveStep)

Spec == Init /\ [][Next]_vars /\ WF_vars(Progress)

TypeOK ==
  /\ part \in ActiveParts
  /\ SearchTypeOK /\ FindTypeOK /\ WalkTypeOK /\ DeliveryTypeOK /\ ResolverTypeOK

\* Every request is answered or fails, whatever the servers it asks do: an
\* adapter that never answers, hosts that lead to each other, pages that link
\* in circles.
Pending == Handling # {} \/ FindBusy \/ SetupBusy \/ resolving.phase = "open"
RequestsEnd == Pending ~> ~Pending
=============================================================================
