------------------------------- MODULE WebProofs -------------------------------
(***************************************************************************)
(* Proofs about resolving a link, and the type correctness of the parts of  *)
(* the public side together.                                               *)
(***************************************************************************)
EXTENDS FindLinksProofs, SearchProofs

-----------------------------------------------------------------------------
(* The stack of open calls.                                                *)

FrameStages == {"new", "host", "page", "redirect", "empty"}
Calls == [url : Links, at : FrameStages]
Answers == Links \cup {NoLink}
ResolvePhases == {"idle", "open", "done", "raised"}
Resolutions == [phase : ResolvePhases, stack : Seq(Calls), answer : Answers]

\* A call that has passed the limit on its depth is not the deepest possible:
\* the one it makes next has room.
HasDepth(stack) ==
  /\ Len(stack) <= MaxFrames
  /\ \A i \in DOMAIN stack : stack[i].at # "new" => i < MaxFrames

StackInv ==
  /\ resolving \in Resolutions
  /\ resolving.phase = "open" <=> resolving.stack # <<>>
  /\ HasDepth(resolving.stack)

LinkCacheInv ==
  /\ linkCache \in [Links -> Answers]
  /\ \A u \in Links : linkCache[u] # NoLink => HostOf[u] \in {"gdflix", "dlfast"}

ResolverInv == StackInv /\ LinkCacheInv

\* A set of numbers with an upper bound has a greatest one.
LEMMA Greatest ==
  ASSUME NEW n \in Nat, NEW F \in SUBSET (1 .. n), F # {}
  PROVE  Max(F) \in F /\ \A i \in F : Max(F) >= i
<1> DEFINE S == {k \in Nat : \A G \in SUBSET (1 .. k) :
                   G # {} => \E x \in G : \A y \in G : x >= y}
<1>1. 0 \in S
  <2>1. \A G \in SUBSET (1 .. 0) : G = {}  OBVIOUS
  <2> QED BY <2>1
<1>2. ASSUME NEW k \in Nat, k \in S PROVE k + 1 \in S
  <2> SUFFICES ASSUME NEW G \in SUBSET (1 .. k + 1), G # {}
               PROVE  \E x \in G : \A y \in G : x >= y
    OBVIOUS
  <2>1. CASE k + 1 \in G
    <3>1. \A y \in G : k + 1 >= y  OBVIOUS
    <3> QED BY <2>1, <3>1
  <2>2. CASE k + 1 \notin G
    <3>1. G \in SUBSET (1 .. k)  BY <2>2
    <3> QED BY <1>2, <3>1
  <2> QED BY <2>1, <2>2
<1> HIDE DEF S
<1>3. n \in S  BY <1>1, <1>2, AllNumbers
<1>4. \E x \in F : \A y \in F : x >= y  BY <1>3 DEF S
<1> QED BY <1>4 DEF Max

LEMMA QuickCallIsOpen ==
  ASSUME StackInv
  PROVE  /\ QuickCall \in 0 .. Len(resolving.stack) /\ Len(resolving.stack) \in Nat
         /\ QuickCall # 0 => /\ resolving.stack[QuickCall].at = "page"
                             /\ QuickCall < MaxFrames
<1> DEFINE open == {i \in DOMAIN resolving.stack : resolving.stack[i].at = "page"}
<1>1. /\ resolving.stack \in Seq(Calls) /\ Len(resolving.stack) \in Nat
      /\ DOMAIN resolving.stack = 1 .. Len(resolving.stack)
  <2>1. resolving.stack \in Seq(Calls)  BY DEF StackInv, Resolutions
  <2> QED BY <2>1
<1>2. open \in SUBSET (1 .. Len(resolving.stack))  BY <1>1
<1>3. QuickCall = IF open = {} THEN 0 ELSE Max(open)  BY DEF QuickCall
<1>4. open # {} => Max(open) \in open  BY <1>1, <1>2, Greatest
<1>5. \A i \in open : /\ resolving.stack[i].at = "page" /\ i \in 1 .. Len(resolving.stack)
                      /\ i < MaxFrames
  BY <1>2 DEF StackInv, HasDepth
<1> HIDE DEF open
<1>6. CASE open = {}  BY <1>1, <1>3, <1>6
<1>7. CASE open # {}
  <2>1. QuickCall \in open  BY <1>3, <1>4, <1>7
  <2> QED BY <1>1, <1>5, <2>1
<1> QED BY <1>6, <1>7

-----------------------------------------------------------------------------
(* The stacks that a step makes.                                           *)

LEMMA FrontOfStack ==
  ASSUME NEW stack \in Seq(Calls), NEW n \in 0 .. Len(stack), HasDepth(stack)
  PROVE  /\ SubSeq(stack, 1, n) \in Seq(Calls) /\ Len(SubSeq(stack, 1, n)) = n
         /\ HasDepth(SubSeq(stack, 1, n))
<1>1. Len(stack) \in Nat /\ MaxFrames \in Nat  BY HostAssumption
<1>2. /\ SubSeq(stack, 1, n) \in Seq(Calls) /\ Len(SubSeq(stack, 1, n)) = n
      /\ \A i \in 1 .. n : SubSeq(stack, 1, n)[i] = stack[i]
  BY <1>1
<1>3. DOMAIN SubSeq(stack, 1, n) = 1 .. n /\ 1 .. n \subseteq DOMAIN stack  BY <1>1, <1>2
<1> QED BY <1>1, <1>2, <1>3 DEF HasDepth

LEMMA CallAdded ==
  ASSUME NEW stack \in Seq(Calls), HasDepth(stack), Len(stack) < MaxFrames,
         NEW call \in Calls, call.at # "new" => Len(stack) + 1 < MaxFrames
  PROVE  /\ Append(stack, call) \in Seq(Calls) /\ HasDepth(Append(stack, call))
         /\ Append(stack, call) # <<>> /\ Len(Append(stack, call)) = Len(stack) + 1
<1>1. Len(stack) \in Nat /\ MaxFrames \in Nat  BY HostAssumption
<1>2. /\ Append(stack, call) \in Seq(Calls) /\ Len(Append(stack, call)) = Len(stack) + 1
      /\ \A i \in 1 .. Len(stack) : Append(stack, call)[i] = stack[i]
      /\ Append(stack, call)[Len(stack) + 1] = call
  OBVIOUS
<1>3. DOMAIN Append(stack, call) = 1 .. Len(stack) + 1 /\ DOMAIN stack = 1 .. Len(stack)
  BY <1>2
<1>4. HasDepth(Append(stack, call))
  <2>1. ASSUME NEW i \in 1 .. Len(stack) + 1, Append(stack, call)[i].at # "new"
        PROVE  i < MaxFrames
    <3>1. CASE i = Len(stack) + 1  BY <1>2, <2>1, <3>1
    <3>2. CASE i # Len(stack) + 1
      <4>1. i \in 1 .. Len(stack)  BY <1>1, <3>2
      <4> QED BY <1>2, <1>3, <2>1, <4>1 DEF HasDepth
    <3> QED BY <3>1, <3>2
  <2> QED BY <1>1, <1>2, <1>3, <2>1 DEF HasDepth
<1>5. Append(stack, call) # <<>>  BY <1>1, <1>2
<1> QED BY <1>2, <1>4, <1>5

\* A step to a stack that is not empty goes on; one to an empty stack ends.
LEMMA GoesOn ==
  ASSUME StackInv, NEW stack \in Seq(Calls), HasDepth(stack), stack # <<>>,
         resolving.phase = "open", resolving' = [resolving EXCEPT !.stack = stack]
  PROVE  StackInv' /\ resolving'.answer = resolving.answer
<1>1. /\ resolving' \in Resolutions /\ resolving'.phase = "open"
      /\ resolving'.stack = stack /\ resolving'.answer = resolving.answer
  BY DEF StackInv, Resolutions
<1> QED BY <1>1 DEF StackInv

LEMMA StackFacts ==
  ASSUME StackInv, resolving.phase = "open"
  PROVE  /\ resolving.stack \in Seq(Calls) /\ HasDepth(resolving.stack)
         /\ Len(resolving.stack) \in Nat \ {0} /\ Len(resolving.stack) <= MaxFrames
         /\ MaxFrames \in Nat /\ Top \in Calls
         /\ Top.at # "new" => Len(resolving.stack) < MaxFrames
         /\ Front(resolving.stack) \in Seq(Calls) /\ HasDepth(Front(resolving.stack))
         /\ Len(Front(resolving.stack)) = Len(resolving.stack) - 1
<1>1. /\ resolving.stack \in Seq(Calls) /\ HasDepth(resolving.stack) /\ resolving.stack # <<>>
  BY DEF StackInv, Resolutions
<1>2. /\ Len(resolving.stack) \in Nat \ {0} /\ MaxFrames \in Nat
      /\ Len(resolving.stack) \in DOMAIN resolving.stack
  BY <1>1, HostAssumption
<1>3. Top \in Calls /\ (Top.at # "new" => Len(resolving.stack) < MaxFrames)
  BY <1>1, <1>2 DEF Top, Last, HasDepth
<1>4. Len(resolving.stack) <= MaxFrames  BY <1>1 DEF HasDepth
<1>5. Len(resolving.stack) - 1 \in 0 .. Len(resolving.stack)  BY <1>2
<1> QED BY <1>1, <1>2, <1>3, <1>4, <1>5, FrontOfStack DEF Front

\* The top call moves on, where it has room, and perhaps waits for another.
LEMMA MovedKeeps ==
  ASSUME StackInv, resolving.phase = "open", Len(resolving.stack) < MaxFrames,
         NEW stage \in FrameStages,
         \/ resolving' = Moved(stage)
         \/ \E u \in Links : resolving' = Nested(stage, u)
  PROVE  StackInv' /\ resolving'.answer = resolving.answer
<1>1. /\ Len(resolving.stack) \in Nat \ {0} /\ MaxFrames \in Nat /\ Top \in Calls
      /\ Front(resolving.stack) \in Seq(Calls) /\ HasDepth(Front(resolving.stack))
      /\ Len(Front(resolving.stack)) = Len(resolving.stack) - 1 /\ resolving \in Resolutions
  BY StackFacts DEF StackInv
<1>2. Frame(Top.url, stage) \in Calls /\ \A u \in Links : Opened(u) \in Calls /\ Opened(u).at = "new"
  BY <1>1 DEF Calls, Frame, Opened, FrameStages
<1>3. PICK stack : stack = Append(Front(resolving.stack), Frame(Top.url, stage))  OBVIOUS
<1>4. /\ stack \in Seq(Calls) /\ HasDepth(stack) /\ stack # <<>>
      /\ Len(stack) = Len(resolving.stack)
  <2>1. Len(Front(resolving.stack)) < MaxFrames /\ Len(Front(resolving.stack)) + 1 < MaxFrames
        /\ Len(Front(resolving.stack)) + 1 = Len(resolving.stack)
    BY <1>1
  <2> QED BY <1>1, <1>2, <1>3, <2>1, CallAdded
<1>5. CASE resolving' = Moved(stage)
  <2>1. resolving' = [resolving EXCEPT !.stack = stack]
    BY <1>1, <1>3, <1>5 DEF Moved, Resolutions
  <2> QED BY <1>4, <2>1, GoesOn
<1>6. ASSUME NEW u \in Links, resolving' = Nested(stage, u)
      PROVE  StackInv' /\ resolving'.answer = resolving.answer
  <2>1. PICK deeper : deeper = Append(stack, Opened(u))  OBVIOUS
  <2>2. deeper \in Seq(Calls) /\ HasDepth(deeper) /\ deeper # <<>>
    BY <1>2, <1>4, <2>1, CallAdded
  <2>3. resolving' = [resolving EXCEPT !.stack = deeper]
    BY <1>1, <1>3, <1>6, <2>1 DEF Nested, Moved, Resolutions
  <2> QED BY <2>2, <2>3, GoesOn
<1> QED BY <1>5, <1>6

\* A usable link ends the resolution, or goes to the caller of the quick host.
LEMMA AnsweredKeeps ==
  ASSUME StackInv, resolving.phase = "open", NEW u \in Links, resolving' = Answered(u)
  PROVE  StackInv' /\ resolving'.answer \in {resolving.answer, u}
<1>1. /\ resolving.stack \in Seq(Calls) /\ HasDepth(resolving.stack) /\ MaxFrames \in Nat
      /\ resolving \in Resolutions
  BY StackFacts DEF StackInv
<1>2. CASE QuickCall = 0
  <2>1. resolving' = [resolving EXCEPT !.phase = "done", !.stack = <<>>, !.answer = u]
    BY <1>2 DEF Answered
  <2>2. "done" \in ResolvePhases /\ u \in Answers /\ <<>> \in Seq(Calls)
    BY DEF ResolvePhases, Answers
  <2>3. /\ resolving' \in Resolutions /\ resolving'.phase = "done" /\ resolving'.stack = <<>>
        /\ resolving'.answer = u
    BY <1>1, <2>1, <2>2 DEF Resolutions
  <2>4. HasDepth(<<>>)
    <3>1. Len(<<>>) = 0 /\ DOMAIN <<>> = {}  OBVIOUS
    <3> QED BY <1>1, <3>1 DEF HasDepth
  <2> QED BY <2>3, <2>4 DEF StackInv
<1>3. CASE QuickCall # 0
  <2>1. /\ QuickCall \in 1 .. Len(resolving.stack) /\ QuickCall < MaxFrames
        /\ Len(resolving.stack) \in Nat
    BY <1>3, QuickCallIsOpen
  <2>2. resolving.stack[QuickCall] \in Calls  BY <1>1, <2>1
  <2>3. PICK below : below = SubSeq(resolving.stack, 1, QuickCall - 1)  OBVIOUS
  <2>4. below \in Seq(Calls) /\ HasDepth(below) /\ Len(below) = QuickCall - 1
    <3>1. QuickCall - 1 \in 0 .. Len(resolving.stack)  BY <2>1
    <3> QED BY <1>1, <2>3, <3>1, FrontOfStack
  <2>5. PICK call \in Calls : call = Frame(resolving.stack[QuickCall].url, "redirect")
    BY <2>2 DEF Calls, Frame, FrameStages
  <2>6. Opened(u) \in Calls /\ Opened(u).at = "new"
    BY DEF Calls, Frame, Opened, FrameStages
  <2>7. PICK waiting : waiting = Append(below, call)  OBVIOUS
  <2>8. waiting \in Seq(Calls) /\ HasDepth(waiting) /\ Len(waiting) = QuickCall
    <3>1. Len(below) < MaxFrames /\ Len(below) + 1 < MaxFrames /\ Len(below) + 1 = QuickCall
      BY <1>1, <2>1, <2>4
    <3> QED BY <2>4, <2>7, <3>1, CallAdded
  <2>9. PICK stack : stack = Append(waiting, Opened(u))  OBVIOUS
  <2>10. stack \in Seq(Calls) /\ HasDepth(stack) /\ stack # <<>>
    BY <2>1, <2>6, <2>8, <2>9, CallAdded
  <2>11. below \o <<call, Opened(u)>> = stack
    BY <2>4, <2>6, <2>7, <2>8, <2>9
  <2>12. resolving' = [resolving EXCEPT !.stack = stack]
    BY <1>1, <1>3, <2>3, <2>5, <2>11 DEF Answered, Resolutions
  <2> QED BY <2>10, <2>12, GoesOn
<1> QED BY <1>2, <1>3

-----------------------------------------------------------------------------
(* The steps of a resolution.                                              *)

\* What a step may answer: what was answered before, nothing, or a link that
\* can be copied and, of the quick host, is still served.
AnswerIsUsable ==
  \/ resolving'.answer \in {resolving.answer, NoLink}
  \/ /\ resolving'.answer \in Copyable
     /\ HostOf[resolving'.answer] = "quick" => resolving'.answer \notin expired

LEMMA UsableAnswered ==
  ASSUME StackInv, resolving.phase = "open", NEW u \in Links, Usable(u),
         resolving' = Answered(u)
  PROVE  StackInv' /\ AnswerIsUsable
BY AnsweredKeeps DEF Usable, AnswerIsUsable

LEMMA MovedOn ==
  ASSUME StackInv, resolving.phase = "open", Len(resolving.stack) < MaxFrames,
         NEW stage \in FrameStages,
         \/ resolving' = Moved(stage)
         \/ \E u \in Links : resolving' = Nested(stage, u)
  PROVE  StackInv' /\ AnswerIsUsable
BY MovedKeeps DEF AnswerIsUsable

LEMMA ResolverTypes ==
  /\ NoLink \notin Links /\ MaxFrames \in Nat \ {0} /\ HostOf \in [Links -> Hosts]
  /\ Copyable \subseteq Links
  /\ \A host \in Hosts : Leads(host) \subseteq Links
  /\ "host" \in FrameStages /\ "page" \in FrameStages /\ "redirect" \in FrameStages
  /\ "empty" \in FrameStages
<1>1. \A host \in Hosts : Leads(host) \subseteq Links  BY DEF Leads, Copyable
<1> QED BY <1>1, HostAssumption DEF Copyable, FrameStages

LEMMA AskHostKeeps ==
  ASSUME ResolverInv, AskHost PROVE ResolverInv' /\ AnswerIsUsable
<1>1. /\ StackInv /\ resolving.phase = "open" /\ Len(resolving.stack) < MaxFrames
      /\ Top \in Calls /\ Top.url \in Links /\ linkCache \in [Links -> Answers]
      /\ \A u \in Links : linkCache[u] # NoLink => HostOf[u] \in {"gdflix", "dlfast"}
  <2>1. StackInv /\ LinkCacheInv /\ resolving.phase = "open" /\ Len(resolving.stack) < MaxFrames
    BY DEF AskHost, At, ResolverInv
  <2>2. Top \in Calls  BY <2>1, StackFacts
  <2> QED BY <2>1, <2>2 DEF Calls, LinkCacheInv
<1>2. PICK r \in IF Cached(Top.url) THEN {linkCache[Top.url]}
                 ELSE Leads(HostOf[Top.url]) \cup {NoLink} :
        /\ resolving' = Use(r)
        /\ linkCache' = IF HostOf[Top.url] \in {"gdflix", "dlfast"} /\ r # NoLink
                        THEN [linkCache EXCEPT ![Top.url] = r] ELSE linkCache
  BY DEF AskHost
<1>3. r \in Answers
  <2>1. linkCache[Top.url] \in Answers  BY <1>1
  <2>2. Leads(HostOf[Top.url]) \subseteq Links
    <3>1. HostOf[Top.url] \in Hosts  BY <1>1, ResolverTypes
    <3> QED BY <3>1, ResolverTypes
  <2> QED BY <1>2, <2>1, <2>2 DEF Answers
<1>4. LinkCacheInv'
  <2>1. linkCache' \in [Links -> Answers]  BY <1>1, <1>2, <1>3
  <2>2. \A u \in Links : linkCache'[u] # NoLink => HostOf[u] \in {"gdflix", "dlfast"}
    BY <1>1, <1>2
  <2> QED BY <2>1, <2>2 DEF LinkCacheInv
<1>5. StackInv' /\ AnswerIsUsable
  <2>1. CASE r = NoLink \/ r \in Intermediate
    <3>1. resolving' = Moved("redirect")  BY <1>2, <2>1 DEF Use
    <3> QED BY <1>1, <3>1, ResolverTypes, MovedOn
  <2>2. CASE ~(r = NoLink \/ r \in Intermediate) /\ Usable(r)
    <3>1. resolving' = Answered(r) /\ r \in Links  BY <1>2, <1>3, <2>2 DEF Use, Answers
    <3> QED BY <1>1, <2>2, <3>1, UsableAnswered
  <2>3. CASE ~(r = NoLink \/ r \in Intermediate) /\ ~Usable(r)
    <3>1. resolving' = Nested("redirect", r) /\ r \in Links
      BY <1>2, <1>3, <2>3 DEF Use, Answers
    <3> QED BY <1>1, <3>1, ResolverTypes, MovedOn
  <2> QED BY <2>1, <2>2, <2>3
<1> QED BY <1>4, <1>5 DEF ResolverInv

LEMMA AskQuickKeeps == ASSUME StackInv, AskQuick PROVE StackInv' /\ AnswerIsUsable
<1>1. resolving.phase = "open" /\ Len(resolving.stack) < MaxFrames  BY DEF AskQuick, At
<1>2. PICK final \in Links :
        resolving' = IF final # Top.url /\ Usable(final) THEN Answered(final)
                     ELSE IF final # Top.url /\ final \notin Intermediate
                     THEN Nested("page", final)
                     ELSE Moved("host")
  BY DEF AskQuick
<1>3. CASE final # Top.url /\ Usable(final)  BY <1>1, <1>2, <1>3, UsableAnswered
<1>4. CASE ~(final # Top.url /\ Usable(final)) /\ final # Top.url /\ final \notin Intermediate
  <2>1. resolving' = Nested("page", final)  BY <1>2, <1>4
  <2> QED BY <1>1, <2>1, ResolverTypes, MovedOn
<1>5. CASE ~(final # Top.url /\ Usable(final)) /\ ~(final # Top.url /\ final \notin Intermediate)
  <2>1. resolving' = Moved("host")  BY <1>2, <1>5
  <2> QED BY <1>1, <2>1, ResolverTypes, MovedOn
<1> QED BY <1>3, <1>4, <1>5

LEMMA ReadQuickPageKeeps == ASSUME StackInv, ReadQuickPage PROVE StackInv' /\ AnswerIsUsable
<1>1. resolving.phase = "open" /\ Len(resolving.stack) < MaxFrames
  <2>1. resolving.phase = "open" /\ Top.at # "new"  BY DEF ReadQuickPage, At
  <2> QED BY <2>1, StackFacts
<1>2. PICK r \in Copyable \cup {NoLink} :
        resolving' = IF r = NoLink \/ ~Usable(r) THEN Moved("redirect") ELSE Answered(r)
  BY DEF ReadQuickPage, Leads
<1>3. CASE r = NoLink \/ ~Usable(r)
  <2>1. resolving' = Moved("redirect")  BY <1>2, <1>3
  <2> QED BY <1>1, <2>1, ResolverTypes, MovedOn
<1>4. CASE ~(r = NoLink \/ ~Usable(r))
  <2>1. resolving' = Answered(r) /\ r \in Links /\ Usable(r)  BY <1>2, <1>4, ResolverTypes
  <2> QED BY <1>1, <2>1, UsableAnswered
<1> QED BY <1>3, <1>4

LEMMA FollowRedirectsKeeps ==
  ASSUME StackInv, FollowRedirects PROVE StackInv' /\ AnswerIsUsable
<1>1. resolving.phase = "open" /\ Len(resolving.stack) < MaxFrames
  <2>1. resolving.phase = "open" /\ Top.at # "new"  BY DEF FollowRedirects, At
  <2> QED BY <2>1, StackFacts
<1> DEFINE Known(u) == HostOf[u] \in {"gdflix", "busycdn", "dlfast", "quick"}
<1>2. PICK final \in Links :
        resolving' = IF final # Top.url /\ Usable(final) THEN Answered(final)
                     ELSE IF final # Top.url /\ Known(final) THEN Nested("empty", final)
                     ELSE Moved("empty")
  BY DEF FollowRedirects
<1> HIDE DEF Known
<1>3. CASE final # Top.url /\ Usable(final)  BY <1>1, <1>2, <1>3, UsableAnswered
<1>4. CASE ~(final # Top.url /\ Usable(final)) /\ final # Top.url /\ Known(final)
  <2>1. resolving' = Nested("empty", final)  BY <1>2, <1>4
  <2> QED BY <1>1, <2>1, ResolverTypes, MovedOn
<1>5. CASE ~(final # Top.url /\ Usable(final)) /\ ~(final # Top.url /\ Known(final))
  <2>1. resolving' = Moved("empty")  BY <1>2, <1>5
  <2> QED BY <1>1, <2>1, ResolverTypes, MovedOn
<1> QED BY <1>3, <1>4, <1>5

LEMMA ReturnNothingKeeps ==
  ASSUME StackInv, ReturnNothing PROVE StackInv' /\ AnswerIsUsable
<1>1. /\ resolving.phase = "open" /\ resolving \in Resolutions
      /\ resolving' = [resolving EXCEPT !.stack = Front(@),
                         !.phase = IF Len(resolving.stack) = 1 THEN "done" ELSE @]
  BY DEF ReturnNothing, At, StackInv
<1>2. /\ Len(resolving.stack) \in Nat \ {0}
      /\ Front(resolving.stack) \in Seq(Calls) /\ HasDepth(Front(resolving.stack))
      /\ Len(Front(resolving.stack)) = Len(resolving.stack) - 1
  BY <1>1, StackFacts
<1>3. Front(resolving.stack) = <<>> <=> Len(resolving.stack) = 1
  <2>1. PICK front \in Seq(Calls) : front = Front(resolving.stack)  BY <1>2
  <2>2. front = <<>> <=> Len(front) = 0  BY <2>1
  <2>3. Len(front) = Len(resolving.stack) - 1  BY <1>2, <2>1
  <2>4. Len(front) = 0 <=> Len(resolving.stack) = 1  BY <1>2, <2>3
  <2> QED BY <2>1, <2>2, <2>4
<1>4. PICK phase \in ResolvePhases :
        phase = IF Len(resolving.stack) = 1 THEN "done" ELSE "open"
  BY DEF ResolvePhases
<1>5. /\ resolving' \in Resolutions /\ resolving'.stack = Front(resolving.stack)
      /\ resolving'.phase = phase /\ resolving'.answer = resolving.answer
  BY <1>1, <1>2, <1>4 DEF Resolutions
<1>6. phase = "open" <=> Len(resolving.stack) # 1  BY <1>4
<1> QED BY <1>2, <1>3, <1>5, <1>6 DEF StackInv, AnswerIsUsable

LEMMA TooDeepKeeps == ASSUME StackInv, TooDeep PROVE StackInv' /\ AnswerIsUsable
<1>1. resolving.phase = "open" /\ resolving \in Resolutions  BY DEF TooDeep, At, StackInv
<1>2. /\ resolving.stack \in Seq(Calls) /\ HasDepth(resolving.stack) /\ MaxFrames \in Nat
  BY <1>1, StackFacts
<1>3. CASE QuickCall = 0
  <2>1. resolving' = [resolving EXCEPT !.phase = "raised", !.stack = <<>>]
    BY <1>3 DEF TooDeep
  <2>2. "raised" \in ResolvePhases /\ <<>> \in Seq(Calls)  BY DEF ResolvePhases
  <2>3. /\ resolving' \in Resolutions /\ resolving'.phase = "raised" /\ resolving'.stack = <<>>
        /\ resolving'.answer = resolving.answer
    BY <1>1, <2>1, <2>2 DEF Resolutions
  <2>4. HasDepth(<<>>)
    <3>1. Len(<<>>) = 0 /\ DOMAIN <<>> = {}  OBVIOUS
    <3> QED BY <1>2, <3>1 DEF HasDepth
  <2> QED BY <2>3, <2>4 DEF StackInv, AnswerIsUsable
<1>4. CASE QuickCall # 0
  <2>1. /\ QuickCall \in 1 .. Len(resolving.stack) /\ QuickCall < MaxFrames
        /\ Len(resolving.stack) \in Nat
    BY <1>4, QuickCallIsOpen
  <2>2. resolving.stack[QuickCall] \in Calls  BY <1>2, <2>1
  <2>3. PICK below : below = SubSeq(resolving.stack, 1, QuickCall - 1)  OBVIOUS
  <2>4. below \in Seq(Calls) /\ HasDepth(below) /\ Len(below) = QuickCall - 1
    <3>1. QuickCall - 1 \in 0 .. Len(resolving.stack)  BY <2>1
    <3> QED BY <1>2, <2>3, <3>1, FrontOfStack
  <2>5. PICK call \in Calls : call = Frame(resolving.stack[QuickCall].url, "redirect")
    BY <2>2 DEF Calls, Frame, FrameStages
  <2>6. PICK stack : stack = Append(below, call)  OBVIOUS
  <2>7. stack \in Seq(Calls) /\ HasDepth(stack) /\ stack # <<>>
    <3>1. Len(below) < MaxFrames /\ Len(below) + 1 < MaxFrames  BY <1>2, <2>1, <2>4
    <3> QED BY <2>4, <2>6, <3>1, CallAdded
  <2>8. resolving' = [resolving EXCEPT !.stack = stack]
    BY <1>1, <1>4, <2>3, <2>5, <2>6 DEF TooDeep, Resolutions
  <2> QED BY <1>1, <2>7, <2>8, GoesOn DEF AnswerIsUsable
<1> QED BY <1>3, <1>4

LEMMA StartResolveKeeps ==
  ASSUME NEW u \in Links, StartResolve(u) PROVE StackInv' /\ AnswerIsUsable
<1>1. resolving' = [NoResolution EXCEPT !.phase = "open", !.stack = <<Opened(u)>>]
  BY DEF StartResolve
<1>2. Opened(u) \in Calls /\ Opened(u).at = "new"  BY DEF Opened, Frame, Calls, FrameStages
<1>3. PICK stack \in Seq(Calls) : stack = <<Opened(u)>>
  <2>1. <<Opened(u)>> \in Seq(Calls)  BY <1>2
  <2> QED BY <2>1
<1>4. HasDepth(stack) /\ stack # <<>>
  <2>1. Len(stack) = 1 /\ DOMAIN stack = {1} /\ stack[1] = Opened(u)  BY <1>3
  <2> QED BY <1>2, <2>1, ResolverTypes DEF HasDepth
<1>5. "open" \in ResolvePhases /\ NoLink \in Answers  BY DEF ResolvePhases, Answers
<1>6. /\ resolving' \in Resolutions /\ resolving'.phase = "open" /\ resolving'.stack = stack
      /\ resolving'.answer = NoLink
  BY <1>1, <1>3, <1>5 DEF NoResolution, Resolutions
<1> QED BY <1>4, <1>6 DEF StackInv, AnswerIsUsable

LEMMA CacheUntouched == ASSUME LinkCacheInv, UNCHANGED linkCache PROVE LinkCacheInv'
BY DEF LinkCacheInv

LEMMA StackUntouched == ASSUME StackInv, UNCHANGED resolving PROVE StackInv' /\ AnswerIsUsable
BY DEF StackInv, AnswerIsUsable

LEMMA ResolverInitially == ResolverInit => ResolverInv
<1> SUFFICES ASSUME ResolverInit PROVE ResolverInv  OBVIOUS
<1>1. HasDepth(<<>>)
  <2>1. Len(<<>>) = 0 /\ DOMAIN <<>> = {}  OBVIOUS
  <2> QED BY <2>1, ResolverTypes DEF HasDepth
<1>2. "idle" \in ResolvePhases /\ NoLink \in Answers /\ <<>> \in Seq(Calls)
  BY DEF ResolvePhases, Answers
<1>3. StackInv  BY <1>1, <1>2 DEF ResolverInit, NoResolution, StackInv, Resolutions
<1>4. LinkCacheInv  BY <1>2 DEF ResolverInit, LinkCacheInv
<1> QED BY <1>3, <1>4 DEF ResolverInv

LEMMA ResolverKept == ResolverInv /\ [Next]_vars => ResolverInv' /\ AnswerIsUsable
<1> SUFFICES ASSUME ResolverInv, [Next]_vars PROVE ResolverInv' /\ AnswerIsUsable  OBVIOUS
<1>0. StackInv /\ LinkCacheInv  BY DEF ResolverInv
<1>1. CASE UNCHANGED resolverVars
  BY <1>0, <1>1, CacheUntouched, StackUntouched DEF resolverVars, ResolverInv
<1>2. CASE ResolveStep
  <2>1. CASE AskHost  BY <2>1, AskHostKeeps
  <2>2. CASE AskQuick \/ ReadQuickPage \/ FollowRedirects \/ ReturnNothing \/ TooDeep
    <3>1. UNCHANGED linkCache
      BY <2>2 DEF AskQuick, ReadQuickPage, FollowRedirects, ReturnNothing, TooDeep
    <3>2. StackInv' /\ AnswerIsUsable
      BY <1>0, <2>2, AskQuickKeeps, ReadQuickPageKeeps, FollowRedirectsKeeps,
         ReturnNothingKeeps, TooDeepKeeps
    <3> QED BY <1>0, <3>1, <3>2, CacheUntouched DEF ResolverInv
  <2>3. CASE AnswerUsable
    <3>1. /\ resolving.phase = "open" /\ Usable(Top.url) /\ resolving' = Answered(Top.url)
          /\ UNCHANGED linkCache
      BY <2>3 DEF AnswerUsable, At
    <3>2. Top.url \in Links  BY <3>1, ResolverTypes DEF Usable
    <3> QED BY <1>0, <3>1, <3>2, UsableAnswered, CacheUntouched DEF ResolverInv
  <2> QED BY <1>2, <2>1, <2>2, <2>3 DEF ResolveStep
<1>3. ASSUME NEW u \in Links, StartResolve(u) PROVE ResolverInv' /\ AnswerIsUsable
  BY <1>0, <1>3, StartResolveKeeps, CacheUntouched DEF StartResolve, ResolverInv
<1>4. ASSUME NEW u \in Links, LinkExpires(u) PROVE ResolverInv' /\ AnswerIsUsable
  BY <1>0, <1>4, StackUntouched, CacheUntouched DEF LinkExpires, ResolverInv
<1>5. ASSUME NEW u \in Links, CacheExpires(u) PROVE ResolverInv' /\ AnswerIsUsable
  <2>1. UNCHANGED resolving /\ linkCache' = [linkCache EXCEPT ![u] = NoLink]
    BY <1>5 DEF CacheExpires
  <2>2. LinkCacheInv'  BY <1>0, <2>1 DEF LinkCacheInv, Answers
  <2> QED BY <1>0, <2>1, <2>2, StackUntouched DEF ResolverInv
<1>6. \/ UNCHANGED resolverVars \/ ResolveStep
      \/ \E u \in Links : StartResolve(u) \/ LinkExpires(u) \/ CacheExpires(u)
  BY DEF Next, vars, Searching, Finding, SettingUp, Resolving
<1> QED BY <1>1, <1>2, <1>3, <1>4, <1>5, <1>6

THEOREM ResolverInvariant == Spec => []ResolverInv
<1>1. Init => ResolverInv  BY ResolverInitially DEF Init
<1>2. ResolverInv /\ [Next]_vars => ResolverInv'  BY ResolverKept
<1> QED BY <1>1, <1>2, PTL DEF Spec

\* Through every number of hosts that lead to each other and whatever was
\* cached: a resolution answers nothing but a link that can be copied and that,
\* if it is one of the quick host, is served when it is answered (web_app.py,
\* resolve_inner_link). Of the links of the other file hosts it says no more.
THEOREM AnswersAreServed == Spec => ResolvedIsUsable
<1>1. ResolverInv /\ [Next]_vars => [AnswerIsUsable]_<<expired, linkCache, resolving>>
  BY ResolverKept
<1> QED BY <1>1, ResolverInvariant, PTL DEF Spec, ResolvedIsUsable, AnswerIsUsable

-----------------------------------------------------------------------------
(* Type correctness of the composition.                                    *)

\* Whatever its part is, the state of the public side has its type: among
\* others, an adapter is left alone no longer than the back-off, a page is
\* requested once, the stack of resolvers stays within the recursion limit,
\* and the cache of answers has one answer for a key (web_app.py).
THEOREM WebTypeCorrect == Spec => []TypeOK
<1>1. SearchInv => SearchTypeOK
  <2> SUFFICES ASSUME SearchInv PROVE SearchTypeOK  OBVIOUS
  <2>1. \A t \in Threads : /\ search[t].age \in 0 .. Timeout
                           /\ search[t].seen \in 0 .. IndexTTL
                           /\ search[t].waited \in 0 .. IndexTTL
                           /\ Labelled(search[t]) <= Len(search[t].rows)
    BY SearchFacts DEF Stages, Labelled
  <2>2. /\ \A i \in DOMAIN Adapters : pausedFor[i] \in 0 .. (Backoff - Timeout)
        /\ index.age \in 0 .. IndexTTL /\ index.since \in 0 .. IndexTTL
        /\ indexPause \in 0 .. IndexBackoff
    BY DEF SearchInv, IndexRecord, Ages
  <2> QED BY <2>1, <2>2 DEF SearchTypeOK
<1>2. LinksInv => FindTypeOK /\ WalkTypeOK /\ DeliveryTypeOK
  <2> SUFFICES ASSUME LinksInv PROVE FindTypeOK /\ WalkTypeOK /\ DeliveryTypeOK  OBVIOUS
  <2>1. FindTypeOK
    <3>1. find \in Finds /\ (find.phase # "rows" => find.open = {} /\ find.rows = {})
      BY DEF LinksInv, FindInv
    <3>2. find.status \in Statuses /\ find.direct \in DirectLinks  BY <3>1 DEF Finds
    <3>3. find.direct <= MaxDirect  BY <3>2, FindAssumption DEF DirectLinks
    <3> QED BY <3>1, <3>2, <3>3 DEF FindTypeOK, Statuses, LinksInv, CacheInv
  <2>2. WalkTypeOK
    <3>1. walk \in Walks /\ WalkInv  BY DEF LinksInv, WalkInv
    <3>2. walk.phase \in {"idle", "movie", "walk", "done", "raised"}  BY <3>1 DEF Walks
    <3>3. walk.status \in Status \cup {"none", "failed"}  BY <3>1 DEF Walks
    <3>4. walk.results \in SUBSET ResultRow  BY <3>1 DEF Walks
    <3>5. \A r \in walk.results : r.status \in Status  BY <3>4 DEF ResultRow
    <3>6. {Key(a) : a \in walk.queue} \subseteq walk.queued  BY <3>1 DEF WalkInv
    <3> QED BY <3>1, <3>2, <3>3, <3>5, <3>6 DEF WalkTypeOK, WalkInv
  <2>3. DeliveryTypeOK
    <3>1. chase \in Chases /\ (chase.phase = "found" <=> chase.url # NoPage)
      BY DEF LinksInv, ChaseInv
    <3>2. /\ chase.phase \in {"idle", "chase", "found", "lost", "raised"}
          /\ chase.visited \in SUBSET ChasePages
          /\ chase.queue \in SUBSET (ChasePages \X (0 .. MaxChase))
      BY <3>1 DEF Chases
    <3>3. \A entry \in chase.queue : entry[2] \in 0 .. MaxChase  BY <3>2
    <3>4. setup \in Setups /\ Len(setup.proof) = Len(setup.cards)  BY DEF LinksInv, SetupInv
    <3>5. DOMAIN setup.proof = DOMAIN setup.cards  BY <3>4, SetupTypes
    <3> QED BY <3>1, <3>2, <3>3, <3>5 DEF DeliveryTypeOK, ChasePages
  <2> QED BY <2>1, <2>2, <2>3
<1>3. ResolverInv => ResolverTypeOK
  BY DEF ResolverInv, StackInv, LinkCacheInv, HasDepth, Resolutions, ResolvePhases,
         ResolverTypeOK
<1>4. Init => part \in ActiveParts  BY DEF Init
<1>5. part \in ActiveParts /\ [Next]_vars => (part \in ActiveParts)'
  BY DEF Next, vars, Searching, Finding, SettingUp, Resolving
<1>6. Spec => [](part \in ActiveParts)  BY <1>4, <1>5, PTL DEF Spec
<1> QED BY <1>1, <1>2, <1>3, <1>6, SearchInvariant, LinksInvariant, ResolverInvariant, PTL
        DEF TypeOK
=============================================================================
