----------------------------- MODULE SearchProofs -----------------------------
(***************************************************************************)
(* Proofs about the search: the age of what the library index says, and    *)
(* the order in which the rows of all sources are merged and grouped.      *)
(***************************************************************************)
EXTENDS Web, FiniteSetTheorems, WellFoundedInduction, TLAPS

\* A set of numbers that has zero and every successor has them all: induction,
\* stated for a set, which the provers can instantiate.
LEMMA AllNumbers ==
  ASSUME NEW S, 0 \in S, \A n \in Nat : n \in S => n + 1 \in S
  PROVE  \A n \in Nat : n \in S
<1> SUFFICES ASSUME NEW n \in Nat, n \notin S PROVE FALSE  OBVIOUS
<1> DEFINE T == Nat \ S
<1>1. T \subseteq Nat /\ T # {}  OBVIOUS
<1>2. PICK m \in T : \A k \in T : <<k, m>> \notin OpToRel(<, Nat)
  BY <1>1, NatLessThanWellFounded, WFMin
<1>3. m \in Nat /\ m # 0 /\ m - 1 \in Nat  OBVIOUS
<1>4. <<m - 1, m>> \in OpToRel(<, Nat)  BY <1>3 DEF OpToRel
<1>5. m - 1 \in S  BY <1>2, <1>3, <1>4
<1>6. (m - 1) + 1 \in S  BY <1>3, <1>5
<1> QED BY <1>3, <1>6

-----------------------------------------------------------------------------
(* Joining sequences.                                                      *)

\* The recursive function by which FlattenSeq joins sequences.
Joins(f, seqs, n) ==
  f = [i \in 1 .. n |-> IF i = 1 THEN seqs[i] ELSE f[i - 1] \o seqs[i]]

LEMMA JoinExists ==
  ASSUME NEW seqs PROVE \A n \in Nat : \E f : Joins(f, seqs, n)
<1> DEFINE S == {n \in Nat : \E f : Joins(f, seqs, n)}
<1>1. 0 \in S
  <2>1. Joins([i \in 1 .. 0 |-> i], seqs, 0)  BY DEF Joins
  <2> QED BY <2>1
<1>2. ASSUME NEW n \in Nat, n \in S PROVE n + 1 \in S
  <2>1. PICK f : Joins(f, seqs, n)  BY <1>2
  <2> DEFINE g == [i \in 1 .. n + 1 |->
                     IF i = n + 1 THEN IF i = 1 THEN seqs[i] ELSE f[n] \o seqs[i] ELSE f[i]]
  <2>2. \A i \in 1 .. n + 1 : g[i] = IF i = 1 THEN seqs[i] ELSE g[i - 1] \o seqs[i]
    <3>1. SUFFICES ASSUME NEW i \in 1 .. n + 1
                   PROVE  g[i] = IF i = 1 THEN seqs[i] ELSE g[i - 1] \o seqs[i]
      OBVIOUS
    <3>2. CASE i = n + 1
      <4>1. i # 1 => i - 1 \in 1 .. n + 1 /\ i - 1 # n + 1 /\ i - 1 = n  BY <3>2
      <4>2. i # 1 => g[i - 1] = f[n]  BY <4>1
      <4> QED BY <3>2, <4>2
    <3>3. CASE i # n + 1
      <4>1. i \in 1 .. n /\ g[i] = f[i]  BY <3>3
      <4>2. i # 1 => i - 1 \in 1 .. n + 1 /\ i - 1 # n + 1  BY <4>1
      <4>3. i # 1 => g[i - 1] = f[i - 1]  BY <4>2
      <4>4. f[i] = IF i = 1 THEN seqs[i] ELSE f[i - 1] \o seqs[i]  BY <2>1, <4>1 DEF Joins
      <4> QED BY <4>1, <4>3, <4>4
    <3> QED BY <3>2, <3>3
  <2>3. Joins(g, seqs, n + 1)
    <3>1. g = [i \in 1 .. n + 1 |-> g[i]]  OBVIOUS
    <3> HIDE DEF g
    <3> QED BY <2>2, <3>1 DEF Joins
  <2> QED BY <2>3
<1> HIDE DEF S
<1>3. \A n \in Nat : n \in S  BY <1>1, <1>2, AllNumbers
<1> QED BY <1>3 DEF S

LEMMA JoinIsSequence ==
  ASSUME NEW A, NEW seqs \in Seq(Seq(A)), NEW f, Joins(f, seqs, Len(seqs))
  PROVE  \A i \in 1 .. Len(seqs) : f[i] \in Seq(A)
<1> DEFINE S == {n \in Nat : n \in 1 .. Len(seqs) => f[n] \in Seq(A)}
<1>0. Len(seqs) \in Nat  OBVIOUS
<1>1. 0 \in S  BY <1>0
<1>2. ASSUME NEW n \in Nat, n \in S PROVE n + 1 \in S
  <2> SUFFICES ASSUME n + 1 \in 1 .. Len(seqs) PROVE f[n + 1] \in Seq(A)
    OBVIOUS
  <2>1. seqs[n + 1] \in Seq(A)  OBVIOUS
  <2>2. CASE n = 0  BY <2>1, <2>2 DEF Joins
  <2>3. CASE n # 0
    <3>1. n \in 1 .. Len(seqs)  BY <1>0, <2>3
    <3>2. f[n] \in Seq(A)  BY <1>2, <3>1
    <3>3. f[n + 1] = f[n] \o seqs[n + 1]  
      <4>1. n + 1 # 1 /\ (n + 1) - 1 = n  BY <2>3
      <4>2. f[n + 1] = IF n + 1 = 1 THEN seqs[n + 1] ELSE f[(n + 1) - 1] \o seqs[n + 1]
        BY DEF Joins
      <4> QED BY <4>1, <4>2
    <3> QED BY <2>1, <3>2, <3>3
  <2> QED BY <2>2, <2>3
<1> HIDE DEF S
<1>3. \A n \in Nat : n \in S  BY <1>1, <1>2, AllNumbers
<1> QED BY <1>0, <1>3 DEF S

LEMMA FlattenIsSequence ==
  ASSUME NEW A, NEW seqs \in Seq(Seq(A)) PROVE FlattenSeq(seqs) \in Seq(A)
<1> DEFINE f == CHOOSE g : g = [i \in 1 .. Len(seqs) |->
                                  IF i = 1 THEN seqs[i] ELSE g[i - 1] \o seqs[i]]
<1>1. Joins(f, seqs, Len(seqs))
  <2>1. \E g : Joins(g, seqs, Len(seqs))
    <3>1. Len(seqs) \in Nat  OBVIOUS
    <3> QED BY <3>1, JoinExists
  <2> QED BY <2>1 DEF Joins
<1>2. FlattenSeq(seqs) = IF Len(seqs) = 0 THEN seqs ELSE f[Len(seqs)]  BY DEF FlattenSeq
<1> HIDE DEF f
<1>3. CASE Len(seqs) = 0
  <2>1. seqs = <<>>  BY <1>3
  <2> QED BY <1>2, <1>3, <2>1
<1>4. CASE Len(seqs) # 0
  <2>1. Len(seqs) \in 1 .. Len(seqs)  BY <1>4
  <2> QED BY <1>1, <1>2, <1>4, <2>1, JoinIsSequence
<1> QED BY <1>3, <1>4

-----------------------------------------------------------------------------
(* The elements of a finite set of numbers, by their rank.                 *)

UpTo(F, i) == {j \in F : j <= i}

LEMMA EveryRankIsTaken ==
  \A n \in Nat : \A F \in SUBSET (1 .. n) :
    /\ IsFiniteSet(F) /\ Cardinality(F) \in Nat
    /\ \A k \in 1 .. Cardinality(F) : \E i \in F : Cardinality(UpTo(F, i)) = k
<1> DEFINE Ranked(F) == /\ IsFiniteSet(F) /\ Cardinality(F) \in Nat
                        /\ \A k \in 1 .. Cardinality(F) :
                             \E i \in F : Cardinality(UpTo(F, i)) = k
           S == {n \in Nat : \A F \in SUBSET (1 .. n) : Ranked(F)}
<1>1. 0 \in S
  <2>1. \A F \in SUBSET (1 .. 0) : F = {}  OBVIOUS
  <2>2. Ranked({})
    <3>1. IsFiniteSet({}) /\ Cardinality({}) = 0  BY FS_EmptySet
    <3> QED BY <3>1
  <2> QED BY <2>1, <2>2
<1>2. ASSUME NEW n \in Nat, n \in S PROVE n + 1 \in S
  <2> SUFFICES ASSUME NEW F \in SUBSET (1 .. n + 1) PROVE Ranked(F)
    OBVIOUS
  <2> DEFINE G == F \ {n + 1}
  <2>1. G \in SUBSET (1 .. n)  OBVIOUS
  <2>2. Ranked(G)  BY <1>2, <2>1
  <2>3. CASE n + 1 \notin F
    <3>1. G = F  BY <2>3
    <3> QED BY <2>2, <3>1
  <2>4. CASE n + 1 \in F
    <3>1. F = G \cup {n + 1} /\ n + 1 \notin G  BY <2>4
    <3>2. IsFiniteSet(G) /\ Cardinality(G) \in Nat  BY <2>2
    <3>3. IsFiniteSet(F) /\ Cardinality(F) = Cardinality(G) + 1
      BY <3>1, <3>2, FS_AddElement
    <3>4. UpTo(F, n + 1) = F
      <4>1. \A j \in F : j <= n + 1  OBVIOUS
      <4> QED BY <4>1 DEF UpTo
    <3>5. \A i \in G : UpTo(F, i) = UpTo(G, i)
      <4> SUFFICES ASSUME NEW i \in G PROVE UpTo(F, i) = UpTo(G, i)  OBVIOUS
      <4>1. i \in 1 .. n  BY <2>1
      <4>2. ~(n + 1 <= i)  BY <4>1
      <4> QED BY <4>2 DEF UpTo
    <3>6. ASSUME NEW k \in 1 .. Cardinality(F) PROVE \E i \in F : Cardinality(UpTo(F, i)) = k
      <4>1. CASE k = Cardinality(F)  BY <2>4, <3>4, <4>1
      <4>2. CASE k # Cardinality(F)
        <5>1. k \in 1 .. Cardinality(G)  BY <3>2, <3>3, <4>2
        <5>2. PICK i \in G : Cardinality(UpTo(G, i)) = k  BY <2>2, <5>1
        <5> QED BY <3>5, <5>2
      <4> QED BY <4>1, <4>2
    <3>7. Cardinality(F) \in Nat  BY <3>2, <3>3
    <3> QED BY <3>3, <3>6, <3>7
  <2> QED BY <2>3, <2>4
<1> HIDE DEF S
<1>3. \A n \in Nat : n \in S  BY <1>1, <1>2, AllNumbers
<1> QED BY <1>3 DEF S

-----------------------------------------------------------------------------
(* Merging rows.                                                           *)

\* The places of the rows whose key no earlier row has.
First(rows) == {i \in DOMAIN rows : \A j \in 1..i-1 : RowKey(rows[j]) # RowKey(rows[i])}
\* The place of the row that becomes the k-th.
Place(rows, k) ==
  CHOOSE i \in First(rows) : Cardinality({j \in First(rows) : j <= i}) = k
Distinct(rows) == [k \in 1..Cardinality(First(rows)) |-> rows[Place(rows, k)]]

LEMMA MergedAre == ASSUME NEW s PROVE MergedRows(s) = Distinct(Established(s))
BY DEF MergedRows, Distinct, First, Place

LEMMA PlaceIsFirst ==
  ASSUME NEW A, NEW rows \in Seq(A)
  PROVE  /\ Cardinality(First(rows)) \in Nat
         /\ \A k \in 1 .. Cardinality(First(rows)) :
              /\ Place(rows, k) \in First(rows) /\ Place(rows, k) \in DOMAIN rows
              /\ Cardinality(UpTo(First(rows), Place(rows, k))) = k
<1>1. First(rows) \in SUBSET (1 .. Len(rows)) /\ Len(rows) \in Nat
      /\ DOMAIN rows = 1 .. Len(rows)
  BY DEF First
<1>2. /\ Cardinality(First(rows)) \in Nat
      /\ \A k \in 1 .. Cardinality(First(rows)) :
           \E i \in First(rows) : Cardinality(UpTo(First(rows), i)) = k
  BY <1>1, EveryRankIsTaken
<1> QED BY <1>1, <1>2 DEF Place, UpTo

LEMMA DistinctIsSequence ==
  ASSUME NEW A, NEW rows \in Seq(A) PROVE Distinct(rows) \in Seq(A)
<1>1. Cardinality(First(rows)) \in Nat  BY PlaceIsFirst
<1>2. \A k \in 1 .. Cardinality(First(rows)) : rows[Place(rows, k)] \in A
  BY PlaceIsFirst
<1> QED BY <1>1, <1>2 DEF Distinct

-----------------------------------------------------------------------------
(* The searches.                                                           *)

SearchPhases == {"idle", "search", "label", "answered", "failed"}
Waits == 0 .. Timeout
Ages == 0 .. IndexTTL
Asking == -1 .. IndexTTL
OfferRows == Seq(Offers)
NameRows == Seq(Identities)
AdapterRows == Seq(OfferRows)
CustomSets == SUBSET Customs
AdapterSets == SUBSET DOMAIN Adapters
SiteNumbers == Nat \ {0}
SearchRecord ==
  [phase : SearchPhases, retried : BOOLEAN, age : Waits, site : SiteNumbers, legacy : OfferRows,
   errors : BOOLEAN, customs : CustomSets, custom : OfferRows, asked : AdapterSets,
   adapters : AdapterRows, rows : OfferRows, names : NameRows, asking : Asking, seen : Ages,
   waited : Ages]
LibrarySet == [Labels -> Identities]
IndexRecord == [full : BOOLEAN, known : LibrarySet, age : Ages, since : Ages]

\* Labelling has not begun before the parts are merged; a reading of the index
\* is under way for a row that is not labelled yet; an answer has every row
\* labelled.
Stages(s) ==
  /\ s.asked # {} => s.phase = "search"
  /\ s.phase \notin {"label", "answered"} => s.names = <<>> /\ s.asking = -1
  /\ Len(s.names) <= Len(s.rows)
  /\ s.asking # -1 => s.phase = "label" /\ Len(s.names) < Len(s.rows)
  /\ s.phase = "answered" => Len(s.names) = Len(s.rows)
  /\ s.seen < IndexTTL \/ s.seen <= s.waited

\* An index is as old as what it holds: it is stored with the time it was
\* asked for.
SearchInv ==
  /\ search \in [Threads -> SearchRecord]
  /\ pausedFor \in [DOMAIN Adapters -> 0 .. (Backoff - Timeout)]
  /\ index \in IndexRecord /\ index.since = index.age
  /\ indexPause \in 0 .. IndexBackoff
  /\ \A t \in Threads : Stages(search[t])

\* A step of one search that stays in stage.
LEMMA OneSearch ==
  ASSUME SearchInv, NEW t \in Threads, NEW s \in SearchRecord, Stages(s),
         search' = [search EXCEPT ![t] = s], UNCHANGED <<pausedFor, index, indexPause>>
  PROVE  SearchInv'
<1>1. search' \in [Threads -> SearchRecord]  BY DEF SearchInv
<1>2. \A u \in Threads : Stages(search'[u])  BY DEF SearchInv
<1> QED BY <1>1, <1>2 DEF SearchInv

LEMMA OfferedRows ==
  ASSUME NEW source \in Sources, NEW rows \in RowsOf[source]
  PROVE  rows \in OfferRows
<1>1. rows \in Seq(ToSet(rows))  BY SourcesAssumption
<1>2. ToSet(rows) \subseteq Offers  BY DEF Offers
<1> QED BY <1>1, <1>2 DEF OfferRows

LEMMA SearchLimits ==
  /\ Timeout \in Nat \ {0} /\ Backoff \in Nat /\ Timeout < Backoff
  /\ IndexTTL \in Nat \ {0} /\ IndexBackoff \in Nat \ {0}
  /\ 0 \in Waits /\ 0 \in Ages /\ -1 \in Asking /\ 0 \in Asking /\ 0 < IndexTTL
BY TimeAssumption DEF Waits, Ages, Asking

LEMMA NoSearchYet == NoSearch \in SearchRecord /\ Stages(NoSearch)
<1>1. /\ "idle" \in SearchPhases /\ {} \in CustomSets /\ {} \in AdapterSets
      /\ <<>> \in OfferRows /\ <<>> \in AdapterRows /\ <<>> \in NameRows /\ Len(<<>>) = 0
      /\ FALSE \in BOOLEAN /\ 0 \in Nat /\ 1 \in SiteNumbers
  BY DEF SearchPhases, CustomSets, AdapterSets, OfferRows, AdapterRows, NameRows, SiteNumbers
<1> QED BY <1>1, SearchLimits DEF NoSearch, SearchRecord, Stages

LEMMA PartsStart ==
  ASSUME NEW retried \in BOOLEAN PROVE Parts(retried) \in SearchRecord /\ Stages(Parts(retried))
<1> DEFINE asked == {i \in DOMAIN Adapters : pausedFor[i] = 0}
           adapters == [i \in DOMAIN Adapters |-> <<>>]
<1>1. "search" \in SearchPhases /\ asked \in AdapterSets /\ Customs \in CustomSets
  BY DEF SearchPhases, AdapterSets, CustomSets
<1>2. adapters \in AdapterRows
  <2>1. DOMAIN Adapters = 1 .. Len(Adapters) /\ Len(Adapters) \in Nat  BY SourcesAssumption
  <2>2. <<>> \in OfferRows  BY DEF OfferRows
  <2> QED BY <2>1, <2>2 DEF AdapterRows
<1>3. Parts(retried) = [NoSearch EXCEPT !.phase = "search", !.retried = retried,
                          !.customs = Customs, !.asked = asked, !.adapters = adapters]
  BY DEF Parts
<1> HIDE DEF asked, adapters
<1>4. Parts(retried) \in SearchRecord  BY <1>1, <1>2, <1>3, NoSearchYet DEF SearchRecord
<1>5. /\ Parts(retried).phase = "search" /\ Parts(retried).names = NoSearch.names
      /\ Parts(retried).asking = NoSearch.asking /\ Parts(retried).rows = NoSearch.rows
      /\ Parts(retried).seen = NoSearch.seen /\ Parts(retried).waited = NoSearch.waited
  BY <1>3, NoSearchYet DEF SearchRecord
<1>6. /\ NoSearch.names = <<>> /\ NoSearch.asking = -1 /\ NoSearch.rows = <<>>
      /\ NoSearch.seen = 0 /\ NoSearch.waited = 0 /\ Len(<<>>) = 0
  BY DEF NoSearch
<1> QED BY <1>4, <1>5, <1>6, SearchLimits DEF Stages

LEMMA RowsJoined ==
  ASSUME NEW first \in Seq(Offers), NEW then \in Seq(Offers) PROVE first \o then \in OfferRows
<1>1. first \o then \in Seq(Offers)  OBVIOUS
<1> QED BY <1>1 DEF OfferRows

\* What is known of one search.
LEMMA SearchFacts ==
  ASSUME SearchInv, NEW t \in Threads
  PROVE  /\ search[t] \in SearchRecord /\ Stages(search[t])
         /\ search[t].legacy \in Seq(Offers) /\ search[t].custom \in Seq(Offers)
         /\ search[t].adapters \in Seq(OfferRows) /\ search[t].rows \in Seq(Offers)
         /\ search[t].names \in Seq(Identities) /\ Len(search[t].names) \in Nat
         /\ search[t].site \in Nat \ {0}
         /\ search[t].age \in 0 .. Timeout /\ search[t].asking \in -1 .. IndexTTL
         /\ search[t].seen \in 0 .. IndexTTL /\ search[t].waited \in 0 .. IndexTTL
         /\ Len(search[t].rows) \in Nat
         /\ search[t].asked \in SUBSET DOMAIN Adapters
         /\ search[t].customs \in SUBSET Customs
<1>1. search[t] \in SearchRecord /\ Stages(search[t])  BY DEF SearchInv
<1>2. /\ search[t].legacy \in OfferRows /\ search[t].custom \in OfferRows
      /\ search[t].adapters \in AdapterRows /\ search[t].rows \in OfferRows
      /\ search[t].names \in NameRows /\ search[t].site \in SiteNumbers
      /\ search[t].age \in Waits /\ search[t].asking \in Asking /\ search[t].seen \in Ages
      /\ search[t].waited \in Ages /\ search[t].asked \in AdapterSets
      /\ search[t].customs \in CustomSets
  BY <1>1 DEF SearchRecord
<1>3. Len(search[t].rows) \in Nat /\ Len(search[t].names) \in Nat
  BY <1>2 DEF OfferRows, NameRows
<1> QED BY <1>1, <1>2, <1>3
        DEF OfferRows, AdapterRows, NameRows, SiteNumbers, Waits, Asking, Ages, AdapterSets,
            CustomSets

\* A step that concerns neither the rows nor the library.
LEMMA PartsKeep ==
  ASSUME NEW s \in SearchRecord, Stages(s), NEW r \in SearchRecord,
         r.phase = s.phase, r.asked \subseteq s.asked,
         r.rows = s.rows, r.names = s.names, r.asking = s.asking, r.seen = s.seen,
         r.waited = s.waited
  PROVE  Stages(r)
BY DEF Stages

LEMMA AskSiteKeeps == ASSUME SearchInv, NEW t \in Threads, AskSite(t) PROVE SearchInv'
<1>0. PICK s \in SearchRecord : s = search[t]  BY SearchFacts
<1>1. /\ s \in SearchRecord /\ Stages(s) /\ s.site \in Nat \ {0} /\ s.legacy \in Seq(Offers)
      /\ s.asked \in SUBSET DOMAIN Adapters
      /\ search \in [Threads -> SearchRecord]
  BY <1>0, SearchFacts DEF SearchInv
<1>2. s.site <= Len(Sites) /\ UNCHANGED <<pausedFor, index, indexPause>>
  BY <1>0 DEF AskSite, SearchOnly
<1>3. PICK site \in SiteNumbers : site = s.site + 1  BY <1>1 DEF SiteNumbers
<1>4. CASE search' = [search EXCEPT ![t].site = @ + 1, ![t].errors = TRUE]
  <2>1. PICK r : r = [s EXCEPT !.site = site, !.errors = TRUE]  OBVIOUS
  <2>2. /\ r \in SearchRecord /\ r.phase = s.phase /\ r.asked = s.asked /\ r.rows = s.rows
        /\ r.names = s.names /\ r.asking = s.asking /\ r.seen = s.seen
      /\ r.waited = s.waited
    BY <1>1, <2>1 DEF SearchRecord
  <2>3. search' = [search EXCEPT ![t] = r]
    BY <1>0, <1>1, <1>3, <1>4, <2>1 DEF SearchRecord
  <2> QED BY <1>1, <1>2, <2>2, <2>3, PartsKeep, OneSearch
<1>5. ASSUME NEW rows \in RowsOf[Sites[s.site]],
             search' = [search EXCEPT ![t].site = @ + 1, ![t].legacy = @ \o rows]
      PROVE  SearchInv'
  <2>1. rows \in Seq(Offers)
    <3>1. s.site \in DOMAIN Sites  BY <1>1, <1>2, SourcesAssumption
    <3>2. Sites[s.site] \in Sources  BY <3>1 DEF Sources, ToSet
    <3> QED BY <1>5, <3>2, OfferedRows DEF OfferRows
  <2>2. PICK legacy \in OfferRows : legacy = s.legacy \o rows  BY <1>1, <2>1, RowsJoined
  <2>3. PICK r : r = [s EXCEPT !.site = site, !.legacy = legacy]  OBVIOUS
  <2>4. /\ r \in SearchRecord /\ r.phase = s.phase /\ r.asked = s.asked /\ r.rows = s.rows
        /\ r.names = s.names /\ r.asking = s.asking /\ r.seen = s.seen
      /\ r.waited = s.waited
    BY <1>1, <2>3 DEF SearchRecord
  <2>5. search' = [search EXCEPT ![t] = r]
    BY <1>0, <1>1, <1>3, <1>5, <2>2, <2>3 DEF SearchRecord
  <2> QED BY <1>1, <1>2, <2>4, <2>5, PartsKeep, OneSearch
<1> QED BY <1>0, <1>4, <1>5 DEF AskSite

LEMMA CustomAnswersKeeps ==
  ASSUME SearchInv, NEW t \in Threads, NEW c \in Customs, CustomAnswers(t, c) PROVE SearchInv'
<1>0. PICK s \in SearchRecord : s = search[t]  BY SearchFacts
<1>1. /\ Stages(s) /\ s.custom \in Seq(Offers) /\ s.customs \in SUBSET Customs
      /\ search \in [Threads -> SearchRecord]
  BY <1>0, SearchFacts DEF SearchInv
<1>2. PICK rows \in RowsOf[c] :
        search' = [search EXCEPT ![t].customs = @ \ {c}, ![t].custom = @ \o rows]
  BY DEF CustomAnswers
<1>3. UNCHANGED <<pausedFor, index, indexPause>>  BY DEF CustomAnswers, SearchOnly
<1>4. rows \in Seq(Offers)  BY <1>2, OfferedRows DEF Sources, OfferRows
<1>5. PICK custom \in OfferRows : custom = s.custom \o rows  BY <1>1, <1>4, RowsJoined
<1>6. PICK customs \in CustomSets : customs = s.customs \ {c}  BY <1>1 DEF CustomSets
<1>7. PICK r : r = [s EXCEPT !.customs = customs, !.custom = custom]  OBVIOUS
<1>8. /\ r \in SearchRecord /\ r.phase = s.phase /\ r.asked = s.asked /\ r.rows = s.rows
      /\ r.names = s.names /\ r.asking = s.asking /\ r.seen = s.seen
      /\ r.waited = s.waited
  BY <1>7 DEF SearchRecord
<1>9. search' = [search EXCEPT ![t] = r]
  BY <1>0, <1>1, <1>2, <1>5, <1>6, <1>7 DEF SearchRecord
<1> QED BY <1>1, <1>3, <1>8, <1>9, PartsKeep, OneSearch

LEMMA OneReplaced ==
  ASSUME NEW A, NEW q \in Seq(A), NEW a \in A, NEW i PROVE [q EXCEPT ![i] = a] \in Seq(A)
<1>1. Len(q) \in Nat /\ q \in [1 .. Len(q) -> A]  OBVIOUS
<1>2. [q EXCEPT ![i] = a] \in [1 .. Len(q) -> A]  BY <1>1
<1> QED BY <1>1, <1>2

LEMMA AdapterAnswersKeeps ==
  ASSUME SearchInv, NEW t \in Threads, NEW i \in DOMAIN Adapters, AdapterAnswers(t, i)
  PROVE  SearchInv'
<1>0. PICK s \in SearchRecord : s = search[t]  BY SearchFacts
<1>1. /\ Stages(s) /\ s.asked \in SUBSET DOMAIN Adapters /\ s.adapters \in Seq(OfferRows)
      /\ search \in [Threads -> SearchRecord]
  BY <1>0, SearchFacts DEF SearchInv
<1>2. PICK rows \in RowsOf[Adapters[i]] :
        search' = [search EXCEPT ![t].asked = @ \ {i}, ![t].adapters[i] = rows]
  BY DEF AdapterAnswers
<1>3. UNCHANGED <<pausedFor, index, indexPause>>  BY DEF AdapterAnswers, SearchOnly
<1>4. rows \in OfferRows
  <2>1. Adapters[i] \in Sources  BY DEF Sources, ToSet
  <2> QED BY <1>2, <2>1, OfferedRows
<1>5. PICK asked \in AdapterSets : asked = s.asked \ {i}  BY <1>1 DEF AdapterSets
<1>6. PICK adapters \in AdapterRows : adapters = [s.adapters EXCEPT ![i] = rows]
  <2>1. [s.adapters EXCEPT ![i] = rows] \in Seq(OfferRows)  BY <1>1, <1>4, OneReplaced
  <2> QED BY <2>1 DEF AdapterRows
<1>7. PICK r : r = [s EXCEPT !.asked = asked, !.adapters = adapters]  OBVIOUS
<1>8. /\ r \in SearchRecord /\ r.phase = s.phase /\ r.asked \subseteq s.asked /\ r.rows = s.rows
      /\ r.names = s.names /\ r.asking = s.asking /\ r.seen = s.seen
      /\ r.waited = s.waited
  BY <1>5, <1>7 DEF SearchRecord
<1>9. search' = [search EXCEPT ![t] = r]
  BY <1>0, <1>1, <1>2, <1>5, <1>6, <1>7 DEF SearchRecord
<1> QED BY <1>1, <1>3, <1>8, <1>9, PartsKeep, OneSearch

LEMMA AdaptersTimeOutKeeps ==
  ASSUME SearchInv, NEW t \in Threads, AdaptersTimeOut(t) PROVE SearchInv'
<1>0. PICK s \in SearchRecord : s = search[t]  BY SearchFacts
<1>1. /\ Stages(s) /\ s.age \in 0 .. Timeout /\ s.age >= Timeout
      /\ search \in [Threads -> SearchRecord]
      /\ search' = [search EXCEPT ![t].asked = {}] /\ UNCHANGED <<index, indexPause>>
      /\ pausedFor' = [i \in DOMAIN Adapters |->
                         IF i \in s.asked THEN Backoff - s.age ELSE pausedFor[i]]
  BY <1>0, SearchFacts DEF SearchInv, AdaptersTimeOut
<1>2. pausedFor' \in [DOMAIN Adapters -> 0 .. (Backoff - Timeout)]
  <2>1. Backoff - s.age \in 0 .. (Backoff - Timeout)  BY <1>1, SearchLimits
  <2> QED BY <1>1, <2>1 DEF SearchInv
<1>3. PICK r : r = [s EXCEPT !.asked = {}]  OBVIOUS
<1>4. {} \in AdapterSets  BY DEF AdapterSets
<1>5. /\ r \in SearchRecord /\ r.phase = s.phase /\ r.asked \subseteq s.asked /\ r.rows = s.rows
      /\ r.names = s.names /\ r.asking = s.asking /\ r.seen = s.seen
      /\ r.waited = s.waited
  BY <1>3, <1>4 DEF SearchRecord
<1>6. search' = [search EXCEPT ![t] = r]
  BY <1>0, <1>1, <1>3 DEF SearchRecord
<1>7. Stages(r)  BY <1>1, <1>5, PartsKeep
<1>8. search' \in [Threads -> SearchRecord] /\ \A u \in Threads : Stages(search'[u])
  BY <1>1, <1>5, <1>6, <1>7 DEF SearchInv
<1> QED BY <1>1, <1>2, <1>8 DEF SearchInv

LEMMA SearchBegins ==
  ASSUME SearchInv, NEW t \in Threads, StartSearch(t) \/ SearchFails(t) \/ Retry(t)
  PROVE  SearchInv'
<1>1. CASE StartSearch(t) \/ Retry(t)
  <2>1. PICK retried \in BOOLEAN : search' = [search EXCEPT ![t] = Parts(retried)]
    BY <1>1 DEF StartSearch, Retry
  <2>2. UNCHANGED <<pausedFor, index, indexPause>>
    BY <1>1 DEF StartSearch, Retry, SearchOnly
  <2> QED BY <2>1, <2>2, PartsStart, OneSearch
<1>2. CASE SearchFails(t)
  <2>1. PICK r : r = [NoSearch EXCEPT !.phase = "failed"]  OBVIOUS
  <2>2. "failed" \in SearchPhases  BY DEF SearchPhases
  <2>3. /\ r \in SearchRecord /\ r.phase = "failed" /\ r.asked = NoSearch.asked
        /\ r.rows = NoSearch.rows /\ r.names = NoSearch.names
        /\ r.asking = NoSearch.asking /\ r.seen = NoSearch.seen
        /\ r.waited = NoSearch.waited
    BY <2>1, <2>2, NoSearchYet DEF SearchRecord
  <2>4. NoSearch.asked = {} /\ NoSearch.names = <<>> /\ NoSearch.asking = -1
    BY DEF NoSearch
  <2>5. Stages(r)  BY <2>3, <2>4, NoSearchYet DEF Stages
  <2>6. search' = [search EXCEPT ![t] = r] /\ UNCHANGED <<pausedFor, index, indexPause>>
    BY <1>2, <2>1 DEF SearchFails, SearchOnly
  <2> QED BY <2>3, <2>5, <2>6, OneSearch
<1> QED BY <1>1, <1>2

LEMMA EstablishedIsSequence ==
  ASSUME NEW s \in SearchRecord PROVE Established(s) \in Seq(Offers)
<1>1. s.legacy \in Seq(Offers) /\ s.custom \in Seq(Offers) /\ s.adapters \in Seq(Seq(Offers))
  BY DEF SearchRecord, OfferRows, AdapterRows
<1>2. FlattenSeq(s.adapters) \in Seq(Offers)  BY <1>1, FlattenIsSequence
<1>3. s.legacy \o s.custom \in Seq(Offers)  BY <1>1, RowsJoined DEF OfferRows
<1>4. (s.legacy \o s.custom) \o FlattenSeq(s.adapters) \in Seq(Offers)
  BY <1>2, <1>3, RowsJoined DEF OfferRows
<1> QED BY <1>4 DEF Established

LEMMA MergePartsKeeps == ASSUME SearchInv, NEW t \in Threads, MergeParts(t) PROVE SearchInv'
<1>0. PICK s \in SearchRecord : s = search[t]  BY SearchFacts
<1>1. /\ Stages(s) /\ s.phase = "search" /\ s.asked = {}
      /\ search \in [Threads -> SearchRecord] /\ UNCHANGED <<pausedFor, index, indexPause>>
      /\ search' = [search EXCEPT ![t].phase = "label", ![t].retried = FALSE, ![t].age = 0,
                              ![t].errors = FALSE, ![t].rows = MergedRows(s)]
  BY <1>0, SearchFacts DEF SearchInv, MergeParts, PartsDone, SearchOnly
<1>2. PICK rows \in OfferRows : rows = MergedRows(s)
  BY EstablishedIsSequence, MergedAre, DistinctIsSequence DEF OfferRows
<1>3. PICK r : r = [s EXCEPT !.phase = "label", !.retried = FALSE, !.age = 0,
                             !.errors = FALSE, !.rows = rows]
  OBVIOUS
<1>4. "label" \in SearchPhases  BY DEF SearchPhases
<1>5. /\ r \in SearchRecord /\ r.phase = "label" /\ r.asked = s.asked /\ r.rows = rows
      /\ r.names = s.names /\ r.asking = s.asking /\ r.seen = s.seen
      /\ r.waited = s.waited
  BY <1>3, <1>4, SearchLimits DEF SearchRecord
<1>6. search' = [search EXCEPT ![t] = r]
  BY <1>0, <1>1, <1>2, <1>3 DEF SearchRecord
<1>7. /\ s.names = <<>> /\ Len(s.names) = 0 /\ s.asking = -1
      /\ s.seen < IndexTTL \/ s.seen <= s.waited
  BY <1>1 DEF Stages
<1>8. Len(rows) \in Nat  BY DEF OfferRows
<1>9. Stages(r)  BY <1>1, <1>5, <1>7, <1>8 DEF Stages
<1> QED BY <1>1, <1>5, <1>6, <1>9, OneSearch

LEMMA LibraryKnows ==
  /\ Libraries \subseteq LibrarySet /\ Untold \in LibrarySet
  /\ \A row \in Offers : Label(row) \in Labels
<1>1. \A row \in Offers : Label(row) \in Labels  BY DEF Labels
<1>2. ASSUME NEW library \in Libraries PROVE library \in LibrarySet
  <2>1. library = [label \in Labels |-> library[label]]  BY LibrariesAssumption
  <2>2. \A label \in Labels : library[label] \in Identities  BY DEF Identities
  <2> QED BY <2>1, <2>2 DEF LibrarySet
<1>3. Untold \in LibrarySet
  <2>1. \A label \in Labels : Untold[label] \in Identities  BY DEF Identities
  <2>2. Untold = [label \in Labels |-> Untold[label]]  BY DEF Untold
  <2> QED BY <2>1, <2>2 DEF LibrarySet
<1> QED BY <1>1, <1>2, <1>3

LEMMA LongerIsOne ==
  ASSUME NEW a \in Ages, NEW b \in Ages
  PROVE  /\ Longer(a, b) \in Ages /\ a <= Longer(a, b) /\ b <= Longer(a, b)
         /\ Longer(a, b) = a \/ Longer(a, b) = b
BY SearchLimits DEF Longer, Ages

\* A search whose next row is looked up in what is recent or was waited for.
LEMMA RowLookedUp ==
  ASSUME NEW s \in SearchRecord, Stages(s), NEW library \in LibrarySet,
         s.phase = "label", Len(s.names) < Len(s.rows),
         NEW age \in Ages, NEW wait \in Ages, age < IndexTTL \/ age <= wait,
         NEW r, r = LookedUp(s, library, age, wait)
  PROVE  r \in SearchRecord /\ Stages(r)
<1>1. /\ s.rows \in Seq(Offers) /\ s.names \in Seq(Identities)
      /\ Len(s.rows) \in Nat /\ Len(s.names) \in Nat
      /\ s.seen \in Ages /\ s.waited \in Ages
  BY DEF SearchRecord, OfferRows, NameRows
<1>2. Labelled(s) + 1 \in DOMAIN s.rows  BY <1>1 DEF Labelled
<1>3. PICK name \in Identities : name = library[Label(s.rows[Labelled(s) + 1])]
  <2>1. s.rows[Labelled(s) + 1] \in Offers  BY <1>1, <1>2
  <2> QED BY <2>1, LibraryKnows DEF LibrarySet
<1>4. PICK names \in NameRows : names = Append(s.names, name) /\ Len(names) = Len(s.names) + 1
  <2>1. /\ Append(s.names, name) \in Seq(Identities)
        /\ Len(Append(s.names, name)) = Len(s.names) + 1
    BY <1>1
  <2> QED BY <2>1 DEF NameRows
<1>5. PICK seen \in Ages : seen = Longer(s.seen, age)  BY <1>1, LongerIsOne
<1>6. PICK waited \in Ages : waited = Longer(s.waited, wait)  BY <1>1, LongerIsOne
<1>7. seen < IndexTTL \/ seen <= waited
  <2>1. /\ seen = s.seen \/ seen = age
        /\ s.waited <= waited /\ wait <= waited
    BY <1>1, <1>5, <1>6, LongerIsOne
  <2>2. s.seen < IndexTTL \/ s.seen <= s.waited  BY DEF Stages
  <2> QED BY <1>1, <2>1, <2>2, SearchLimits DEF Ages
<1>8. r = [s EXCEPT !.asking = -1, !.seen = seen, !.waited = waited, !.names = names]
  BY <1>3, <1>4, <1>5, <1>6 DEF LookedUp
<1>9. /\ r \in SearchRecord /\ r.phase = "label" /\ r.asked = s.asked /\ r.rows = s.rows
      /\ r.names = names /\ r.asking = -1 /\ r.seen = seen /\ r.waited = waited
  BY <1>8, SearchLimits DEF SearchRecord
<1>10. Len(names) <= Len(s.rows)  BY <1>1, <1>4
<1>11. Stages(r)  BY <1>7, <1>9, <1>10 DEF Stages
<1> QED BY <1>9, <1>11

LEMMA UseIndexKeeps == ASSUME SearchInv, NEW t \in Threads, UseIndex(t) PROVE SearchInv'
<1>0. PICK s \in SearchRecord : s = search[t]  BY SearchFacts
<1>1. /\ s.phase = "label" /\ Len(s.names) < Len(s.rows) /\ Stages(s)
      /\ index.known \in LibrarySet /\ index.since \in Ages /\ index.since < IndexTTL
      /\ UNCHANGED <<pausedFor, index, indexPause>>
  BY <1>0, SearchFacts
     DEF UseIndex, Labelling, Labelled, Recent, SearchInv, IndexRecord, SearchOnly
<1>2. PICK r : r = LookedUp(s, index.known, index.since, 0)  OBVIOUS
<1>3. r \in SearchRecord /\ Stages(r)  BY <1>1, <1>2, SearchLimits, RowLookedUp
<1>4. search' = [search EXCEPT ![t] = r]  BY <1>0, <1>2 DEF UseIndex
<1> QED BY <1>1, <1>3, <1>4, OneSearch

\* Without the index: by its title.
LEMMA NamedUntold ==
  ASSUME NEW s \in SearchRecord, Stages(s), s.phase = "label", Len(s.names) < Len(s.rows),
         NEW r, r = LookedUp(s, Untold, 0, 0)
  PROVE  r \in SearchRecord /\ Stages(r)
BY LibraryKnows, SearchLimits, RowLookedUp

LEMMA SkipIndexKeeps == ASSUME SearchInv, NEW t \in Threads, SkipIndex(t) PROVE SearchInv'
<1>0. PICK s \in SearchRecord : s = search[t]  BY SearchFacts
<1>1. /\ s.phase = "label" /\ Len(s.names) < Len(s.rows) /\ Stages(s)
      /\ UNCHANGED <<pausedFor, index, indexPause>>
  BY <1>0, SearchFacts DEF SkipIndex, Labelling, Labelled, SearchOnly
<1>2. PICK r : r = LookedUp(s, Untold, 0, 0)  OBVIOUS
<1>3. r \in SearchRecord /\ Stages(r)  BY <1>1, <1>2, NamedUntold
<1>4. search' = [search EXCEPT ![t] = r]  BY <1>0, <1>2 DEF SkipIndex
<1> QED BY <1>1, <1>3, <1>4, OneSearch

LEMMA AskIndexKeeps == ASSUME SearchInv, NEW t \in Threads, AskIndex(t) PROVE SearchInv'
<1>0. PICK s \in SearchRecord : s = search[t]  BY SearchFacts
<1>1. /\ s.phase = "label" /\ Len(s.names) < Len(s.rows) /\ Stages(s)
      /\ search \in [Threads -> SearchRecord] /\ UNCHANGED <<pausedFor, index, indexPause>>
      /\ search' = [search EXCEPT ![t].asking = 0]
  BY <1>0, SearchFacts DEF AskIndex, Labelling, Labelled, SearchOnly, SearchInv
<1>2. PICK r : r = [s EXCEPT !.asking = 0]  OBVIOUS
<1>3. /\ r \in SearchRecord /\ r.phase = s.phase /\ r.asked = s.asked /\ r.rows = s.rows
      /\ r.names = s.names /\ r.asking = 0 /\ r.seen = s.seen /\ r.waited = s.waited
  BY <1>2, SearchLimits DEF SearchRecord
<1>4. Stages(r)  BY <1>1, <1>3 DEF Stages
<1>5. search' = [search EXCEPT ![t] = r]  BY <1>0, <1>1, <1>2 DEF SearchRecord
<1> QED BY <1>1, <1>3, <1>4, <1>5, OneSearch

LEMMA ReadingEnds ==
  ASSUME SearchInv, NEW t \in Threads, IndexArrives(t) \/ IndexFails(t) PROVE SearchInv'
<1>0. PICK s \in SearchRecord : s = search[t]  BY SearchFacts
<1>1. s.asking \in 0 .. IndexTTL /\ s.asking \in Ages /\ Stages(s) /\ pausedFor' = pausedFor
  <2>1. s.asking \in -1 .. IndexTTL /\ Stages(s)  BY <1>0, SearchFacts
  <2>2. s.asking >= 0 /\ pausedFor' = pausedFor
    BY <1>0 DEF IndexArrives, IndexFails, IndexOnly
  <2> QED BY <2>1, <2>2, SearchLimits DEF Ages
<1>2. s.phase = "label" /\ Len(s.names) < Len(s.rows)  BY <1>1, SearchLimits DEF Stages
<1>3. ASSUME NEW r \in SearchRecord, Stages(r), search' = [search EXCEPT ![t] = r]
      PROVE  search' \in [Threads -> SearchRecord] /\ \A u \in Threads : Stages(search'[u])
  BY <1>3 DEF SearchInv
<1>4. PICK untold : untold = LookedUp(s, Untold, 0, 0)  OBVIOUS
<1>5. untold \in SearchRecord /\ Stages(untold)  BY <1>1, <1>2, <1>4, NamedUntold
<1>6. ASSUME NEW library \in Libraries, indexPause' = 0,
             search' = [search EXCEPT ![t] = LookedUp(@, library, @.asking, @.asking)],
             index' = AskedIndex(library, search[t].asking)
      PROVE  SearchInv'
  <2>1. PICK r : r = LookedUp(s, library, s.asking, s.asking)  OBVIOUS
  <2>2. library \in LibrarySet  BY LibraryKnows
  <2>3. r \in SearchRecord /\ Stages(r)
    <3>1. s.asking <= s.asking  BY <1>1, SearchLimits
    <3> QED BY <1>1, <1>2, <2>1, <2>2, <3>1, RowLookedUp
  <2>4. search' = [search EXCEPT ![t] = r]  BY <1>0, <1>6, <2>1
  <2>5. index' \in IndexRecord /\ index'.since = index'.age
    BY <1>0, <1>1, <1>6, <2>2 DEF AskedIndex, IndexRecord
  <2>6. indexPause' \in 0 .. IndexBackoff  BY <1>6, SearchLimits
  <2> QED BY <1>1, <1>3, <2>3, <2>4, <2>5, <2>6 DEF SearchInv
<1>7. ASSUME search' = [search EXCEPT ![t] = LookedUp(@, Untold, 0, 0)], indexPause' = 0,
             index' = NoIndex
      PROVE  SearchInv'
  <2>1. index' \in IndexRecord /\ index'.since = index'.age
    BY <1>7, LibraryKnows, SearchLimits DEF NoIndex, IndexRecord, Ages
  <2>2. indexPause' \in 0 .. IndexBackoff  BY <1>7, SearchLimits
  <2>3. search' = [search EXCEPT ![t] = untold]  BY <1>0, <1>4, <1>7
  <2> QED BY <1>1, <1>3, <1>5, <2>1, <2>2, <2>3 DEF SearchInv
<1>8. CASE IndexFails(t)
  <2>1. /\ index' = index
        /\ indexPause' = IF IndexBackoff > s.asking THEN IndexBackoff - s.asking ELSE 0
    BY <1>0, <1>8 DEF IndexFails
  <2>2. indexPause' \in 0 .. IndexBackoff  BY <1>1, <2>1, SearchLimits
  <2>3. search' = [search EXCEPT ![t] = untold]  BY <1>0, <1>4, <1>8 DEF IndexFails
  <2> QED BY <1>1, <1>3, <1>5, <2>1, <2>2, <2>3 DEF SearchInv
<1> QED BY <1>6, <1>7, <1>8 DEF IndexArrives

LEMMA AnswerSearchKeeps == ASSUME SearchInv, NEW t \in Threads, AnswerSearch(t) PROVE SearchInv'
<1>0. PICK s \in SearchRecord : s = search[t]  BY SearchFacts
<1>1. /\ s.phase = "label" /\ s.asking = -1 /\ Stages(s) /\ Len(s.rows) \in Nat
      /\ Len(s.names) = Len(s.rows)
      /\ search \in [Threads -> SearchRecord] /\ UNCHANGED <<pausedFor, index, indexPause>>
      /\ search' = [search EXCEPT ![t].phase = "answered", ![t].seen = 0, ![t].waited = 0]
  BY <1>0, SearchFacts DEF AnswerSearch, SearchOnly, SearchInv, Labelled
<1>2. PICK r : r = [s EXCEPT !.phase = "answered", !.seen = 0, !.waited = 0]  OBVIOUS
<1>3. "answered" \in SearchPhases  BY DEF SearchPhases
<1>4. /\ r \in SearchRecord /\ r.phase = "answered" /\ r.asked = s.asked /\ r.rows = s.rows
      /\ r.names = s.names /\ r.asking = s.asking /\ r.seen = 0 /\ r.waited = 0
  BY <1>2, <1>3, SearchLimits DEF SearchRecord
<1>5. Stages(r)  BY <1>1, <1>4, SearchLimits DEF Stages
<1>6. search' = [search EXCEPT ![t] = r]  BY <1>0, <1>1, <1>2 DEF SearchRecord
<1> QED BY <1>1, <1>4, <1>5, <1>6, OneSearch

LEMMA RefreshKeeps == ASSUME SearchInv, RefreshLibrary PROVE SearchInv'
<1>1. NoIndex \in IndexRecord /\ NoIndex.since = NoIndex.age
  BY SearchLimits, LibraryKnows DEF NoIndex, IndexRecord, Ages
<1>2. 0 \in 0 .. IndexBackoff  BY SearchLimits
<1> QED BY <1>1, <1>2 DEF RefreshLibrary, SearchInv

LEMMA YoungerIsLess ==
  ASSUME NEW limit \in Int, NEW left \in 0 .. limit PROVE Younger(left) \in 0 .. limit
BY DEF Younger

LEMMA TickKeeps == ASSUME SearchInv, Tick PROVE SearchInv'
<1>1. ASSUME NEW t \in Threads
      PROVE  search'[t] \in SearchRecord /\ Stages(search'[t])
  <2>0. PICK s \in SearchRecord : s = search[t]  BY <1>1, SearchFacts
  <2>1. /\ s.age \in 0 .. Timeout /\ s.asking \in -1 .. IndexTTL /\ Stages(s)
        /\ s.asked # {} => s.age < Timeout
    BY <1>1, <2>0, SearchFacts DEF Tick
  <2>2. PICK age \in Waits : age = IF s.asked # {} THEN s.age + 1 ELSE s.age
    BY <2>1, SearchLimits DEF Waits
  <2>3. PICK asking \in Asking :
          asking = IF s.asking >= 0 THEN Older(s.asking, IndexTTL) ELSE s.asking
    BY <2>1, SearchLimits DEF Asking, Older
  <2>4. asking = -1 <=> s.asking = -1  BY <2>1, <2>3, SearchLimits DEF Older
  <2>5. search'[t] = [s EXCEPT !.age = age, !.asking = asking]
    BY <1>1, <2>0, <2>2, <2>3 DEF Tick, SearchRecord
  <2>6. PICK r : r = [s EXCEPT !.age = age, !.asking = asking]  OBVIOUS
  <2>7. /\ r \in SearchRecord /\ r.phase = s.phase /\ r.asked = s.asked /\ r.rows = s.rows
        /\ r.names = s.names /\ r.asking = asking /\ r.seen = s.seen /\ r.waited = s.waited
    BY <2>6 DEF SearchRecord
  <2>8. Stages(r)  BY <2>1, <2>4, <2>7 DEF Stages
  <2> QED BY <2>5, <2>6, <2>7, <2>8
<1>2. search' \in [Threads -> SearchRecord] /\ \A t \in Threads : Stages(search'[t])
  <2>1. search' = [t \in Threads |-> search'[t]]  BY DEF Tick
  <2> QED BY <1>1, <2>1
<1>3. pausedFor' \in [DOMAIN Adapters -> 0 .. (Backoff - Timeout)]
  <2>1. pausedFor' = [i \in DOMAIN Adapters |-> Younger(pausedFor[i])]  BY DEF Tick
  <2>2. ASSUME NEW i \in DOMAIN Adapters
        PROVE  Younger(pausedFor[i]) \in 0 .. (Backoff - Timeout)
    <3>1. pausedFor[i] \in 0 .. (Backoff - Timeout)  BY DEF SearchInv
    <3> QED BY <3>1, SearchLimits, YoungerIsLess
  <2> QED BY <2>1, <2>2
<1>4. index' \in IndexRecord /\ index'.since = index'.age
  <2>1. index \in IndexRecord /\ index.since = index.age /\ index.age \in Ages
    BY DEF SearchInv, IndexRecord
  <2>2. PICK age \in Ages : age = Older(index.age, IndexTTL)
    BY <2>1, SearchLimits DEF Ages, Older
  <2>3. index' = [index EXCEPT !.age = age, !.since = age]
    BY <2>1, <2>2 DEF Tick, IndexRecord
  <2> QED BY <2>1, <2>3 DEF IndexRecord
<1>5. indexPause' \in 0 .. IndexBackoff
  <2>1. indexPause \in 0 .. IndexBackoff /\ indexPause' = Younger(indexPause)
    BY DEF SearchInv, Tick
  <2> QED BY <2>1, SearchLimits, YoungerIsLess
<1> QED BY <1>2, <1>3, <1>4, <1>5 DEF SearchInv

LEMMA SearchInitially == SearchInit => SearchInv
<1> SUFFICES ASSUME SearchInit PROVE SearchInv  OBVIOUS
<1>1. search \in [Threads -> SearchRecord] /\ \A t \in Threads : Stages(search[t])
  BY NoSearchYet DEF SearchInit
<1>2. pausedFor \in [DOMAIN Adapters -> 0 .. (Backoff - Timeout)]
  BY SearchLimits DEF SearchInit
<1>3. index \in IndexRecord /\ index.since = index.age /\ indexPause \in 0 .. IndexBackoff
  BY SearchLimits, LibraryKnows DEF SearchInit, NoIndex, IndexRecord, Ages
<1> QED BY <1>1, <1>2, <1>3 DEF SearchInv

LEMMA SearchKept == SearchInv /\ [Next]_vars => SearchInv'
<1> SUFFICES ASSUME SearchInv, [Next]_vars PROVE SearchInv'  OBVIOUS
<1>1. CASE UNCHANGED searchVars  BY <1>1 DEF searchVars, SearchInv
<1>2. ASSUME NEW t \in Threads, SearchProgress(t) PROVE SearchInv'
  BY <1>2, AskSiteKeeps, CustomAnswersKeeps, AdaptersTimeOutKeeps, SearchBegins, MergePartsKeeps,
     UseIndexKeeps, SkipIndexKeeps, AskIndexKeeps, ReadingEnds, AnswerSearchKeeps
     DEF SearchProgress
<1>3. CASE SearchUsers
  BY <1>3, SearchBegins, AdapterAnswersKeeps, RefreshKeeps DEF SearchUsers
<1>4. \/ UNCHANGED searchVars \/ SearchUsers \/ Tick \/ \E t \in Threads : SearchProgress(t)
  BY DEF Next, vars, Searching, Finding, SettingUp, Resolving
<1> QED BY <1>1, <1>2, <1>3, <1>4, TickKeeps

THEOREM SearchInvariant == Spec => []SearchInv
<1>1. Init => SearchInv  BY SearchInitially DEF Init
<1> QED BY <1>1, SearchKept, PTL DEF Spec

\* However slowly the library answers, whatever expires or is refreshed
\* meanwhile: a search uses what was read from the library less than the time
\* to live ago, or what it had itself to wait longer for (web_app.py,
\* scan_jellyfin_library).
THEOREM LibraryFactsAreFresh == Spec => []IndexIsRecent
<1>1. SearchInv => IndexIsRecent  BY DEF SearchInv, Stages, IndexIsRecent
<1> QED BY <1>1, SearchInvariant, PTL

-----------------------------------------------------------------------------
(* The order of the rows.                                                  *)

LEMMA SourceOfOffer ==
  /\ \A source \in Sources : \A rows \in RowsOf[source] : \A row \in ToSet(rows) :
       row.source = source
  /\ \A row \in Offers : /\ row.source \in Sources
                         /\ row = [content |-> row.content, variant |-> row.variant,
                                   source |-> row.source, url |-> row.url]
<1>1. ASSUME NEW source \in Sources, NEW rows \in RowsOf[source], NEW row \in ToSet(rows)
      PROVE  /\ row.source = source
             /\ row = [content |-> row.content, variant |-> row.variant,
                       source |-> row.source, url |-> row.url]
  <2>1. row = [content |-> row.content, variant |-> row.variant, source |-> source,
               url |-> row.url]
    BY <1>1, SourcesAssumption
  <2>2. row.source = source  BY <2>1
  <2> QED BY <2>1, <2>2
<1> QED BY <1>1 DEF Offers

\* The key of a row is the row.
LEMMA KeyIsRow ==
  ASSUME NEW row \in Offers, NEW other \in Offers, RowKey(row) = RowKey(other)
  PROVE  row = other
<1>1. /\ row.content = other.content /\ row.variant = other.variant
      /\ row.source = other.source /\ row.url = other.url
  BY DEF RowKey
<1> QED BY <1>1, SourceOfOffer

LEMMA Ranks ==
  /\ \A i \in DOMAIN Sites : Rank(Sites[i]) = i
  /\ \A c \in Customs : Rank(c) = Len(Sites) + 1
  /\ \A i \in DOMAIN Adapters : Rank(Adapters[i]) = Len(Sites) + 1 + i
  /\ Len(Sites) \in Nat /\ DOMAIN Sites = 1 .. Len(Sites)
  /\ Len(Adapters) \in Nat /\ DOMAIN Adapters = 1 .. Len(Adapters)
<1>1. /\ Len(Sites) \in Nat /\ DOMAIN Sites = 1 .. Len(Sites)
      /\ Len(Adapters) \in Nat /\ DOMAIN Adapters = 1 .. Len(Adapters)
  BY SourcesAssumption
<1>2. ASSUME NEW i \in DOMAIN Sites PROVE Rank(Sites[i]) = i
  <2>1. \A j \in DOMAIN Sites : Sites[j] = Sites[i] => j = i
    BY SourcesAssumption DEF IsInjective
  <2>2. (CHOOSE j \in DOMAIN Sites : Sites[j] = Sites[i]) = i  BY <2>1
  <2>3. Sites[i] \notin Customs  BY SourcesAssumption DEF ToSet
  <2>4. Rank(Sites[i]) = CHOOSE j \in DOMAIN Sites : Sites[j] = Sites[i]
    BY <2>3 DEF Rank
  <2> QED BY <2>2, <2>4
<1>3. ASSUME NEW c \in Customs PROVE Rank(c) = Len(Sites) + 1
  <2>1. \A j \in DOMAIN Sites : Sites[j] # c
    BY SourcesAssumption DEF ToSet
  <2> QED BY <2>1 DEF Rank
<1>4. ASSUME NEW i \in DOMAIN Adapters PROVE Rank(Adapters[i]) = Len(Sites) + 1 + i
  <2>1. Adapters[i] \in ToSet(Adapters)  BY DEF ToSet
  <2>2. Adapters[i] \notin Customs /\ Adapters[i] \notin ToSet(Sites)
    BY <2>1, SourcesAssumption
  <2>3. \A j \in DOMAIN Sites : Sites[j] # Adapters[i]  BY <2>2 DEF ToSet
  <2>4. \A j \in DOMAIN Adapters : Adapters[j] = Adapters[i] => j = i
    BY SourcesAssumption DEF IsInjective
  <2>5. (CHOOSE j \in DOMAIN Adapters : Adapters[j] = Adapters[i]) = i  BY <2>4
  <2>6. Rank(Adapters[i]) = Len(Sites) + 1 + (CHOOSE j \in DOMAIN Adapters : Adapters[j] = Adapters[i])
    BY <2>2, <2>3 DEF Rank
  <2> QED BY <2>5, <2>6
<1> QED BY <1>1, <1>2, <1>3, <1>4

\* Rows in the order of their sources, all within two ranks.
Sorted(rows) ==
  \A i, j \in DOMAIN rows : i <= j => Rank(rows[i].source) <= Rank(rows[j].source)
Within(rows, low, high) ==
  \A i \in DOMAIN rows : /\ Rank(rows[i].source) \in Nat
                         /\ low <= Rank(rows[i].source) /\ Rank(rows[i].source) <= high

LEMMA SortedJoined ==
  ASSUME NEW q \in Seq(Offers), NEW r \in Seq(Offers), NEW low \in Nat, NEW mid \in Nat,
         NEW next \in Nat, NEW high \in Nat, mid <= next, low <= next, mid <= high,
         Sorted(q), Sorted(r), Within(q, low, mid), Within(r, next, high)
  PROVE  /\ Sorted(q \o r) /\ Within(q \o r, low, high)
         /\ q \o r \in Seq(Offers) /\ ToSet(q \o r) = ToSet(q) \cup ToSet(r)
<1>1. /\ Len(q) \in Nat /\ Len(r) \in Nat /\ DOMAIN q = 1 .. Len(q) /\ DOMAIN r = 1 .. Len(r)
      /\ q \o r \in Seq(Offers) /\ Len(q \o r) = Len(q) + Len(r)
      /\ DOMAIN (q \o r) = 1 .. Len(q) + Len(r)
      /\ \A i \in 1 .. Len(q) + Len(r) :
           (q \o r)[i] = IF i <= Len(q) THEN q[i] ELSE r[i - Len(q)]
  OBVIOUS
<1> PICK s : s = q \o r  OBVIOUS
<1>2. \A i \in 1 .. Len(q) : s[i] = q[i] /\ i \in DOMAIN s  BY <1>1
<1>3. \A i \in DOMAIN s : i \notin 1 .. Len(q) =>
        /\ i - Len(q) \in DOMAIN r /\ s[i] = r[i - Len(q)]
  BY <1>1
<1>4. \A i \in DOMAIN r : i + Len(q) \in DOMAIN s /\ s[i + Len(q)] = r[i]
  BY <1>1
<1>5. Within(s, low, high)
  <2> SUFFICES ASSUME NEW i \in DOMAIN s
               PROVE  /\ Rank(s[i].source) \in Nat
                      /\ low <= Rank(s[i].source) /\ Rank(s[i].source) <= high
    BY DEF Within
  <2>1. CASE i \in 1 .. Len(q)  BY <1>1, <1>2, <2>1 DEF Within
  <2>2. CASE i \notin 1 .. Len(q)  BY <1>1, <1>3, <2>2 DEF Within
  <2> QED BY <2>1, <2>2
<1>6. Sorted(s)
  <2> SUFFICES ASSUME NEW i \in DOMAIN s, NEW j \in DOMAIN s, i <= j
               PROVE  Rank(s[i].source) <= Rank(s[j].source)
    BY DEF Sorted
  <2>0. i \in Int /\ j \in Int  BY <1>1
  <2>1. CASE j \in 1 .. Len(q)
    <3>1. i \in 1 .. Len(q)  BY <1>1, <2>0, <2>1
    <3> QED BY <1>1, <1>2, <2>1, <3>1 DEF Sorted
  <2>2. CASE i \in 1 .. Len(q) /\ j \notin 1 .. Len(q)
    <3>1. s[i] = q[i] /\ s[j] = r[j - Len(q)] /\ j - Len(q) \in DOMAIN r
      BY <1>2, <1>3, <2>2
    <3>2. /\ Rank(q[i].source) \in Nat /\ Rank(q[i].source) <= mid
          /\ Rank(r[j - Len(q)].source) \in Nat /\ next <= Rank(r[j - Len(q)].source)
      BY <1>1, <2>2, <3>1 DEF Within
    <3> QED BY <3>1, <3>2
  <2>3. CASE i \notin 1 .. Len(q) /\ j \notin 1 .. Len(q)
    <3>1. i - Len(q) <= j - Len(q)  BY <1>1, <2>0
    <3> QED BY <1>3, <2>3, <3>1 DEF Sorted
  <2> QED BY <2>1, <2>2, <2>3
<1>7. ToSet(s) = ToSet(q) \cup ToSet(r)
  <2>1. ToSet(q) \subseteq ToSet(s)  BY <1>1, <1>2 DEF ToSet
  <2>2. ToSet(r) \subseteq ToSet(s)  BY <1>4 DEF ToSet
  <2>3. ToSet(s) \subseteq ToSet(q) \cup ToSet(r)  BY <1>1, <1>2, <1>3 DEF ToSet
  <2> QED BY <2>1, <2>2, <2>3
<1> QED BY <1>1, <1>5, <1>6, <1>7

\* The rows of sequences of which each is of one rank, the ranks rising.
LEMMA JoinIsSorted ==
  ASSUME NEW seqs \in Seq(Seq(Offers)), NEW base \in Nat,
         \A i \in DOMAIN seqs : \A k \in DOMAIN seqs[i] : Rank(seqs[i][k].source) = base + i,
         NEW f, Joins(f, seqs, Len(seqs))
  PROVE  \A n \in 1 .. Len(seqs) :
           /\ f[n] \in Seq(Offers) /\ Sorted(f[n]) /\ Within(f[n], base, base + n)
           /\ ToSet(f[n]) = UNION {ToSet(seqs[i]) : i \in 1 .. n}
<1> DEFINE Fine(n) == /\ f[n] \in Seq(Offers) /\ Sorted(f[n]) /\ Within(f[n], base, base + n)
                      /\ ToSet(f[n]) = UNION {ToSet(seqs[i]) : i \in 1 .. n}
           S == {n \in Nat : n \in 1 .. Len(seqs) => Fine(n)}
<1>0. Len(seqs) \in Nat /\ DOMAIN seqs = 1 .. Len(seqs)  OBVIOUS
<1>1. 0 \in S  BY <1>0
<1>2. ASSUME NEW n \in Nat, n \in S PROVE n + 1 \in S
  <2> SUFFICES ASSUME n + 1 \in 1 .. Len(seqs) PROVE Fine(n + 1)
    OBVIOUS
  <2>1. PICK q \in Seq(Offers) : q = seqs[n + 1]  OBVIOUS
  <2>2. \A k \in DOMAIN q : Rank(q[k].source) = base + (n + 1)  BY <1>0, <2>1
  <2>3. Sorted(q) /\ Within(q, base + (n + 1), base + (n + 1))
    <3>1. base + (n + 1) \in Nat  OBVIOUS
    <3> QED BY <2>2, <3>1 DEF Sorted, Within
  <2>4. CASE n = 0
    <3>1. f[1] = seqs[1]  BY <1>0, <2>4 DEF Joins
    <3>2. Within(q, base, base + 1)  BY <2>3, <2>4 DEF Within
    <3>3. UNION {ToSet(seqs[i]) : i \in 1 .. 1} = ToSet(seqs[1])
      <4>1. 1 .. 1 = {1}  OBVIOUS
      <4> QED BY <4>1
    <3>4. n + 1 = 1  BY <2>4
    <3> QED BY <2>1, <2>3, <3>1, <3>2, <3>3, <3>4
  <2>5. CASE n # 0
    <3>1. n \in 1 .. Len(seqs) /\ n + 1 # 1 /\ (n + 1) - 1 = n  BY <1>0, <2>5
    <3>2. Fine(n)  BY <1>2, <3>1
    <3>3. f[n + 1] = f[n] \o q
      <4>1. f[n + 1] = IF n + 1 = 1 THEN seqs[n + 1] ELSE f[(n + 1) - 1] \o seqs[n + 1]
        BY DEF Joins
      <4> QED BY <2>1, <3>1, <4>1
    <3>4. PICK p \in Seq(Offers) : p = f[n]  BY <3>2
    <3>5. Sorted(p) /\ Within(p, base, base + n) /\ ToSet(p) = UNION {ToSet(seqs[i]) : i \in 1 .. n}
      BY <3>2, <3>4
    <3>6. /\ base + n \in Nat /\ base + (n + 1) \in Nat /\ base + n <= base + (n + 1)
          /\ base <= base + (n + 1)
      OBVIOUS
    <3>7. /\ Sorted(p \o q) /\ Within(p \o q, base, base + (n + 1))
          /\ p \o q \in Seq(Offers) /\ ToSet(p \o q) = ToSet(p) \cup ToSet(q)
      BY <2>3, <3>5, <3>6, SortedJoined
    <3>8. UNION {ToSet(seqs[i]) : i \in 1 .. n + 1}
            = (UNION {ToSet(seqs[i]) : i \in 1 .. n}) \cup ToSet(q)
      <4>1. 1 .. n + 1 = (1 .. n) \cup {n + 1}  OBVIOUS
      <4> QED BY <2>1, <4>1
    <3> QED BY <3>3, <3>4, <3>5, <3>7, <3>8
  <2> QED BY <2>4, <2>5
<1> HIDE DEF S
<1>3. \A n \in Nat : n \in S  BY <1>1, <1>2, AllNumbers
<1>4. ASSUME NEW n \in 1 .. Len(seqs) PROVE Fine(n)
  <2>1. n \in Nat /\ n \in S  BY <1>3
  <2> QED BY <2>1 DEF S
<1> QED BY <1>4

\* What is collected of the sources, each row by a source of its place.
InPlace(s) ==
  /\ s.site - 1 <= Len(Sites)
  /\ \A i \in DOMAIN s.legacy : /\ Rank(s.legacy[i].source) \in Nat
                                /\ Rank(s.legacy[i].source) < s.site
  /\ Sorted(s.legacy)
  /\ \A i \in DOMAIN s.custom : s.custom[i].source \in Customs
  /\ \A i \in DOMAIN s.adapters : /\ i \in DOMAIN Adapters
                                  /\ \A k \in DOMAIN s.adapters[i] :
                                       s.adapters[i][k].source = Adapters[i]

LEMMA FlattenIsSorted ==
  ASSUME NEW s \in SearchRecord, InPlace(s)
  PROVE  /\ FlattenSeq(s.adapters) \in Seq(Offers) /\ Sorted(FlattenSeq(s.adapters))
         /\ Within(FlattenSeq(s.adapters), Len(Sites) + 1, Len(Sites) + 1 + Len(Adapters))
         /\ ToSet(FlattenSeq(s.adapters)) = UNION {ToSet(s.adapters[i]) : i \in DOMAIN s.adapters}
<1>1. PICK seqs \in Seq(Seq(Offers)) : seqs = s.adapters
  BY DEF SearchRecord, AdapterRows, OfferRows
<1>2. Len(seqs) \in Nat /\ DOMAIN seqs = 1 .. Len(seqs)  OBVIOUS
<1>3. PICK base \in Nat : base = Len(Sites) + 1  BY Ranks
<1>4. \A i \in DOMAIN seqs : \A k \in DOMAIN seqs[i] : Rank(seqs[i][k].source) = base + i
  BY <1>1, <1>3, Ranks DEF InPlace
<1>5. Len(seqs) <= Len(Adapters)
  <2>1. \A i \in 1 .. Len(seqs) : i \in 1 .. Len(Adapters)  BY <1>1, <1>2, Ranks DEF InPlace
  <2>2. Len(seqs) # 0 => Len(seqs) \in 1 .. Len(seqs)  BY <1>2
  <2>3. Len(seqs) # 0 => Len(seqs) \in 1 .. Len(Adapters)  BY <2>1, <2>2
  <2> QED BY <1>2, <2>3, Ranks
<1> DEFINE f == CHOOSE g : g = [i \in 1 .. Len(seqs) |->
                                  IF i = 1 THEN seqs[i] ELSE g[i - 1] \o seqs[i]]
<1>6. Joins(f, seqs, Len(seqs))
  <2>1. \E g : Joins(g, seqs, Len(seqs))  BY <1>2, JoinExists
  <2> QED BY <2>1 DEF Joins
<1>7. FlattenSeq(seqs) = IF Len(seqs) = 0 THEN seqs ELSE f[Len(seqs)]  BY DEF FlattenSeq
<1> HIDE DEF f
<1>8. CASE Len(seqs) = 0
  <2>1. seqs = <<>> /\ DOMAIN seqs = {} /\ <<>> \in Seq(Offers) /\ FlattenSeq(seqs) = <<>>
    BY <1>2, <1>7, <1>8
  <2>2. ToSet(<<>>) = {} /\ Sorted(<<>>) /\ Within(<<>>, base, base + Len(Adapters))
    <3>1. DOMAIN <<>> = {}  OBVIOUS
    <3> QED BY <3>1 DEF ToSet, Sorted, Within
  <2>3. UNION {ToSet(seqs[i]) : i \in DOMAIN seqs} = {}  BY <2>1
  <2> QED BY <1>1, <1>3, <2>1, <2>2, <2>3
<1>9. CASE Len(seqs) # 0
  <2>1. Len(seqs) \in 1 .. Len(seqs)  BY <1>2, <1>9
  <2>2. PICK q \in Seq(Offers) : q = f[Len(seqs)]  BY <1>4, <1>6, <2>1, JoinIsSorted
  <2>3. /\ Sorted(q) /\ Within(q, base, base + Len(seqs))
        /\ ToSet(q) = UNION {ToSet(seqs[i]) : i \in 1 .. Len(seqs)}
    BY <1>4, <1>6, <2>1, <2>2, JoinIsSorted
  <2>4. Within(q, base, base + Len(Adapters))
    BY <1>2, <1>5, <2>3, Ranks DEF Within
  <2>5. FlattenSeq(seqs) = q  BY <1>7, <1>9, <2>2
  <2> QED BY <1>1, <1>2, <1>3, <2>3, <2>4, <2>5
<1> QED BY <1>8, <1>9

LEMMA EstablishedIsSorted ==
  ASSUME NEW s \in SearchRecord, InPlace(s)
  PROVE  /\ Established(s) \in Seq(Offers) /\ Sorted(Established(s))
         /\ Within(Established(s), 0, Len(Sites) + 1 + Len(Adapters))
         /\ ToSet(Established(s)) = ToSet(s.legacy) \cup ToSet(s.custom)
              \cup UNION {ToSet(s.adapters[i]) : i \in DOMAIN s.adapters}
<1>1. PICK q \in Seq(Offers) : q = s.legacy  BY DEF SearchRecord, OfferRows
<1>2. PICK r \in Seq(Offers) : r = s.custom  BY DEF SearchRecord, OfferRows
<1>3. PICK f \in Seq(Offers) : f = FlattenSeq(s.adapters)  BY FlattenIsSorted
<1>4. PICK n \in Nat : n = Len(Sites)  BY Ranks
<1>5. PICK m \in Nat : m = Len(Adapters)  BY Ranks
<1>6. /\ n + 1 \in Nat /\ n + 1 + m \in Nat /\ n <= n + 1 /\ n + 1 <= n + 1 + m
      /\ 0 <= n + 1 /\ n + 1 <= n + 1
  OBVIOUS
<1>7. Sorted(q) /\ Within(q, 0, n)
  <2>1. s.site \in Nat  BY DEF SearchRecord, SiteNumbers
  <2>2. ASSUME NEW i \in DOMAIN q
        PROVE  Rank(q[i].source) \in Nat /\ 0 <= Rank(q[i].source) /\ Rank(q[i].source) <= n
    BY <1>1, <1>4, <2>1 DEF InPlace
  <2> QED BY <1>1, <2>2 DEF InPlace, Within
<1>8. Sorted(r) /\ Within(r, n + 1, n + 1)
  <2>1. \A i \in DOMAIN r : Rank(r[i].source) = n + 1  BY <1>2, <1>4, Ranks DEF InPlace
  <2> QED BY <1>6, <2>1 DEF Sorted, Within
<1>9. PICK p \in Seq(Offers) :
        /\ p = q \o r /\ Sorted(p) /\ Within(p, 0, n + 1) /\ ToSet(p) = ToSet(q) \cup ToSet(r)
  BY <1>6, <1>7, <1>8, SortedJoined
<1>10. Sorted(f) /\ Within(f, n + 1, n + 1 + m)  BY <1>3, <1>4, <1>5, FlattenIsSorted
<1>11. /\ Sorted(p \o f) /\ Within(p \o f, 0, n + 1 + m) /\ p \o f \in Seq(Offers)
       /\ ToSet(p \o f) = ToSet(p) \cup ToSet(f)
  BY <1>6, <1>9, <1>10, SortedJoined
<1>12. Established(s) = p \o f  BY <1>1, <1>2, <1>3, <1>9 DEF Established
<1>13. ToSet(f) = UNION {ToSet(s.adapters[i]) : i \in DOMAIN s.adapters}
  BY <1>3, FlattenIsSorted
<1> QED BY <1>1, <1>2, <1>4, <1>5, <1>9, <1>11, <1>12, <1>13

\* A number has its rank alone, and the ranks rise with the numbers.
LEMMA RanksRise ==
  ASSUME NEW n \in Nat, NEW F \in SUBSET (1 .. n), NEW i \in F, NEW j \in F,
         Cardinality(UpTo(F, i)) <= Cardinality(UpTo(F, j))
  PROVE  i <= j
<1> SUFFICES ASSUME ~(i <= j) PROVE FALSE  OBVIOUS
<1>1. i \in Int /\ j \in Int /\ j < i  OBVIOUS
<1>2. UpTo(F, j) \subseteq UpTo(F, i)
  <2> SUFFICES ASSUME NEW k \in F, k <= j PROVE k <= i  BY DEF UpTo
  <2>1. k \in Int  OBVIOUS
  <2> QED BY <1>1, <2>1
<1>3. IsFiniteSet(F)  BY EveryRankIsTaken
<1>4. UpTo(F, i) \subseteq F  BY DEF UpTo
<1>5. IsFiniteSet(UpTo(F, i))  BY <1>3, <1>4, FS_Subset
<1>6. /\ Cardinality(UpTo(F, i)) \in Nat /\ Cardinality(UpTo(F, j)) \in Nat
      /\ Cardinality(UpTo(F, j)) <= Cardinality(UpTo(F, i))
      /\ Cardinality(UpTo(F, i)) = Cardinality(UpTo(F, j)) => UpTo(F, i) = UpTo(F, j)
  <2>1. IsFiniteSet(UpTo(F, j))  BY <1>2, <1>5, FS_Subset
  <2> QED BY <1>2, <1>5, <2>1, FS_Subset, FS_CardinalityType
<1>7. UpTo(F, i) = UpTo(F, j)  BY <1>6
<1>8. i \in UpTo(F, i) /\ i \notin UpTo(F, j)  BY <1>1 DEF UpTo
<1> QED BY <1>7, <1>8

LEMMA DistinctIsSorted ==
  ASSUME NEW rows \in Seq(Offers), Sorted(rows)
  PROVE  Sorted(Distinct(rows)) /\ ToSet(Distinct(rows)) = ToSet(rows)
<1> DEFINE F == First(rows)  c == Cardinality(F)
<1>1. /\ Len(rows) \in Nat /\ DOMAIN rows = 1 .. Len(rows) /\ F \in SUBSET (1 .. Len(rows))
      /\ c \in Nat
  BY PlaceIsFirst DEF First
<1>2. \A k \in 1 .. c : /\ Place(rows, k) \in F /\ Place(rows, k) \in DOMAIN rows
                        /\ Cardinality(UpTo(F, Place(rows, k))) = k
  BY PlaceIsFirst
<1>3. /\ DOMAIN Distinct(rows) = 1 .. c
      /\ \A k \in 1 .. c : Distinct(rows)[k] = rows[Place(rows, k)]
  BY DEF Distinct
<1> HIDE DEF F, c
<1>4. Sorted(Distinct(rows))
  <2> SUFFICES ASSUME NEW j \in 1 .. c, NEW k \in 1 .. c, j <= k
               PROVE  Rank(Distinct(rows)[j].source) <= Rank(Distinct(rows)[k].source)
    BY <1>3 DEF Sorted
  <2>1. Place(rows, j) <= Place(rows, k)
    <3>1. PICK a \in F : a = Place(rows, j)  BY <1>2
    <3>2. PICK b \in F : b = Place(rows, k)  BY <1>2
    <3>3. Cardinality(UpTo(F, a)) <= Cardinality(UpTo(F, b))  BY <1>2, <3>1, <3>2
    <3> QED BY <1>1, <3>1, <3>2, <3>3, RanksRise
  <2> QED BY <1>2, <1>3, <2>1 DEF Sorted
<1>5. ASSUME NEW i \in DOMAIN rows PROVE rows[i] \in ToSet(Distinct(rows))
  <2> DEFINE T == {j \in DOMAIN rows : RowKey(rows[j]) = RowKey(rows[i])}
  <2>1. T \subseteq Nat /\ T # {}  BY <1>1
  <2>2. PICK m \in T : \A j \in T : <<j, m>> \notin OpToRel(<, Nat)
    BY <2>1, NatLessThanWellFounded, WFMin
  <2>3. m \in DOMAIN rows /\ RowKey(rows[m]) = RowKey(rows[i])  OBVIOUS
  <2>4. \A j \in T : ~(j < m)  BY <2>1, <2>2 DEF OpToRel
  <2>5. \A j \in 1 .. m - 1 : j \in DOMAIN rows /\ j < m  BY <1>1, <2>3
  <2>6. \A j \in 1 .. m - 1 : RowKey(rows[j]) # RowKey(rows[m])  BY <2>3, <2>4, <2>5
  <2> HIDE DEF T
  <2>7. m \in F  BY <2>3, <2>6 DEF First, F
  <2>8. rows[m] = rows[i]
    <3>1. rows[m] \in Offers /\ rows[i] \in Offers  BY <2>3
    <3> QED BY <2>3, <3>1, KeyIsRow
  <2>9. PICK k : k = Cardinality(UpTo(F, m))  OBVIOUS
  <2>10. k \in 1 .. c
    <3>1. UpTo(F, m) \subseteq F /\ m \in UpTo(F, m)  BY <1>1, <2>7 DEF UpTo
    <3>2. IsFiniteSet(F)  BY <1>1, EveryRankIsTaken
    <3>3. IsFiniteSet(UpTo(F, m)) /\ Cardinality(UpTo(F, m)) <= Cardinality(F)
      BY <3>1, <3>2, FS_Subset
    <3>4. Cardinality(UpTo(F, m)) \in Nat /\ Cardinality(UpTo(F, m)) # 0
      BY <3>1, <3>3, FS_CardinalityType, FS_EmptySet
    <3>5. k \in Nat /\ k # 0 /\ k <= c  BY <2>9, <3>3, <3>4 DEF c
    <3> QED BY <1>1, <3>5
  <2>11. Place(rows, k) = m
    <3>1. PICK b \in F : b = Place(rows, k) /\ Cardinality(UpTo(F, b)) = k  BY <1>2, <2>10
    <3>2. k <= k  BY <1>1, <2>10
    <3>3. b <= m /\ m <= b  BY <1>1, <2>7, <2>9, <3>1, <3>2, RanksRise
    <3> QED BY <1>1, <2>7, <3>1, <3>3
  <2>12. Distinct(rows)[k] = rows[i]  BY <1>3, <2>8, <2>10, <2>11
  <2> QED BY <1>3, <2>10, <2>12 DEF ToSet
<1>6. ToSet(Distinct(rows)) \subseteq ToSet(rows)  BY <1>2, <1>3 DEF ToSet
<1> QED BY <1>4, <1>5, <1>6 DEF ToSet

-----------------------------------------------------------------------------
(* The rows under the identities they were given.                          *)

NamedOffers == {[row EXCEPT !.content = name] : row \in Offers, name \in Identities}
NamedRows == Seq(NamedOffers)
VariantNames == {row.variant : row \in Offers}

LEMMA NamedOfferFacts ==
  \A row \in NamedOffers :
    /\ row.content \in Identities /\ row.variant \in VariantNames
    /\ row = [content |-> row.content, variant |-> row.variant, source |-> row.source,
              url |-> row.url]
<1> SUFFICES ASSUME NEW old \in Offers, NEW name \in Identities,
                    NEW row, row = [old EXCEPT !.content = name]
             PROVE  /\ row.content \in Identities /\ row.variant \in VariantNames
                    /\ row = [content |-> row.content, variant |-> row.variant,
                              source |-> row.source, url |-> row.url]
  BY DEF NamedOffers
<1>1. old = [content |-> old.content, variant |-> old.variant, source |-> old.source,
             url |-> old.url]
  BY SourceOfOffer
<1>2. row = [content |-> name, variant |-> old.variant, source |-> old.source, url |-> old.url]
  BY <1>1
<1>3. row.content = name /\ row.variant = old.variant /\ row.source = old.source
      /\ row.url = old.url
  BY <1>2
<1> QED BY <1>2, <1>3 DEF VariantNames

LEMMA NamedKeyIsRow ==
  ASSUME NEW row \in NamedOffers, NEW other \in NamedOffers, RowKey(row) = RowKey(other)
  PROVE  row = other
<1>1. /\ row.content = other.content /\ row.variant = other.variant
      /\ row.source = other.source /\ row.url = other.url
  BY DEF RowKey
<1> QED BY <1>1, NamedOfferFacts

\* Naming the rows keeps their order and their sources.
LEMMA IdentifiedRows ==
  ASSUME NEW s, s.rows \in Seq(Offers), s.names \in Seq(Identities),
         Len(s.names) = Len(s.rows), NEW q, q = Identified(s)
  PROVE  /\ q \in Seq(NamedOffers) /\ Len(q) = Len(s.rows) /\ DOMAIN q = DOMAIN s.rows
         /\ \A i \in DOMAIN q : q[i].source = s.rows[i].source
<1>1. /\ Len(s.rows) \in Nat /\ DOMAIN s.rows = 1 .. Len(s.rows)
      /\ DOMAIN s.names = 1 .. Len(s.rows)
  OBVIOUS
<1>2. q = [i \in 1 .. Len(s.rows) |-> [s.rows[i] EXCEPT !.content = s.names[i]]]
  BY <1>1 DEF Identified
<1>3. ASSUME NEW i \in 1 .. Len(s.rows)
      PROVE  q[i] \in NamedOffers /\ q[i].source = s.rows[i].source
  <2>1. PICK row \in Offers : row = s.rows[i]  BY <1>1
  <2>2. PICK name \in Identities : name = s.names[i]  BY <1>1
  <2>3. q[i] = [row EXCEPT !.content = name]  BY <1>2, <2>1, <2>2
  <2>4. q[i] \in NamedOffers  BY <2>3 DEF NamedOffers
  <2>5. row = [content |-> row.content, variant |-> row.variant, source |-> row.source,
               url |-> row.url]
    BY SourceOfOffer
  <2>6. q[i].source = row.source  BY <2>3, <2>5
  <2> QED BY <2>1, <2>4, <2>6
<1>4. q \in [1 .. Len(s.rows) -> NamedOffers]  BY <1>2, <1>3
<1>5. q \in Seq(NamedOffers) /\ DOMAIN q = 1 .. Len(s.rows)  BY <1>1, <1>4
<1> QED BY <1>1, <1>3, <1>5

-----------------------------------------------------------------------------
(* Aggregating the rows, one after the other.                              *)

\* The recursive function by which FoldLeft goes through sets of places.
Folded(g, rows, n) ==
  g = [s \in SUBSET (1 .. n) |->
         IF s = {} THEN <<>> ELSE WithRow(g[s \ {Max(s)}], rows[Max(s)])]

LEMMA LastIsMax ==
  ASSUME NEW n \in Nat, NEW s \in SUBSET (1 .. n), NEW m \in s, \A k \in s : k <= m
  PROVE  Max(s) = m
<1>1. \A x \in s : x \in Int  OBVIOUS
<1>2. \A x \in s : (\A y \in s : x >= y) <=> x = m  BY <1>1
<1> QED BY <1>2 DEF Max

LEMMA FoldExists == ASSUME NEW rows PROVE \A n \in Nat : \E g : Folded(g, rows, n)
<1> DEFINE S == {n \in Nat : \E g : Folded(g, rows, n)}
<1>1. 0 \in S
  <2>1. \A s \in SUBSET (1 .. 0) : s = {}  OBVIOUS
  <2>2. Folded([s \in SUBSET (1 .. 0) |-> <<>>], rows, 0)  BY <2>1 DEF Folded
  <2> QED BY <2>2
<1>2. ASSUME NEW n \in Nat, n \in S PROVE n + 1 \in S
  <2>1. PICK g : Folded(g, rows, n)  BY <1>2
  <2> DEFINE h == [s \in SUBSET (1 .. n + 1) |->
                     IF n + 1 \in s THEN WithRow(g[s \ {n + 1}], rows[n + 1]) ELSE g[s]]
  <2>2. ASSUME NEW s \in SUBSET (1 .. n + 1)
        PROVE  h[s] = IF s = {} THEN <<>> ELSE WithRow(h[s \ {Max(s)}], rows[Max(s)])
    <3>1. CASE n + 1 \in s
      <4>1. Max(s) = n + 1
        <5>1. n + 1 \in Nat /\ \A k \in s : k <= n + 1  OBVIOUS
        <5> QED BY <3>1, <5>1, LastIsMax
      <4>2. PICK r : r = s \ {n + 1}  OBVIOUS
      <4>3. r \in SUBSET (1 .. n + 1) /\ n + 1 \notin r  BY <4>2
      <4>4. h[r] = g[r]  BY <4>3
      <4>5. h[s] = WithRow(g[r], rows[n + 1])  BY <3>1, <4>2
      <4> HIDE DEF h
      <4> QED BY <3>1, <4>1, <4>2, <4>4, <4>5
    <3>2. CASE n + 1 \notin s
      <4>1. s \in SUBSET (1 .. n)  BY <3>2
      <4>2. PICK r : r = s \ {Max(s)}  OBVIOUS
      <4>3. r \in SUBSET (1 .. n + 1) /\ n + 1 \notin r  BY <3>2, <4>2
      <4>4. h[s] = g[s] /\ h[r] = g[r]  BY <3>2, <4>3
      <4>5. g[s] = IF s = {} THEN <<>> ELSE WithRow(g[r], rows[Max(s)])
        BY <2>1, <4>1, <4>2 DEF Folded
      <4> HIDE DEF h
      <4> QED BY <4>2, <4>4, <4>5
    <3> QED BY <3>1, <3>2
  <2>3. Folded(h, rows, n + 1)
    <3>1. h = [s \in SUBSET (1 .. n + 1) |-> h[s]]  OBVIOUS
    <3> HIDE DEF h
    <3> QED BY <2>2, <3>1 DEF Folded
  <2> QED BY <2>3
<1> HIDE DEF S
<1>3. \A n \in Nat : n \in S  BY <1>1, <1>2, AllNumbers
<1> QED BY <1>3 DEF S

\* What has been aggregated after every row.
Steps(f, rows) ==
  /\ f[0] = <<>> /\ f[Len(rows)] = Aggregated(rows)
  /\ \A k \in 1 .. Len(rows) : f[k] = WithRow(f[k - 1], rows[k])

LEMMA AggregatedInSteps == ASSUME NEW rows \in Seq(NamedOffers) PROVE \E f : Steps(f, rows)
<1>1. PICK n \in Nat : n = Len(rows) /\ DOMAIN rows = 1 .. n  OBVIOUS
<1>2. Aggregated(rows) = (CHOOSE g : Folded(g, rows, n))[1 .. n]
  <2>1. Aggregated(rows) =
          (CHOOSE g : g = [s \in SUBSET DOMAIN rows |->
                IF s = {} THEN <<>> ELSE WithRow(g[s \ {Max(s)}], rows[Max(s)])])[DOMAIN rows]
    BY DEF Aggregated, FoldLeft, MapThenFoldSet
  <2> QED BY <1>1, <2>1 DEF Folded
<1>3. PICK g : Folded(g, rows, n) /\ Aggregated(rows) = g[1 .. n]
  <2>1. \E g : Folded(g, rows, n)  BY FoldExists
  <2> QED BY <1>2, <2>1
<1> DEFINE f == [k \in 0 .. n |-> g[1 .. k]]
<1>4. f[0] = <<>>
  <2>1. 1 .. 0 = {} /\ 1 .. 0 \in SUBSET (1 .. n) /\ 0 \in 0 .. n  OBVIOUS
  <2>2. g[1 .. 0] = <<>>  BY <1>3, <2>1 DEF Folded
  <2> QED BY <2>1, <2>2
<1>5. ASSUME NEW k \in 1 .. n PROVE f[k] = WithRow(f[k - 1], rows[k])
  <2>1. PICK s \in SUBSET (1 .. n) : s = 1 .. k  OBVIOUS
  <2>2. Max(s) = k
    <3>1. k \in s /\ \A l \in s : l <= k  BY <2>1
    <3> QED BY <3>1, LastIsMax
  <2>3. s \ {k} = 1 .. k - 1 /\ s # {} /\ k \in 0 .. n /\ k - 1 \in 0 .. n  BY <2>1
  <2>4. g[s] = WithRow(g[1 .. k - 1], rows[k])  BY <1>3, <2>2, <2>3 DEF Folded
  <2> QED BY <2>1, <2>3, <2>4
<1>6. f[n] = Aggregated(rows)  BY <1>3
<1> HIDE DEF f
<1> QED BY <1>1, <1>4, <1>5, <1>6 DEF Steps

Variants == [name : VariantNames, sources : NamedRows]
VariantRows == Seq(Variants)
Contents == [name : Identities, variants : VariantRows]

\* A variant lists some rows, all of its title and its label.
OfOne(variant, title) ==
  /\ variant.sources # <<>>
  /\ \A row \in ToSet(variant.sources) : row.content = title /\ row.variant = variant.name
Whole(content) ==
  /\ content \in Contents /\ content.variants # <<>>
  /\ \A v \in DOMAIN content.variants : OfOne(content.variants[v], content.name)
Lists(content, row) ==
  \E v \in DOMAIN content.variants :
    content.variants[v].name = row.variant /\ row \in ToSet(content.variants[v].sources)

LEMMA OneAppended ==
  ASSUME NEW A, NEW q \in Seq(A), NEW a \in A
  PROVE  /\ Append(q, a) \in Seq(A) /\ Append(q, a) # <<>> /\ Len(q) \in Nat
         /\ DOMAIN q = 1 .. Len(q) /\ DOMAIN Append(q, a) = 1 .. Len(q) + 1
         /\ \A i \in DOMAIN q : i \in DOMAIN Append(q, a) /\ Append(q, a)[i] = q[i]
         /\ Len(q) + 1 \in DOMAIN Append(q, a) /\ Append(q, a)[Len(q) + 1] = a
         /\ \A i \in DOMAIN Append(q, a) : i \in DOMAIN q \/ i = Len(q) + 1
         /\ q # <<>> => 1 \in DOMAIN q
OBVIOUS

LEMMA SourceJoins ==
  ASSUME NEW variant \in Variants, NEW row \in NamedOffers, OfOne(variant, row.content),
         variant.name = row.variant, NEW w, w = WithSource(variant, row)
  PROVE  /\ w \in Variants /\ w.name = variant.name /\ OfOne(w, row.content)
         /\ row \in ToSet(w.sources) /\ ToSet(variant.sources) \subseteq ToSet(w.sources)
         /\ w.sources[1] = variant.sources[1]
<1>1. PICK q \in Seq(NamedOffers) : q = variant.sources  BY DEF Variants, NamedRows
<1>2. CASE \E i \in DOMAIN q : q[i].source = row.source /\ q[i].url = row.url
  <2>1. w = variant  BY <1>1, <1>2 DEF WithSource
  <2>2. PICK i \in DOMAIN q : q[i].source = row.source /\ q[i].url = row.url  BY <1>2
  <2>3. q[i] \in NamedOffers /\ q[i] \in ToSet(q)  BY <2>2 DEF ToSet
  <2>4. q[i].content = row.content /\ q[i].variant = row.variant
    BY <1>1, <2>3 DEF OfOne
  <2>5. q[i] = row  BY <2>2, <2>3, <2>4, NamedKeyIsRow DEF RowKey
  <2> QED BY <1>1, <2>1, <2>3, <2>5
<1>3. CASE ~\E i \in DOMAIN q : q[i].source = row.source /\ q[i].url = row.url
  <2>1. PICK r \in NamedRows : r = Append(q, row)  BY OneAppended DEF NamedRows
  <2>2. w = [variant EXCEPT !.sources = r]
    BY <1>1, <1>3, <2>1 DEF WithSource, Variants
  <2>3. w \in Variants /\ w.name = variant.name /\ w.sources = r  BY <2>2 DEF Variants
  <2>4. /\ r # <<>> /\ ToSet(r) = ToSet(q) \cup {row} /\ r[1] = q[1]
    <3>1. q # <<>>  BY <1>1 DEF OfOne
    <3> QED BY <2>1, <3>1, OneAppended DEF ToSet
  <2>5. OfOne(w, row.content)  BY <1>1, <2>3, <2>4 DEF OfOne
  <2> QED BY <1>1, <2>3, <2>4, <2>5
<1> QED BY <1>2, <1>3

LEMMA VariantJoins ==
  ASSUME NEW content, Whole(content), NEW row \in NamedOffers, content.name = row.content,
         NEW c, c = WithVariant(content, row)
  PROVE  /\ Whole(c) /\ c.name = content.name /\ Lists(c, row) /\ Tile(c) = Tile(content)
         /\ \A old : Lists(content, old) => Lists(c, old)
<1>0. content \in Contents  BY DEF Whole
<1>1. PICK vs \in Seq(Variants) : vs = content.variants  BY <1>0 DEF Contents, VariantRows
<1>2. /\ Len(vs) \in Nat /\ DOMAIN vs = 1 .. Len(vs) /\ vs # <<>> /\ 1 \in DOMAIN vs
      /\ \A i \in DOMAIN vs : vs[i] \in Variants /\ OfOne(vs[i], row.content)
  <2>1. vs # <<>>  BY <1>1 DEF Whole
  <2> QED BY <1>1, <2>1 DEF Whole
<1>3. ASSUME NEW new \in VariantRows, c = [content EXCEPT !.variants = new],
             \A i \in DOMAIN vs :
               /\ i \in DOMAIN new /\ new[i].name = vs[i].name
               /\ ToSet(vs[i].sources) \subseteq ToSet(new[i].sources)
               /\ new[i].sources[1] = vs[i].sources[1],
             \A i \in DOMAIN new : OfOne(new[i], row.content),
             \E i \in DOMAIN new : new[i].name = row.variant /\ row \in ToSet(new[i].sources)
      PROVE  /\ Whole(c) /\ c.name = content.name /\ Lists(c, row) /\ Tile(c) = Tile(content)
             /\ \A old : Lists(content, old) => Lists(c, old)
  <2>1. c \in Contents /\ c.name = content.name /\ c.variants = new
    BY <1>0, <1>3 DEF Contents
  <2>2. new # <<>>  BY <1>2, <1>3
  <2>3. Whole(c)  BY <1>3, <2>1, <2>2 DEF Whole
  <2>4. Lists(c, row)  BY <1>3, <2>1 DEF Lists
  <2>5. Tile(c) = Tile(content)  BY <1>1, <1>2, <1>3, <2>1 DEF Tile
  <2>6. \A old : Lists(content, old) => Lists(c, old)  BY <1>1, <1>3, <2>1 DEF Lists
  <2> QED BY <2>1, <2>3, <2>4, <2>5, <2>6
<1>4. CASE \E i \in DOMAIN vs : vs[i].name = row.variant
  <2>1. PICK new : new = [i \in DOMAIN vs |-> IF vs[i].name = row.variant
                                              THEN WithSource(vs[i], row) ELSE vs[i]]
    OBVIOUS
  <2>2. c = [content EXCEPT !.variants = new]
    BY <1>0, <1>1, <1>4, <2>1 DEF WithVariant, Contents
  <2>3. ASSUME NEW i \in DOMAIN vs
        PROVE  /\ i \in DOMAIN new /\ new[i] \in Variants /\ new[i].name = vs[i].name
               /\ ToSet(vs[i].sources) \subseteq ToSet(new[i].sources)
               /\ new[i].sources[1] = vs[i].sources[1] /\ OfOne(new[i], row.content)
               /\ vs[i].name = row.variant => row \in ToSet(new[i].sources)
    <3>1. vs[i] \in Variants /\ OfOne(vs[i], row.content) /\ i \in DOMAIN new  BY <1>2, <2>1
    <3>2. CASE vs[i].name = row.variant
      <4>1. PICK old \in Variants : old = vs[i]  BY <3>1
      <4>2. PICK w : w = WithSource(old, row)  OBVIOUS
      <4>3. new[i] = w  BY <2>1, <3>2, <4>1, <4>2
      <4>4. /\ w \in Variants /\ w.name = old.name /\ OfOne(w, row.content)
            /\ row \in ToSet(w.sources) /\ ToSet(old.sources) \subseteq ToSet(w.sources)
            /\ w.sources[1] = old.sources[1]
        BY <3>1, <3>2, <4>1, <4>2, SourceJoins
      <4> QED BY <3>1, <4>1, <4>3, <4>4
    <3>3. CASE vs[i].name # row.variant
      <4>1. new[i] = vs[i]  BY <2>1, <3>3
      <4> QED BY <3>1, <3>3, <4>1
    <3> QED BY <3>2, <3>3
  <2>4. DOMAIN new = DOMAIN vs  BY <2>1
  <2>5. new \in VariantRows
    <3>1. new \in [1 .. Len(vs) -> Variants]  BY <1>2, <2>1, <2>3
    <3> QED BY <1>2, <3>1 DEF VariantRows
  <2>6. \E i \in DOMAIN new : new[i].name = row.variant /\ row \in ToSet(new[i].sources)
    BY <1>4, <2>3
  <2> QED BY <1>3, <2>2, <2>3, <2>4, <2>5, <2>6
<1>5. CASE ~\E i \in DOMAIN vs : vs[i].name = row.variant
  <2>1. PICK variant \in Variants :
          /\ variant = [name |-> row.variant, sources |-> <<row>>]
          /\ OfOne(variant, row.content) /\ row \in ToSet(variant.sources)
          /\ variant.name = row.variant
    <3>1. <<row>> \in NamedRows /\ row.variant \in VariantNames /\ <<row>> # <<>>
      BY NamedOfferFacts DEF NamedRows
    <3>2. ToSet(<<row>>) = {row}
      <4>1. DOMAIN <<row>> = {1} /\ <<row>>[1] = row  OBVIOUS
      <4> QED BY <4>1 DEF ToSet
    <3>3. PICK rows \in NamedRows : rows = <<row>>  BY <3>1
    <3>4. PICK variant : variant = [name |-> row.variant, sources |-> rows]  OBVIOUS
    <3>5. variant \in Variants /\ variant.name = row.variant /\ variant.sources = rows
      BY <3>1, <3>4 DEF Variants
    <3>6. OfOne(variant, row.content)  BY <3>1, <3>2, <3>3, <3>5 DEF OfOne
    <3> QED BY <3>2, <3>3, <3>4, <3>5, <3>6
  <2>2. PICK new \in VariantRows : new = Append(vs, variant)  BY OneAppended DEF VariantRows
  <2>3. c = [content EXCEPT !.variants = new]
    BY <1>0, <1>1, <1>5, <2>1, <2>2 DEF WithVariant, Contents
  <2>4. /\ \A i \in DOMAIN vs : i \in DOMAIN new /\ new[i] = vs[i]
        /\ \A i \in DOMAIN new : i \in DOMAIN vs \/ new[i] = variant
        /\ \E i \in DOMAIN new : new[i] = variant
    BY <2>2, OneAppended
  <2>5. \A i \in DOMAIN new : OfOne(new[i], row.content)  BY <1>2, <2>1, <2>4
  <2>6. \E i \in DOMAIN new : new[i].name = row.variant /\ row \in ToSet(new[i].sources)
    BY <2>1, <2>4
  <2> QED BY <1>3, <2>3, <2>4, <2>5, <2>6
<1> QED BY <1>4, <1>5

LEMMA ContentBegins ==
  ASSUME NEW row \in NamedOffers, NEW c,
         c = WithVariant([name |-> row.content, variants |-> <<>>], row)
  PROVE  Whole(c) /\ c.name = row.content /\ Lists(c, row) /\ Tile(c) = row
<1>1. /\ <<row>> \in NamedRows /\ row.variant \in VariantNames /\ row.content \in Identities
      /\ DOMAIN <<row>> = {1} /\ <<row>>[1] = row /\ <<row>> # <<>>
  BY NamedOfferFacts DEF NamedRows
<1>2. PICK rows \in NamedRows : rows = <<row>>  BY <1>1
<1>3. ToSet(rows) = {row}  BY <1>1, <1>2 DEF ToSet
<1>4. PICK variant : variant = [name |-> row.variant, sources |-> rows]  OBVIOUS
<1>5. variant \in Variants /\ variant.name = row.variant /\ variant.sources = rows
  BY <1>1, <1>4 DEF Variants
<1>6. OfOne(variant, row.content)  BY <1>1, <1>2, <1>3, <1>5 DEF OfOne
<1>7. PICK vs \in VariantRows :
        /\ vs = <<variant>> /\ DOMAIN vs = {1} /\ vs[1] = variant /\ vs # <<>>
  <2>1. /\ <<variant>> \in Seq(Variants) /\ DOMAIN <<variant>> = {1}
        /\ <<variant>>[1] = variant /\ <<variant>> # <<>>
    BY <1>5
  <2> QED BY <2>1 DEF VariantRows
<1>8. c = [name |-> row.content, variants |-> vs]
  <2>1. PICK blank : blank = [name |-> row.content, variants |-> <<>>]  OBVIOUS
  <2>2. blank.variants = <<>> /\ DOMAIN <<>> = {} /\ Append(<<>>, variant) = <<variant>>
    BY <2>1
  <2>3. WithVariant(blank, row) = [blank EXCEPT !.variants = Append(@, variant)]
    BY <1>2, <1>4, <2>2 DEF WithVariant
  <2>4. WithVariant(blank, row) = [blank EXCEPT !.variants = vs]
    BY <1>7, <2>1, <2>2, <2>3
  <2> QED BY <2>1, <2>4
<1>9. c \in Contents /\ c.name = row.content /\ c.variants = vs
  BY <1>1, <1>8 DEF Contents
<1>10. Whole(c)  BY <1>6, <1>7, <1>9 DEF Whole
<1>11. Lists(c, row)  BY <1>3, <1>5, <1>7, <1>9 DEF Lists
<1>12. Tile(c) = row  BY <1>1, <1>2, <1>5, <1>7, <1>9 DEF Tile
<1> QED BY <1>9, <1>10, <1>11, <1>12

\* A content after k rows: its tile is the first of them with its title, and it
\* lists them all.
Told(content, rows, k) ==
  /\ Whole(content)
  /\ \E m \in 1 .. k : /\ Tile(content) = rows[m] /\ rows[m].content = content.name
                       /\ \A l \in 1 .. k : rows[l].content = content.name => m <= l
  /\ \A l \in 1 .. k : rows[l].content = content.name => Lists(content, rows[l])
Covered(contents, rows, k) ==
  /\ contents \in Seq(Contents)
  /\ \A i, j \in DOMAIN contents : contents[i].name = contents[j].name => i = j
  /\ \A i \in DOMAIN contents : Told(contents[i], rows, k)
  /\ \A m \in 1 .. k : \E i \in DOMAIN contents : contents[i].name = rows[m].content

LEMMA RowIsTold ==
  ASSUME NEW rows \in Seq(NamedOffers), NEW k \in Nat, k + 1 \in DOMAIN rows,
         NEW content, Told(content, rows, k)
  PROVE  /\ content.name # rows[k + 1].content => Told(content, rows, k + 1)
         /\ content.name = rows[k + 1].content =>
              /\ Told(WithVariant(content, rows[k + 1]), rows, k + 1)
              /\ WithVariant(content, rows[k + 1]).name = content.name
<1>1. PICK m \in 1 .. k : /\ Tile(content) = rows[m] /\ rows[m].content = content.name
                          /\ \A l \in 1 .. k : rows[l].content = content.name => m <= l
  BY DEF Told
<1>2. /\ m \in 1 .. k + 1 /\ m <= k + 1
      /\ \A l \in 1 .. k + 1 : l \in 1 .. k \/ l = k + 1
  OBVIOUS
<1>3. \A l \in 1 .. k + 1 : rows[l].content = content.name => m <= l  BY <1>1, <1>2
<1>4. ASSUME content.name # rows[k + 1].content PROVE Told(content, rows, k + 1)
  <2>1. \A l \in 1 .. k + 1 : rows[l].content = content.name => Lists(content, rows[l])
    BY <1>2, <1>4 DEF Told
  <2>2. Whole(content)  BY DEF Told
  <2> QED BY <1>1, <1>2, <1>3, <2>1, <2>2 DEF Told
<1>5. ASSUME content.name = rows[k + 1].content
      PROVE  /\ Told(WithVariant(content, rows[k + 1]), rows, k + 1)
             /\ WithVariant(content, rows[k + 1]).name = content.name
  <2>1. PICK row \in NamedOffers : row = rows[k + 1]  OBVIOUS
  <2>2. PICK c : c = WithVariant(content, row)  OBVIOUS
  <2>3. Whole(content)  BY DEF Told
  <2>4. /\ Whole(c) /\ c.name = content.name /\ Lists(c, row) /\ Tile(c) = Tile(content)
        /\ \A old : Lists(content, old) => Lists(c, old)
    BY <1>5, <2>1, <2>2, <2>3, VariantJoins
  <2>5. \A l \in 1 .. k : rows[l].content = content.name => Lists(content, rows[l])
    BY DEF Told
  <2>6. \A l \in 1 .. k + 1 : rows[l].content = c.name => Lists(c, rows[l])
    BY <1>2, <2>1, <2>4, <2>5
  <2>7. Told(c, rows, k + 1)  BY <1>1, <1>2, <1>3, <2>4, <2>6 DEF Told
  <2> QED BY <2>1, <2>2, <2>4, <2>7
<1> QED BY <1>4, <1>5

LEMMA RowCovered ==
  ASSUME NEW rows \in Seq(NamedOffers), NEW k \in Nat, k + 1 \in DOMAIN rows,
         NEW contents, Covered(contents, rows, k), NEW next, next = WithRow(contents, rows[k + 1])
  PROVE  Covered(next, rows, k + 1)
<1>1. PICK row \in NamedOffers : row = rows[k + 1]  OBVIOUS
<1>2. /\ contents \in Seq(Contents) /\ Len(contents) \in Nat
      /\ DOMAIN contents = 1 .. Len(contents)
  BY DEF Covered
<1>3. k + 1 \in 1 .. k + 1 /\ \A l \in 1 .. k + 1 : l \in 1 .. k \/ l = k + 1  OBVIOUS
<1>4. /\ \A i, j \in DOMAIN contents : contents[i].name = contents[j].name => i = j
      /\ \A i \in DOMAIN contents : Told(contents[i], rows, k)
      /\ \A m \in 1 .. k : \E i \in DOMAIN contents : contents[i].name = rows[m].content
  BY DEF Covered
<1>5. CASE \E i \in DOMAIN contents : contents[i].name = row.content
  <2>1. next = [i \in DOMAIN contents |-> IF contents[i].name = row.content
                                          THEN WithVariant(contents[i], row) ELSE contents[i]]
    BY <1>1, <1>5 DEF WithRow
  <2>2. DOMAIN next = DOMAIN contents  BY <2>1
  <2>3. ASSUME NEW i \in DOMAIN contents
        PROVE  Told(next[i], rows, k + 1) /\ next[i].name = contents[i].name
    <3>1. Told(contents[i], rows, k)  BY <1>4
    <3>2. CASE contents[i].name = row.content
      <4>1. next[i] = WithVariant(contents[i], rows[k + 1])  BY <1>1, <2>1, <3>2
      <4> QED BY <1>1, <3>1, <3>2, <4>1, RowIsTold
    <3>3. CASE contents[i].name # row.content
      <4>1. next[i] = contents[i]  BY <2>1, <3>3
      <4> QED BY <1>1, <3>1, <3>3, <4>1, RowIsTold
    <3> QED BY <3>2, <3>3
  <2>4. next \in Seq(Contents)
    <3>1. \A i \in DOMAIN contents : next[i] \in Contents  BY <2>3 DEF Told, Whole
    <3>2. next \in [1 .. Len(contents) -> Contents]  BY <1>2, <2>1, <3>1
    <3> QED BY <1>2, <3>2
  <2>5. \A i, j \in DOMAIN next : next[i].name = next[j].name => i = j
    BY <1>4, <2>2, <2>3
  <2>6. \A m \in 1 .. k + 1 : \E i \in DOMAIN next : next[i].name = rows[m].content
    BY <1>1, <1>3, <1>4, <1>5, <2>2, <2>3
  <2> QED BY <2>2, <2>3, <2>4, <2>5, <2>6 DEF Covered
<1>6. CASE ~\E i \in DOMAIN contents : contents[i].name = row.content
  <2>1. PICK c : c = WithVariant([name |-> row.content, variants |-> <<>>], row)  OBVIOUS
  <2>2. Whole(c) /\ c.name = row.content /\ Lists(c, row) /\ Tile(c) = row
    BY <2>1, ContentBegins
  <2>3. next = Append(contents, c)  BY <1>1, <1>6, <2>1 DEF WithRow
  <2>4. c \in Contents  BY <2>2 DEF Whole
  <2>5. /\ next \in Seq(Contents) /\ DOMAIN next = 1 .. Len(contents) + 1
        /\ \A i \in DOMAIN contents : i \in DOMAIN next /\ next[i] = contents[i]
        /\ Len(contents) + 1 \in DOMAIN next /\ next[Len(contents) + 1] = c
        /\ \A i \in DOMAIN next : i \in DOMAIN contents \/ i = Len(contents) + 1
    BY <1>2, <2>3, <2>4, OneAppended
  <2>6. \A l \in 1 .. k : rows[l].content # row.content  BY <1>4, <1>6
  <2>7. Told(c, rows, k + 1)
    <3>1. \A l \in 1 .. k + 1 : rows[l].content = c.name => l = k + 1  BY <1>3, <2>2, <2>6
    <3>2. \A l \in 1 .. k + 1 : rows[l].content = c.name => k + 1 <= l  BY <3>1
    <3>3. \A l \in 1 .. k + 1 : rows[l].content = c.name => Lists(c, rows[l])
      BY <1>1, <2>2, <3>1
    <3>4. Tile(c) = rows[k + 1] /\ rows[k + 1].content = c.name  BY <1>1, <2>2
    <3> QED BY <1>3, <2>2, <3>2, <3>3, <3>4 DEF Told
  <2>8. \A i \in DOMAIN next : Told(next[i], rows, k + 1)
    <3>1. \A i \in DOMAIN contents : Told(contents[i], rows, k + 1)
      BY <1>1, <1>4, <1>6, RowIsTold
    <3> QED BY <2>5, <2>7, <3>1
  <2>9. \A i, j \in DOMAIN next : next[i].name = next[j].name => i = j
    BY <1>4, <1>6, <2>2, <2>5
  <2>10. ASSUME NEW m \in 1 .. k + 1
         PROVE  \E i \in DOMAIN next : next[i].name = rows[m].content
    <3>1. CASE m = k + 1  BY <1>1, <2>2, <2>5, <3>1
    <3>2. CASE m \in 1 .. k
      <4>1. PICK i \in DOMAIN contents : contents[i].name = rows[m].content  BY <1>4, <3>2
      <4> QED BY <2>5, <4>1
    <3> QED BY <1>3, <3>1, <3>2
  <2> QED BY <2>5, <2>8, <2>9, <2>10 DEF Covered
<1> QED BY <1>5, <1>6

LEMMA AggregatedCovers ==
  ASSUME NEW rows \in Seq(NamedOffers) PROVE Covered(Aggregated(rows), rows, Len(rows))
<1>1. PICK f : Steps(f, rows)  BY AggregatedInSteps
<1>2. Len(rows) \in Nat /\ DOMAIN rows = 1 .. Len(rows)  OBVIOUS
<1> DEFINE S == {k \in Nat : k <= Len(rows) => Covered(f[k], rows, k)}
<1>3. 0 \in S
  <2>1. f[0] = <<>> /\ <<>> \in Seq(Contents) /\ DOMAIN <<>> = {} /\ 1 .. 0 = {}
    BY <1>1 DEF Steps
  <2> QED BY <2>1 DEF Covered
<1>4. ASSUME NEW k \in Nat, k \in S PROVE k + 1 \in S
  <2> SUFFICES ASSUME k + 1 <= Len(rows) PROVE Covered(f[k + 1], rows, k + 1)
    OBVIOUS
  <2>1. k <= Len(rows) /\ k + 1 \in 1 .. Len(rows) /\ (k + 1) - 1 = k  BY <1>2
  <2>2. Covered(f[k], rows, k)  BY <1>4, <2>1
  <2>3. f[k + 1] = WithRow(f[k], rows[k + 1])  BY <1>1, <2>1 DEF Steps
  <2> QED BY <1>2, <2>1, <2>2, <2>3, RowCovered
<1> HIDE DEF S
<1>5. \A k \in Nat : k \in S  BY <1>3, <1>4, AllNumbers
<1>6. Covered(f[Len(rows)], rows, Len(rows))  BY <1>2, <1>5 DEF S
<1> QED BY <1>1, <1>6 DEF Steps

\* What TileIsFirstSource says of one answer and the rows it was made of.
Shown(contents, rows) ==
  /\ {contents[i].name : i \in DOMAIN contents} = {row.content : row \in rows}
  /\ \A i, j \in DOMAIN contents : contents[i].name = contents[j].name => i = j
  /\ \A i \in DOMAIN contents : \A row \in rows :
       row.content = contents[i].name =>
         /\ Rank(Tile(contents[i]).source) <= Rank(row.source)
         /\ Lists(contents[i], row)

\* Of sorted rows the tile is of the first source, and every row is listed.
LEMMA TilesOfRows ==
  ASSUME NEW q \in Seq(NamedOffers), Sorted(q), NEW contents, contents = Aggregated(q)
  PROVE  Shown(contents, ToSet(q))
<1>3. Len(q) \in Nat /\ DOMAIN q = 1 .. Len(q)  OBVIOUS
<1>4. Covered(contents, q, Len(q))  BY AggregatedCovers
<1>5. \A i \in DOMAIN contents : \E m \in DOMAIN q : q[m].content = contents[i].name
  BY <1>3, <1>4 DEF Covered, Told
<1>6. \A m \in DOMAIN q : \E i \in DOMAIN contents : contents[i].name = q[m].content
  BY <1>3, <1>4 DEF Covered
<1>7. {contents[i].name : i \in DOMAIN contents} = {row.content : row \in ToSet(q)}
  <2>1. ASSUME NEW i \in DOMAIN contents
        PROVE  contents[i].name \in {row.content : row \in ToSet(q)}
    <3>1. PICK m \in DOMAIN q : q[m].content = contents[i].name  BY <1>5
    <3>2. q[m] \in ToSet(q)  BY DEF ToSet
    <3> QED BY <3>1, <3>2
  <2>2. ASSUME NEW row \in ToSet(q)
        PROVE  row.content \in {contents[i].name : i \in DOMAIN contents}
    <3>1. PICK m \in DOMAIN q : q[m] = row  BY DEF ToSet
    <3>2. PICK i \in DOMAIN contents : contents[i].name = q[m].content  BY <1>6
    <3> QED BY <3>1, <3>2
  <2> QED BY <2>1, <2>2
<1>8. ASSUME NEW i \in DOMAIN contents, NEW row \in ToSet(q), row.content = contents[i].name
      PROVE  Rank(Tile(contents[i]).source) <= Rank(row.source) /\ Lists(contents[i], row)
  <2>1. PICK l \in DOMAIN q : q[l] = row  BY DEF ToSet
  <2>2. PICK content : content = contents[i]  OBVIOUS
  <2>3. Told(content, q, Len(q))  BY <1>4, <2>2 DEF Covered
  <2>4. PICK m \in 1 .. Len(q) :
          /\ Tile(content) = q[m]
          /\ \A k \in 1 .. Len(q) : q[k].content = content.name => m <= k
    BY <2>3 DEF Told
  <2>5. m <= l  BY <1>3, <1>8, <2>1, <2>2, <2>4
  <2>6. Rank(q[m].source) <= Rank(q[l].source)  BY <1>3, <2>5 DEF Sorted
  <2>7. Lists(content, q[l])  BY <1>3, <1>8, <2>1, <2>2, <2>3 DEF Told
  <2> QED BY <2>1, <2>2, <2>4, <2>6, <2>7
<1>9. \A i, j \in DOMAIN contents : contents[i].name = contents[j].name => i = j
  BY <1>4 DEF Covered
<1> QED BY <1>7, <1>8, <1>9 DEF Shown

-----------------------------------------------------------------------------
(* What a search has collected, at every step.                             *)

Collected(s) ==
  /\ InPlace(s)
  /\ s.phase \in {"search", "label", "answered"} => DOMAIN s.adapters = DOMAIN Adapters
  /\ s.phase \in {"label", "answered"} => s.rows = Distinct(Established(s))
CollectedInv == \A t \in Threads : Collected(search[t])

\* Nothing is collected any more, and the phase is the same or the last.
SameRows(r, s) ==
  /\ r.site = s.site /\ r.legacy = s.legacy /\ r.custom = s.custom
  /\ r.adapters = s.adapters /\ r.rows = s.rows
  /\ r.phase = s.phase \/ (s.phase = "label" /\ r.phase = "answered")

LEMMA CollectedStays ==
  ASSUME NEW s, NEW r, Collected(s), SameRows(r, s) PROVE Collected(r)
<1>1. InPlace(r)  BY DEF Collected, SameRows, InPlace
<1>2. Established(r) = Established(s)  BY DEF SameRows, Established
<1>3. /\ r.phase \in {"search", "label", "answered"} => s.phase \in {"search", "label", "answered"}
      /\ r.phase \in {"label", "answered"} => s.phase \in {"label", "answered"}
  BY DEF SameRows
<1>4. r.adapters = s.adapters /\ r.rows = s.rows  BY DEF SameRows
<1> QED BY <1>1, <1>2, <1>3, <1>4 DEF Collected

LEMMA OneCollected ==
  ASSUME SearchInv, CollectedInv, NEW t \in Threads, NEW r, Collected(r),
         search' = [search EXCEPT ![t] = r]
  PROVE  CollectedInv'
<1>1. search \in [Threads -> SearchRecord]  BY DEF SearchInv
<1>2. \A u \in Threads : search'[u] = IF u = t THEN r ELSE search[u]  BY <1>1
<1>3. \A u \in Threads : Collected(search'[u])  BY <1>2 DEF CollectedInv
<1> QED BY <1>3 DEF CollectedInv

LEMMA NothingCollected ==
  ASSUME NEW s, s.site = 1, s.legacy = <<>>, s.custom = <<>>,
         DOMAIN s.adapters \subseteq DOMAIN Adapters,
         \A i \in DOMAIN s.adapters : s.adapters[i] = <<>>
  PROVE  InPlace(s)
<1>1. DOMAIN <<>> = {}  OBVIOUS
<1>2. s.site - 1 <= Len(Sites)  BY Ranks
<1>3. Sorted(s.legacy)  BY <1>1 DEF Sorted
<1> QED BY <1>1, <1>2, <1>3 DEF InPlace

LEMMA AskSiteCollects ==
  ASSUME SearchInv, CollectedInv, NEW t \in Threads, AskSite(t) PROVE CollectedInv'
<1>0. PICK s \in SearchRecord : s = search[t]  BY SearchFacts
<1>1. /\ s.phase = "search" /\ s.site <= Len(Sites) /\ s.site \in Nat \ {0}
      /\ s.legacy \in Seq(Offers) /\ InPlace(s) /\ DOMAIN s.adapters = DOMAIN Adapters
  BY <1>0, SearchFacts DEF AskSite, CollectedInv, Collected
<1>2. PICK site \in Nat : site = s.site /\ site \in DOMAIN Sites /\ site # 0
  BY <1>1, Ranks
<1>3. \A i \in DOMAIN s.legacy : /\ Rank(s.legacy[i].source) \in Nat
                                 /\ Rank(s.legacy[i].source) < site
  BY <1>1, <1>2 DEF InPlace
<1>4. ASSUME NEW legacy, NEW errors, Sorted(legacy),
             \A i \in DOMAIN legacy : /\ Rank(legacy[i].source) \in Nat
                                      /\ Rank(legacy[i].source) < site + 1,
             NEW r, r = [s EXCEPT !.site = site + 1, !.legacy = legacy, !.errors = errors]
      PROVE  Collected(r)
  <2>1. /\ r.site = site + 1 /\ r.legacy = legacy /\ r.custom = s.custom
        /\ r.adapters = s.adapters /\ r.phase = "search"
    BY <1>1, <1>4 DEF SearchRecord
  <2>2. r.site - 1 <= Len(Sites)  BY <1>1, <1>2, <2>1
  <2>3. InPlace(r)  BY <1>1, <1>4, <2>1, <2>2 DEF InPlace
  <2> QED BY <1>1, <2>1, <2>3 DEF Collected
<1>5. CASE search' = [search EXCEPT ![t].site = @ + 1, ![t].errors = TRUE]
  <2>1. PICK r : r = [s EXCEPT !.site = site + 1, !.legacy = s.legacy, !.errors = TRUE]
    OBVIOUS
  <2>2. search' = [search EXCEPT ![t] = r]
    <3>1. r = [s EXCEPT !.site = site + 1, !.errors = TRUE]  BY <2>1 DEF SearchRecord
    <3> QED BY <1>0, <1>2, <1>5, <3>1 DEF SearchInv, SearchRecord
  <2>3. \A i \in DOMAIN s.legacy : Rank(s.legacy[i].source) < site + 1  BY <1>3
  <2>4. Sorted(s.legacy)  BY <1>1 DEF InPlace
  <2>5. Collected(r)  BY <1>3, <1>4, <2>1, <2>3, <2>4
  <2> QED BY <2>2, <2>5, OneCollected
<1>6. ASSUME NEW rows \in RowsOf[Sites[s.site]],
             search' = [search EXCEPT ![t].site = @ + 1, ![t].legacy = @ \o rows]
      PROVE  CollectedInv'
  <2>1. Sites[site] \in Sources  BY <1>2 DEF Sources, ToSet
  <2>2. rows \in Seq(Offers)  BY <1>2, <1>6, <2>1, OfferedRows DEF OfferRows
  <2>3. \A k \in DOMAIN rows : rows[k].source = Sites[site]
    <3>1. \A k \in DOMAIN rows : rows[k] \in ToSet(rows)  BY DEF ToSet
    <3> QED BY <1>2, <1>6, <2>1, <3>1, SourceOfOffer
  <2>4. \A k \in DOMAIN rows : Rank(rows[k].source) = site  BY <1>2, <2>3, Ranks
  <2>5. Sorted(rows) /\ Within(rows, site, site)  BY <2>4 DEF Sorted, Within
  <2>6. Sorted(s.legacy) /\ Within(s.legacy, 0, site - 1)
    <3>1. ASSUME NEW i \in DOMAIN s.legacy
          PROVE  0 <= Rank(s.legacy[i].source) /\ Rank(s.legacy[i].source) <= site - 1
      BY <1>3
    <3> QED BY <1>1, <1>3, <3>1 DEF InPlace, Within
  <2>7. PICK q \in Seq(Offers) : q = s.legacy  BY <1>1
  <2>8. site - 1 \in Nat /\ site - 1 <= site /\ 0 <= site /\ site <= site  BY <1>2
  <2>9. Sorted(q \o rows) /\ Within(q \o rows, 0, site)
    BY <2>2, <2>5, <2>6, <2>7, <2>8, SortedJoined
  <2>10. PICK legacy : legacy = q \o rows  OBVIOUS
  <2>11. ASSUME NEW i \in DOMAIN legacy
         PROVE  Rank(legacy[i].source) \in Nat /\ Rank(legacy[i].source) < site + 1
    BY <2>9, <2>10 DEF Within
  <2>12. PICK r : r = [s EXCEPT !.site = site + 1, !.legacy = legacy, !.errors = s.errors]
    OBVIOUS
  <2>13. Collected(r)  BY <1>4, <2>9, <2>10, <2>11, <2>12
  <2>14. search' = [search EXCEPT ![t] = r]
    <3>1. r = [s EXCEPT !.site = site + 1, !.legacy = legacy]  BY <2>12 DEF SearchRecord
    <3> QED BY <1>0, <1>2, <1>6, <2>7, <2>10, <3>1 DEF SearchInv, SearchRecord
  <2> QED BY <2>13, <2>14, OneCollected
<1> QED BY <1>0, <1>5, <1>6 DEF AskSite

LEMMA CustomCollects ==
  ASSUME SearchInv, CollectedInv, NEW t \in Threads, NEW c \in Customs, CustomAnswers(t, c)
  PROVE  CollectedInv'
<1>0. PICK s \in SearchRecord : s = search[t]  BY SearchFacts
<1>1. /\ s.phase = "search" /\ s.custom \in Seq(Offers) /\ InPlace(s)
      /\ DOMAIN s.adapters = DOMAIN Adapters
  BY <1>0, SearchFacts DEF CustomAnswers, CollectedInv, Collected
<1>2. PICK rows \in RowsOf[c] :
        search' = [search EXCEPT ![t].customs = @ \ {c}, ![t].custom = @ \o rows]
  BY DEF CustomAnswers
<1>3. c \in Sources  BY DEF Sources
<1>4. rows \in Seq(Offers)  BY <1>2, <1>3, OfferedRows DEF OfferRows
<1>5. \A k \in DOMAIN rows : rows[k].source \in Customs
  <2>1. \A k \in DOMAIN rows : rows[k] \in ToSet(rows)  BY DEF ToSet
  <2> QED BY <1>2, <1>3, <2>1, SourceOfOffer
<1>6. PICK q \in Seq(Offers) : q = s.custom  BY <1>1
<1>7. PICK custom : custom = q \o rows  OBVIOUS
<1>8. \A i \in DOMAIN custom : custom[i].source \in Customs
  <2>1. \A i \in DOMAIN q : q[i].source \in Customs  BY <1>1, <1>6 DEF InPlace
  <2>2. \A i \in DOMAIN custom : custom[i] \in {q[j] : j \in DOMAIN q} \cup {rows[j] : j \in DOMAIN rows}
    BY <1>4, <1>7
  <2> QED BY <1>5, <2>1, <2>2
<1>9. PICK r : r = [s EXCEPT !.customs = s.customs \ {c}, !.custom = custom]  OBVIOUS
<1>10. /\ r.site = s.site /\ r.legacy = s.legacy /\ r.custom = custom
       /\ r.adapters = s.adapters /\ r.phase = "search"
  BY <1>1, <1>9 DEF SearchRecord
<1>11. Collected(r)  BY <1>1, <1>8, <1>10 DEF InPlace, Collected
<1>12. search' = [search EXCEPT ![t] = r]
  BY <1>0, <1>2, <1>6, <1>7, <1>9 DEF SearchInv, SearchRecord
<1> QED BY <1>11, <1>12, OneCollected

LEMMA AdapterCollects ==
  ASSUME SearchInv, CollectedInv, NEW t \in Threads, NEW i \in DOMAIN Adapters,
         AdapterAnswers(t, i)
  PROVE  CollectedInv'
<1>0. PICK s \in SearchRecord : s = search[t]  BY SearchFacts
<1>1. s.phase = "search"
  BY <1>0, SearchFacts DEF AdapterAnswers, Stages
<1>2. InPlace(s) /\ DOMAIN s.adapters = DOMAIN Adapters
  BY <1>0, <1>1 DEF CollectedInv, Collected
<1>3. PICK rows \in RowsOf[Adapters[i]] :
        search' = [search EXCEPT ![t].asked = @ \ {i}, ![t].adapters[i] = rows]
  BY DEF AdapterAnswers
<1>4. \A k \in DOMAIN rows : rows[k].source = Adapters[i]
  <2>1. Adapters[i] \in Sources  BY DEF Sources, ToSet
  <2>2. \A k \in DOMAIN rows : rows[k] \in ToSet(rows)  BY DEF ToSet
  <2> QED BY <1>3, <2>1, <2>2, SourceOfOffer
<1>5. PICK adapters : adapters = [s.adapters EXCEPT ![i] = rows]  OBVIOUS
<1>6. /\ DOMAIN adapters = DOMAIN Adapters
      /\ \A j \in DOMAIN adapters : adapters[j] = IF j = i THEN rows ELSE s.adapters[j]
  BY <1>2, <1>5
<1>7. \A j \in DOMAIN adapters : \A k \in DOMAIN adapters[j] :
        adapters[j][k].source = Adapters[j]
  BY <1>2, <1>4, <1>6 DEF InPlace
<1>8. PICK r : r = [s EXCEPT !.asked = s.asked \ {i}, !.adapters = adapters]  OBVIOUS
<1>9. /\ r.site = s.site /\ r.legacy = s.legacy /\ r.custom = s.custom
      /\ r.adapters = adapters /\ r.phase = "search"
  BY <1>1, <1>8 DEF SearchRecord
<1>10. InPlace(r)  BY <1>2, <1>6, <1>7, <1>9 DEF InPlace
<1>11. Collected(r)  BY <1>6, <1>9, <1>10 DEF Collected
<1>12. search' = [search EXCEPT ![t] = r]
  BY <1>0, <1>3, <1>5, <1>8 DEF SearchInv, SearchRecord
<1> QED BY <1>11, <1>12, OneCollected

LEMMA BeginningCollects ==
  ASSUME SearchInv, CollectedInv, NEW t \in Threads,
         StartSearch(t) \/ SearchFails(t) \/ Retry(t)
  PROVE  CollectedInv'
<1>0. /\ NoSearch.site = 1 /\ NoSearch.legacy = <<>> /\ NoSearch.custom = <<>>
      /\ NoSearch.adapters = <<>> /\ DOMAIN <<>> = {}
  BY DEF NoSearch
<1>1. CASE StartSearch(t) \/ Retry(t)
  <2>1. PICK retried \in BOOLEAN : search' = [search EXCEPT ![t] = Parts(retried)]
    BY <1>1 DEF StartSearch, Retry
  <2>2. PICK r : r = Parts(retried)  OBVIOUS
  <2>3. /\ r.site = 1 /\ r.legacy = <<>> /\ r.custom = <<>> /\ r.phase = "search"
        /\ r.adapters = [i \in DOMAIN Adapters |-> <<>>]
    BY <2>2 DEF Parts, NoSearch
  <2>4. InPlace(r)  BY <2>3, NothingCollected
  <2>5. Collected(r)  BY <2>3, <2>4 DEF Collected
  <2> QED BY <2>1, <2>2, <2>5, OneCollected
<1>2. CASE SearchFails(t)
  <2>1. PICK r : r = [NoSearch EXCEPT !.phase = "failed"]  OBVIOUS
  <2>2. /\ r.site = 1 /\ r.legacy = <<>> /\ r.custom = <<>> /\ r.adapters = <<>>
        /\ r.phase = "failed"
    BY <2>1 DEF NoSearch
  <2>3. InPlace(r)  BY <1>0, <2>2, NothingCollected
  <2>4. Collected(r)  BY <2>2, <2>3 DEF Collected
  <2>5. search' = [search EXCEPT ![t] = r]  BY <1>2, <2>1 DEF SearchFails
  <2> QED BY <2>4, <2>5, OneCollected
<1> QED BY <1>1, <1>2

LEMMA MergingCollects ==
  ASSUME SearchInv, CollectedInv, NEW t \in Threads, MergeParts(t) PROVE CollectedInv'
<1>0. PICK s \in SearchRecord : s = search[t]  BY SearchFacts
<1>1. /\ s.phase = "search" /\ Collected(s)
      /\ search' = [search EXCEPT ![t].phase = "label", ![t].retried = FALSE, ![t].age = 0,
                              ![t].errors = FALSE, ![t].rows = MergedRows(s)]
  BY <1>0 DEF MergeParts, PartsDone, CollectedInv
<1>2. PICK rows : rows = MergedRows(s)  OBVIOUS
<1>3. PICK r : r = [s EXCEPT !.phase = "label", !.retried = FALSE, !.age = 0,
                             !.errors = FALSE, !.rows = rows]
  OBVIOUS
<1>4. /\ r.site = s.site /\ r.legacy = s.legacy /\ r.custom = s.custom
      /\ r.adapters = s.adapters /\ r.phase = "label" /\ r.rows = rows
  BY <1>3 DEF SearchRecord
<1>5. InPlace(r)  BY <1>1, <1>4 DEF Collected, InPlace
<1>6. r.rows = Distinct(Established(r))
  <2>1. Established(r) = Established(s)  BY <1>4 DEF Established
  <2>2. MergedRows(s) = Distinct(Established(s))  BY MergedAre
  <2> QED BY <1>2, <1>4, <2>1, <2>2
<1>7. Collected(r)  BY <1>1, <1>4, <1>5, <1>6 DEF Collected
<1>8. search' = [search EXCEPT ![t] = r]
  BY <1>0, <1>1, <1>2, <1>3 DEF SearchInv, SearchRecord
<1> QED BY <1>7, <1>8, OneCollected

LEMMA OtherStepsCollectNothing ==
  ASSUME SearchInv, CollectedInv, NEW t \in Threads,
         \/ AdaptersTimeOut(t) \/ UseIndex(t) \/ SkipIndex(t) \/ AskIndex(t)
         \/ IndexArrives(t) \/ IndexFails(t) \/ AnswerSearch(t)
  PROVE  CollectedInv'
<1>0. PICK s \in SearchRecord : s = search[t]  BY SearchFacts
<1>1. search \in [Threads -> SearchRecord] /\ Collected(s)  BY <1>0 DEF SearchInv, CollectedInv
<1>2. ASSUME NEW r, r = search'[t], SameRows(r, s), search' = [search EXCEPT ![t] = r]
      PROVE  CollectedInv'
  BY <1>1, <1>2, CollectedStays, OneCollected
<1>3. \/ search' = [search EXCEPT ![t].asked = {}]
      \/ \E library, age, wait :
           search' = [search EXCEPT ![t] = LookedUp(s, library, age, wait)]
      \/ search' = [search EXCEPT ![t].asking = 0]
      \/ /\ s.phase = "label"
         /\ search' = [search EXCEPT ![t].phase = "answered", ![t].seen = 0, ![t].waited = 0]
  <2>1. CASE UseIndex(t) \/ SkipIndex(t) \/ IndexFails(t)
    BY <1>0, <2>1 DEF UseIndex, SkipIndex, IndexFails
  <2>2. CASE IndexArrives(t)
    BY <1>0, <2>2 DEF IndexArrives
  <2>3. CASE AdaptersTimeOut(t) \/ AskIndex(t) \/ AnswerSearch(t)
    BY <1>0, <2>3 DEF AdaptersTimeOut, AskIndex, AnswerSearch
  <2> QED BY <2>1, <2>2, <2>3
<1>4. SameRows(search'[t], s)
  <2>1. ASSUME NEW r, NEW library, NEW age, NEW wait, r = LookedUp(s, library, age, wait)
        PROVE  SameRows(r, s)
    BY <2>1 DEF LookedUp, SameRows, SearchRecord
  <2> QED BY <1>0, <1>1, <1>3, <2>1 DEF SameRows, SearchRecord
<1>5. search' = [search EXCEPT ![t] = search'[t]]  BY <1>1, <1>3
<1> QED BY <1>2, <1>4, <1>5

LEMMA TickCollectsNothing ==
  ASSUME SearchInv, CollectedInv, Tick PROVE CollectedInv'
<1>1. ASSUME NEW t \in Threads PROVE Collected(search'[t])
  <2>1. PICK s \in SearchRecord : s = search[t]  BY SearchFacts
  <2>2. Collected(s)  BY <2>1 DEF CollectedInv
  <2>3. PICK age, asking : search'[t] = [s EXCEPT !.age = age, !.asking = asking]
    BY <2>1 DEF Tick, SearchRecord
  <2>4. SameRows(search'[t], s)  BY <2>3 DEF SameRows, SearchRecord
  <2> QED BY <2>2, <2>4, CollectedStays
<1> QED BY <1>1 DEF CollectedInv

LEMMA CollectedInvariant == Spec => [](SearchInv /\ CollectedInv)
<1>1. Init => CollectedInv
  <2> SUFFICES ASSUME Init, NEW t \in Threads PROVE Collected(search[t])
    BY DEF CollectedInv
  <2>1. search[t] = NoSearch  BY DEF Init, SearchInit
  <2>2. /\ NoSearch.site = 1 /\ NoSearch.legacy = <<>> /\ NoSearch.custom = <<>>
        /\ NoSearch.adapters = <<>> /\ DOMAIN <<>> = {} /\ NoSearch.phase = "idle"
    BY DEF NoSearch
  <2>3. InPlace(NoSearch)  BY <2>2, NothingCollected
  <2> QED BY <2>1, <2>2, <2>3 DEF Collected
<1>2. SearchInv /\ CollectedInv /\ [Next]_vars => CollectedInv'
  <2> SUFFICES ASSUME SearchInv, CollectedInv, [Next]_vars PROVE CollectedInv'  OBVIOUS
  <2>1. CASE UNCHANGED searchVars  BY <2>1 DEF searchVars, CollectedInv
  <2>2. ASSUME NEW t \in Threads, SearchProgress(t) PROVE CollectedInv'
    BY <2>2, AskSiteCollects, CustomCollects, BeginningCollects, MergingCollects,
       OtherStepsCollectNothing
       DEF SearchProgress
  <2>3. CASE SearchUsers
    <3>1. CASE RefreshLibrary  BY <3>1 DEF RefreshLibrary, CollectedInv
    <3> QED BY <2>3, <3>1, BeginningCollects, AdapterCollects DEF SearchUsers
  <2>4. \/ UNCHANGED searchVars \/ SearchUsers \/ Tick \/ \E t \in Threads : SearchProgress(t)
    BY DEF Next, vars, Searching, Finding, SettingUp, Resolving
  <2> QED BY <2>1, <2>2, <2>3, <2>4, TickCollectsNothing
<1>3. SearchInv /\ [Next]_vars => SearchInv'  BY SearchKept
<1>4. Init => SearchInv  BY SearchInitially DEF Init
<1> QED BY <1>1, <1>2, <1>3, <1>4, PTL DEF Spec

FoundRows(s) == ToSet(s.legacy) \cup ToSet(s.custom)
                  \cup UNION {ToSet(s.adapters[i]) : i \in DOMAIN Adapters}

\* Whichever sites, authorized sources and adapters answer, in whatever order
\* and with whatever rows, and whatever the library says of each row or fails to
\* say: no row is lost, an answer has one tile for each identity its rows were
\* given, the tile is of the first source in the established order that has a
\* row of it, and every row is listed there (search_all_configured_sources,
\* candidates_with_posters, aggregate_candidates).
THEOREM TilesAreOfTheFirstSource == Spec => []TileIsFirstSource
<1>1. SearchInv /\ CollectedInv => TileIsFirstSource
  <2> SUFFICES ASSUME SearchInv, CollectedInv, NEW t \in Threads, search[t].phase = "answered"
               PROVE  /\ ToSet(search[t].rows) = FoundRows(search[t])
                      /\ Shown(Aggregated(Identified(search[t])),
                               ToSet(Identified(search[t])))
    BY DEF TileIsFirstSource, Shown, FoundRows, Lists
  <2>1. PICK s \in SearchRecord : s = search[t]  BY SearchFacts
  <2>2. /\ InPlace(s) /\ DOMAIN s.adapters = DOMAIN Adapters
        /\ s.rows = Distinct(Established(s))
    BY <2>1 DEF CollectedInv, Collected
  <2>3. PICK q \in Seq(Offers) :
          /\ q = Established(s) /\ Sorted(q)
          /\ ToSet(q) = ToSet(s.legacy) \cup ToSet(s.custom)
               \cup UNION {ToSet(s.adapters[i]) : i \in DOMAIN s.adapters}
    BY <2>2, EstablishedIsSorted
  <2>4. FoundRows(s) = ToSet(q)  BY <2>2, <2>3 DEF FoundRows
  <2>5. PICK rows \in Seq(Offers) : rows = s.rows  BY <2>1, SearchFacts
  <2>6. Sorted(rows) /\ ToSet(rows) = ToSet(q)  BY <2>2, <2>3, <2>5, DistinctIsSorted
  <2>7. s.names \in Seq(Identities) /\ Len(s.names) = Len(s.rows)
    BY <2>1, SearchFacts DEF Stages
  <2>8. PICK named : named = Identified(s)  OBVIOUS
  <2>9. /\ named \in Seq(NamedOffers) /\ DOMAIN named = DOMAIN rows
        /\ \A i \in DOMAIN named : named[i].source = rows[i].source
    BY <2>5, <2>7, <2>8, IdentifiedRows
  <2>10. Sorted(named)  BY <2>6, <2>9 DEF Sorted
  <2>11. PICK contents : contents = Aggregated(named)  OBVIOUS
  <2>12. Shown(contents, ToSet(named))  BY <2>9, <2>10, <2>11, TilesOfRows
  <2> QED BY <2>1, <2>4, <2>5, <2>6, <2>8, <2>11, <2>12
<1> QED BY <1>1, CollectedInvariant, PTL
=============================================================================
