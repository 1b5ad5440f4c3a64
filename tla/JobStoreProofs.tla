--------------------------- MODULE JobStoreProofs ---------------------------
(***************************************************************************)
(* Proofs about the job store: its properties hold for any number of jobs, *)
(* fingerprints and subscribers, any expiry times and any queue bound.     *)
(*                                                                         *)
(* The properties of JobStore are not inductive.  KeysWellFormed is what   *)
(* they need: which keys exist, and what a key that exists refers to.      *)
(***************************************************************************)
EXTENDS JobStore, SequenceTheorems, WellFoundedInduction, TLAPS

\* A stored job has an expiry time and was issued; an absent one left nothing
\* behind; a cancelled one has no subscriber.
JobsWellFormed ==
  \A j \in Jobs :
    /\ Exists(j) => /\ j \in issued
                    /\ job[j].fingerprint \in Fingerprints
                    /\ job[j].ttl > 0
    /\ ~Exists(j) => job[j] = AbsentJob
    /\ job[j].state = "cancelled" => job[j].subscribers = {}

\* A key that exists has an expiry time and names an issued job.
Valid(p) == p = NoPointer \/ (p.job \in issued /\ p.ttl > 0)

\* The two kinds of key that name jobs name jobs of their own fingerprint.
PointersWellFormed ==
  /\ \A f \in Fingerprints :
       /\ Valid(coalesce[f])
       /\ Exists(coalesce[f].job) => job[coalesce[f].job].fingerprint = f
  /\ \A f \in Fingerprints, k \in Subscribers : Valid(idempotency[f][k])

KeysWellFormed == JobsWellFormed /\ PointersWellFormed

\* The inductive invariant.
StoreInv ==
  /\ StoreTypeOK
  /\ KeysWellFormed
  /\ CoalesceKeyGuardsJob
  /\ LiveJobHasSubscriber
  /\ SubscriptionsAgree
  /\ CancelFlagAgrees

-----------------------------------------------------------------------------
(* The lists.                                                              *)

LEMMA LeastNatural ==
  ASSUME NEW I \in SUBSET Nat, I # {}
  PROVE  Min(I) \in I
<1>1. PICK m \in I : \A n \in I : ~(<<n, m>> \in OpToRel(<, Nat))
  BY NatLessThanWellFounded, WFMin
<1>2. ASSUME NEW n \in I
      PROVE  m <= n
  <2>1. ~(<<n, m>> \in OpToRel(<, Nat))
    BY <1>1
  <2>2. n \in Nat /\ m \in Nat
    BY <1>2
  <2> QED BY <2>1, <2>2, SMT DEF OpToRel
<1> QED BY <1>2 DEF Min

\* RemoveFirst, which Ack is, takes one element out and invents none.
LEMMA RemoveFirstInSeq ==
  ASSUME NEW S, NEW s \in Seq(S), NEW e
  PROVE  RemoveFirst(s, e) \in Seq(S)
<1>1. CASE ~\E i \in 1 .. Len(s) : s[i] = e
  BY <1>1 DEF RemoveFirst
<1>2. CASE \E i \in 1 .. Len(s) : s[i] = e
  <2> DEFINE n == Min({i \in 1 .. Len(s) : s[i] = e})
  <2>1. n \in 1 .. Len(s)
    BY <1>2, LeastNatural
  <2>2. RemoveFirst(s, e) = SubSeq(s, 1, n - 1) \o SubSeq(s, n + 1, Len(s))
    BY <1>2 DEF RemoveFirst, RemoveAt, SelectInSeq
  <2> HIDE DEF n
  <2>3. SubSeq(s, 1, n - 1) \in Seq(S)
    BY <2>1, SubSeqProperties
  <2>4. SubSeq(s, n + 1, Len(s)) \in Seq(S)
    BY <2>1, SubSeqProperties
  <2> QED BY <2>2, <2>3, <2>4, ConcatProperties
<1> QED BY <1>1, <1>2

\* EXPIRE of a key that names a job.
LEMMA PointerUpdate ==
  ASSUME NEW p \in Pointer, NEW n \in 0 .. JobTTL, NEW q,
         q = [p EXCEPT !.ttl = n]
  PROVE  q \in Pointer /\ q.job = p.job /\ q.ttl = n
BY DEF Pointer

-----------------------------------------------------------------------------
(* createOrJoinScript.                                                     *)

LEMMA JoinInv ==
  ASSUME StoreInv, NEW f \in Fingerprints, NEW k \in Subscribers, Join(f, k)
  PROVE  StoreInv'
<1> DEFINE j == coalesce[f].job
           r == JoinedBy(j, k)
           p == [coalesce[f] EXCEPT !.ttl = JobTTL]
<1>1. /\ j \in Jobs /\ job[j].state \in LiveStates
      /\ job[j].fingerprint = f
      /\ j \in issued
  BY DEF StoreInv, KeysWellFormed, JobsWellFormed, PointersWellFormed, Join,
         Joinable, Live, Exists, LiveStates
<1>2. /\ r \in JobRecord
      /\ r.state = job[j].state
      /\ r.fingerprint = f
      /\ r.subscribers = job[j].subscribers \cup {k}
      /\ r.ttl = JobTTL
  <2>1. /\ job[j] \in JobRecord
        /\ job[j].subscribers \cup {k} \in SUBSET Subscribers
        /\ JobTTL \in 0 .. JobTTL
    BY <1>1, StoreAssumption DEF StoreInv, StoreTypeOK, JobRecord
  <2>2. r = [job[j] EXCEPT !.subscribers = job[j].subscribers \cup {k},
                           !.ttl = JobTTL]
    BY DEF JoinedBy
  <2> HIDE DEF r
  <2>3. /\ r \in JobRecord
        /\ r.subscribers = job[j].subscribers \cup {k}
        /\ r.state = job[j].state /\ r.ttl = JobTTL
        /\ r.fingerprint = job[j].fingerprint
    BY <2>1, <2>2 DEF JobRecord
  <2> QED BY <1>1, <2>3
<1>3. /\ p \in Pointer
      /\ p.job = j
      /\ p.ttl = JobTTL
  <2>1. coalesce[f] \in Pointer /\ JobTTL \in 0 .. JobTTL
    BY StoreAssumption DEF StoreInv, StoreTypeOK
  <2> QED BY <2>1, PointerUpdate
<1>4. /\ job' = [job EXCEPT ![j] = r]
      /\ coalesce' = [coalesce EXCEPT ![f] = p]
      /\ idempotency' = [idempotency EXCEPT ![f][k] = PointerTo(j)]
      /\ UNCHANGED <<cancel, queue, processing, issued, lateLeaves>>
  BY DEF Join
<1> HIDE DEF j, r, p
<1>5. PointerTo(j) \in Pointer /\ PointerTo(j).job = j /\ PointerTo(j).ttl > 0
  BY <1>1, StoreAssumption DEF PointerTo, Pointer
<1>6. StoreTypeOK'
  BY <1>1, <1>2, <1>3, <1>4, <1>5 DEF StoreInv, StoreTypeOK
<1>7. /\ job'[j] = r
      /\ \A i \in Jobs : i # j => job'[i] = job[i]
      /\ coalesce'[f] = p
      /\ \A g \in Fingerprints : g # f => coalesce'[g] = coalesce[g]
      /\ idempotency'[f][k] = PointerTo(j)
      /\ \A g \in Fingerprints, m \in Subscribers :
           g # f \/ m # k => idempotency'[g][m] = idempotency[g][m]
  BY <1>1, <1>4 DEF StoreInv, StoreTypeOK
<1>8. JobsWellFormed'
  BY <1>1, <1>2, <1>4, <1>7, StoreAssumption
     DEF StoreInv, KeysWellFormed, JobsWellFormed, Exists, LiveStates
<1>9. PointersWellFormed'
  BY <1>1, <1>2, <1>3, <1>4, <1>5, <1>7, StoreAssumption
     DEF StoreInv, KeysWellFormed, PointersWellFormed, Valid, Exists
<1>10. CoalesceKeyGuardsJob'
  BY <1>1, <1>2, <1>3, <1>4, <1>7, StoreAssumption
     DEF StoreInv, CoalesceKeyGuardsJob, KeysWellFormed, JobsWellFormed,
         Exists, Terminal, Live, LiveStates, TerminalStates
<1>11. LiveJobHasSubscriber'
  BY <1>1, <1>2, <1>7 DEF StoreInv, LiveJobHasSubscriber, Live
<1>12. SubscriptionsAgree'
  BY <1>1, <1>2, <1>4, <1>5, <1>7
     DEF StoreInv, SubscriptionsAgree, CoalesceKeyGuardsJob, Exists, Live
<1>13. CancelFlagAgrees'
  BY <1>1, <1>2, <1>4, <1>7 DEF StoreInv, CancelFlagAgrees, LiveStates
<1> QED
  BY <1>6, <1>8, <1>9, <1>10, <1>11, <1>12, <1>13
     DEF StoreInv, KeysWellFormed

LEMMA CreateInv ==
  ASSUME StoreInv, NEW f \in Fingerprints, NEW k \in Subscribers,
         NEW j \in Jobs, Create(f, k, j)
  PROVE  StoreInv'
<1> DEFINE r == [state |-> "queued", fingerprint |-> f, subscribers |-> {k},
                 ttl |-> JobTTL]
           p == PointerTo(j)
<1>1. /\ ~Exists(j)
      /\ cancel[j] = 0
      /\ \A g \in Fingerprints : coalesce[g].job # j
      /\ \A g \in Fingerprints, m \in Subscribers : idempotency[g][m].job # j
  BY StoreAssumption
     DEF StoreInv, KeysWellFormed, JobsWellFormed, PointersWellFormed, Valid,
         NoPointer, Create, CancelFlagAgrees, Exists, AbsentJob
<1>2. ASSUME NEW i \in Jobs, Live(i), job[i].fingerprint = f
      PROVE  f \in lateLeaves
  BY <1>2 DEF StoreInv, CoalesceKeyGuardsJob, Create, Joinable
<1>3. /\ r \in JobRecord
      /\ p \in Pointer /\ p.job = j /\ p.ttl = JobTTL
      /\ JobTTL > 0
  BY StoreAssumption
     DEF JobRecord, Pointer, PointerTo, States, LiveStates
<1>4. /\ job' = [job EXCEPT ![j] = r]
      /\ coalesce' = [coalesce EXCEPT ![f] = p]
      /\ idempotency' = [idempotency EXCEPT ![f][k] = p]
      /\ queue' = Append(queue, j)
      /\ issued' = issued \cup {j}
      /\ UNCHANGED <<cancel, processing, lateLeaves>>
  BY DEF Create
<1>5. /\ r.state = "queued" /\ r.fingerprint = f
      /\ r.subscribers = {k} /\ r.ttl = JobTTL
  OBVIOUS
<1> HIDE DEF r, p
<1>6. StoreTypeOK'
  BY <1>3, <1>4, AppendProperties DEF StoreInv, StoreTypeOK
<1>7. /\ job'[j] = r
      /\ \A i \in Jobs : i # j => job'[i] = job[i]
      /\ coalesce'[f] = p
      /\ \A g \in Fingerprints : g # f => coalesce'[g] = coalesce[g]
      /\ idempotency'[f][k] = p
      /\ \A g \in Fingerprints, m \in Subscribers :
           g # f \/ m # k => idempotency'[g][m] = idempotency[g][m]
  BY <1>4 DEF StoreInv, StoreTypeOK
<1>8. JobsWellFormed'
  BY <1>3, <1>4, <1>5, <1>7
     DEF StoreInv, KeysWellFormed, JobsWellFormed, Exists
<1>9. PointersWellFormed'
  BY <1>1, <1>3, <1>4, <1>5, <1>7
     DEF StoreInv, KeysWellFormed, PointersWellFormed, Valid, Exists
<1>10. CoalesceKeyGuardsJob'
  BY <1>1, <1>2, <1>3, <1>4, <1>5, <1>7, StoreAssumption
     DEF StoreInv, StoreTypeOK, JobRecord, CoalesceKeyGuardsJob,
         KeysWellFormed, JobsWellFormed, Exists, Terminal, Live, LiveStates,
         TerminalStates
<1>11. LiveJobHasSubscriber'
  BY <1>5, <1>7 DEF StoreInv, LiveJobHasSubscriber, Live
<1>12. SubscriptionsAgree'
  BY <1>1, <1>2, <1>3, <1>4, <1>5, <1>7
     DEF StoreInv, SubscriptionsAgree, Exists, Live
<1>13. CancelFlagAgrees'
  BY <1>1, <1>4, <1>5, <1>7 DEF StoreInv, CancelFlagAgrees
<1> QED
  BY <1>6, <1>8, <1>9, <1>10, <1>11, <1>12, <1>13
     DEF StoreInv, KeysWellFormed

LEMMA RefuseFullInv ==
  ASSUME StoreInv, NEW f \in Fingerprints, NEW k \in Subscribers,
         RefuseFull(f, k)
  PROVE  StoreInv'
<1>1. ASSUME NEW i \in Jobs, Live(i), job[i].fingerprint = f
      PROVE  f \in lateLeaves
  BY <1>1 DEF StoreInv, CoalesceKeyGuardsJob, RefuseFull, Joinable
<1>2. NoPointer \in Pointer /\ NoPointer.job = Null /\ ~(Null \in Jobs)
  BY StoreAssumption DEF NoPointer, Pointer
<1>3. /\ coalesce' = [coalesce EXCEPT ![f] = NoPointer]
      /\ UNCHANGED <<job, idempotency, cancel, queue, processing, issued,
                     lateLeaves>>
  BY DEF RefuseFull
<1>4. StoreTypeOK'
  BY <1>2, <1>3 DEF StoreInv, StoreTypeOK
<1>5. /\ coalesce'[f] = NoPointer
      /\ \A g \in Fingerprints : g # f => coalesce'[g] = coalesce[g]
  BY <1>3 DEF StoreInv, StoreTypeOK
<1>6. KeysWellFormed'
  BY <1>2, <1>3, <1>5
     DEF StoreInv, KeysWellFormed, JobsWellFormed, PointersWellFormed, Valid,
         Exists
<1>7. CoalesceKeyGuardsJob'
  BY <1>1, <1>2, <1>3, <1>5
     DEF StoreInv, KeysWellFormed, JobsWellFormed, CoalesceKeyGuardsJob,
         Exists, Terminal, Live, LiveStates
<1>8. LiveJobHasSubscriber' /\ SubscriptionsAgree' /\ CancelFlagAgrees'
  BY <1>3 DEF StoreInv, LiveJobHasSubscriber, SubscriptionsAgree,
              CancelFlagAgrees, Exists, Live
<1> QED BY <1>4, <1>6, <1>7, <1>8 DEF StoreInv

-----------------------------------------------------------------------------
(* unsubscribeScript.  The key of a subscription says that its owner is in *)
(* the subscriber set, so the script never finds it missing there.         *)

LEMMA UnsubscribeInv ==
  ASSUME StoreInv, NEW j \in Jobs, NEW k \in Subscribers, Unsubscribe(j, k)
  PROVE  StoreInv'
<1> DEFINE f == job[j].fingerprint
           r == LeftBy(j, k)
<1>1. /\ Exists(j) /\ f \in Fingerprints /\ j \in issued
      /\ idempotency[f][k].job = j
      /\ k \in job[j].subscribers
      /\ job[j].state # "cancelled"
      /\ cancel[j] = 0
  <2>1. Exists(j) /\ idempotency[f][k].job = j
    BY DEF Unsubscribe
  <2>2. f \in Fingerprints /\ j \in issued
    BY <2>1 DEF StoreInv, KeysWellFormed, JobsWellFormed
  <2>3. k \in job[j].subscribers
    BY <2>1, <2>2 DEF StoreInv, SubscriptionsAgree
  <2>4. job[j].state # "cancelled"
    BY <2>3 DEF StoreInv, KeysWellFormed, JobsWellFormed
  <2> QED BY <2>1, <2>2, <2>3, <2>4 DEF StoreInv, CancelFlagAgrees
<1>2. /\ r \in JobRecord
      /\ r.subscribers = job[j].subscribers \ {k}
      /\ r.state = IF Cancels(j, k) THEN "cancelled" ELSE job[j].state
      /\ r.ttl = TerminalTTL
      /\ r.fingerprint = f
  <2> DEFINE s == IF Cancels(j, k) THEN "cancelled" ELSE job[j].state
  <2>1. /\ job[j] \in JobRecord
        /\ job[j].subscribers \ {k} \in SUBSET Subscribers
        /\ TerminalTTL \in 0 .. JobTTL
    BY StoreAssumption DEF StoreInv, StoreTypeOK, JobRecord
  <2>2. s \in States \cup {"absent"}
    BY <2>1 DEF JobRecord, States, TerminalStates
  <2>3. r = [job[j] EXCEPT !.subscribers = job[j].subscribers \ {k},
                           !.state = s, !.ttl = TerminalTTL]
    BY DEF LeftBy
  <2> HIDE DEF r, s
  <2>4. /\ r \in JobRecord
        /\ r.subscribers = job[j].subscribers \ {k}
        /\ r.state = s /\ r.ttl = TerminalTTL
        /\ r.fingerprint = f
    BY <2>1, <2>2, <2>3 DEF JobRecord
  <2> QED BY <2>4 DEF s
<1>3. /\ job' = [job EXCEPT ![j] = r]
      /\ cancel' = IF Cancels(j, k) THEN [cancel EXCEPT ![j] = TerminalTTL]
                                    ELSE cancel
      /\ coalesce' = IF Cancels(j, k) /\ coalesce[f].job = j
                     THEN [coalesce EXCEPT ![f] = NoPointer] ELSE coalesce
      /\ lateLeaves' = IF /\ Live(j) /\ ~Cancels(j, k)
                          /\ coalesce[f].ttl < TerminalTTL
                       THEN lateLeaves \cup {f} ELSE lateLeaves
      /\ idempotency' = [idempotency EXCEPT ![f][k] = NoPointer]
      /\ UNCHANGED <<queue, processing, issued>>
  BY <1>1 DEF Unsubscribe, FlagTTL
<1>4. NoPointer \in Pointer /\ NoPointer.job = Null /\ ~(Null \in Jobs)
  BY StoreAssumption DEF NoPointer, Pointer
<1>5. Cancels(j, k) <=> job[j].subscribers \ {k} = {} /\ Live(j)
  BY DEF Cancels
<1> HIDE DEF r, f
<1>6. StoreTypeOK'
  BY <1>1, <1>2, <1>3, <1>4, StoreAssumption DEF StoreInv, StoreTypeOK
<1>7. /\ job'[j] = r
      /\ \A i \in Jobs : i # j => job'[i] = job[i]
      /\ \A g \in Fingerprints : coalesce'[g] \in {coalesce[g], NoPointer}
      /\ \A g \in Fingerprints : g # f => coalesce'[g] = coalesce[g]
      /\ Cancels(j, k) /\ coalesce[f].job = j => coalesce'[f] = NoPointer
      /\ ~(Cancels(j, k) /\ coalesce[f].job = j) => coalesce'[f] = coalesce[f]
      /\ cancel'[j] = IF Cancels(j, k) THEN TerminalTTL ELSE 0
      /\ \A i \in Jobs : i # j => cancel'[i] = cancel[i]
      /\ idempotency'[f][k] = NoPointer
      /\ \A g \in Fingerprints, m \in Subscribers :
           g # f \/ m # k => idempotency'[g][m] = idempotency[g][m]
  BY <1>1, <1>3 DEF StoreInv, StoreTypeOK
<1>8. JobsWellFormed'
  BY <1>1, <1>2, <1>3, <1>5, <1>7, StoreAssumption
     DEF StoreInv, KeysWellFormed, JobsWellFormed, Exists
<1>9. PointersWellFormed'
  <2>1. \A i \in Jobs : /\ Exists(i)' <=> Exists(i)
                        /\ job'[i].fingerprint = job[i].fingerprint
    BY <1>1, <1>2, <1>7 DEF Exists, f
  <2>2. ASSUME NEW g \in Fingerprints
        PROVE  /\ Valid(coalesce[g])'
               /\ Exists(coalesce[g].job)'
                  => job'[coalesce'[g].job].fingerprint = g
    <3>1. CASE coalesce'[g] = NoPointer
      BY <3>1, <1>4 DEF Valid, Exists
    <3>2. CASE coalesce'[g] = coalesce[g]
      BY <3>2, <2>1, <1>3
         DEF StoreInv, KeysWellFormed, PointersWellFormed, Valid, Exists
    <3> QED BY <3>1, <3>2, <1>7
  <2>3. ASSUME NEW g \in Fingerprints, NEW m \in Subscribers
        PROVE  Valid(idempotency[g][m])'
    BY <1>3, <1>7 DEF StoreInv, KeysWellFormed, PointersWellFormed, Valid
  <2> QED BY <2>2, <2>3 DEF PointersWellFormed
<1>10. CoalesceKeyGuardsJob'
  <2>1. ASSUME NEW g \in Fingerprints
        PROVE  ~Terminal(coalesce[g].job)'
    <3>1. CASE coalesce[g].job = j
      <4>1. g = f
        BY <3>1, <1>1 DEF StoreInv, KeysWellFormed, PointersWellFormed, f
      <4> QED
        BY <3>1, <4>1, <1>2, <1>4, <1>7
           DEF StoreInv, CoalesceKeyGuardsJob, Terminal
    <3>2. CASE coalesce[g].job # j
      BY <3>2, <1>4, <1>7 DEF StoreInv, CoalesceKeyGuardsJob, Terminal
    <3> QED BY <3>1, <3>2
  <2>2. ASSUME NEW i \in Jobs, Live(i)', job'[i].fingerprint \notin lateLeaves'
        PROVE  /\ coalesce'[job'[i].fingerprint].job = i
               /\ coalesce'[job'[i].fingerprint].ttl >= job'[i].ttl
    <3>1. CASE i = j
      <4>1. ~Cancels(j, k) /\ Live(j) /\ job'[i].fingerprint = f
        BY <2>2, <3>1, <1>2, <1>7 DEF Live, LiveStates
      <4>2. f \notin lateLeaves /\ ~(coalesce[f].ttl < TerminalTTL)
        BY <2>2, <4>1, <1>3
      <4>3. coalesce[f].job = j
        BY <4>1, <4>2 DEF StoreInv, CoalesceKeyGuardsJob, f
      <4>4. coalesce[f].ttl \in Nat
        BY <1>1, StoreAssumption DEF StoreInv, StoreTypeOK, Pointer
      <4> QED
        BY <3>1, <4>1, <4>2, <4>3, <4>4, <1>2, <1>7, StoreAssumption
    <3>2. CASE i # j
      BY <2>2, <3>2, <1>1, <1>3, <1>7
         DEF StoreInv, KeysWellFormed, JobsWellFormed, CoalesceKeyGuardsJob,
             Live, Exists, LiveStates
    <3> QED BY <3>1, <3>2
  <2> QED BY <2>1, <2>2 DEF CoalesceKeyGuardsJob
<1>11. LiveJobHasSubscriber'
  BY <1>2, <1>5, <1>7 DEF StoreInv, LiveJobHasSubscriber, Live, LiveStates
<1>12. SubscriptionsAgree'
  BY <1>1, <1>2, <1>3, <1>4, <1>7
     DEF StoreInv, SubscriptionsAgree, Exists, Live, LiveStates
<1>13. CancelFlagAgrees'
  BY <1>1, <1>2, <1>3, <1>7 DEF StoreInv, CancelFlagAgrees
<1> QED
  BY <1>6, <1>8, <1>9, <1>10, <1>11, <1>12, <1>13
     DEF StoreInv, KeysWellFormed

-----------------------------------------------------------------------------
(* transitionScript.                                                       *)

LEMMA TransitionInv ==
  ASSUME StoreInv, NEW j \in Jobs, NEW s \in ReportedStates, Transition(j, s)
  PROVE  StoreInv'
<1> DEFINE f == job[j].fingerprint
           r == MovedTo(j, s)
           p == KeyAfter(coalesce[f], j, s)
           n == IF s \in TerminalStates THEN TerminalTTL ELSE JobTTL
<1>1. /\ Live(j) /\ Exists(j) /\ cancel[j] = 0
      /\ f \in Fingerprints /\ j \in issued
  <2>1. Exists(j) /\ job[j].state \notin TerminalStates
    BY DEF Transition, TransitionReply, Terminal, TerminalStates
  <2>2. job[j].state \in States
    BY <2>1 DEF StoreInv, StoreTypeOK, JobRecord, Exists
  <2>3. Live(j) /\ job[j].state # "cancelled"
    BY <2>1, <2>2 DEF Live, States, TerminalStates
  <2> QED
    BY <2>1, <2>3
       DEF StoreInv, KeysWellFormed, JobsWellFormed, CancelFlagAgrees
<1>2. s \in States /\ s # "cancelled" /\ s # "absent"
  BY DEF ReportedStates, States, LiveStates, TerminalStates
<1>3. n \in 0 .. JobTTL /\ n > 0
  BY StoreAssumption
<1>4. /\ r \in JobRecord
      /\ r.subscribers = job[j].subscribers /\ r.state = s /\ r.ttl = n
      /\ r.fingerprint = f
  <2>1. job[j] \in JobRecord
    BY DEF StoreInv, StoreTypeOK
  <2>2. r = [job[j] EXCEPT !.state = s, !.ttl = n]
    BY DEF MovedTo
  <2> HIDE DEF r, n
  <2> QED BY <1>2, <1>3, <2>1, <2>2 DEF JobRecord
<1>5. NoPointer \in Pointer /\ NoPointer.job = Null /\ ~(Null \in Jobs)
  BY StoreAssumption DEF NoPointer, Pointer
<1>6. /\ p \in Pointer
      /\ \/ p = NoPointer
         \/ p.job = coalesce[f].job /\ p.ttl >= coalesce[f].ttl
            /\ (s \in TerminalStates \/ p.ttl = JobTTL)
            /\ coalesce[f] # NoPointer
      /\ s \in TerminalStates => p.job # j
      /\ p = NoPointer /\ coalesce[f] # NoPointer
         => s \in TerminalStates /\ coalesce[f].job = j
  <2>1. /\ coalesce[f] \in Pointer /\ JobTTL \in 0 .. JobTTL
        /\ coalesce[f].ttl \in 0 .. JobTTL
    BY <1>1, StoreAssumption DEF StoreInv, StoreTypeOK, Pointer
  <2>2. CASE s \in TerminalStates
    BY <2>1, <2>2, <1>5 DEF KeyAfter
  <2>3. CASE s \notin TerminalStates
    <3>1. CASE coalesce[f] = NoPointer
      BY <2>3, <3>1, <1>5 DEF KeyAfter
    <3>2. CASE coalesce[f] # NoPointer
      <4>1. p = [coalesce[f] EXCEPT !.ttl = JobTTL]
        BY <2>3, <3>2 DEF KeyAfter
      <4> HIDE DEF p
      <4>2. p \in Pointer /\ p.job = coalesce[f].job /\ p.ttl = JobTTL
        BY <2>1, <4>1, PointerUpdate
      <4>3. p # NoPointer
        BY <4>2, StoreAssumption DEF NoPointer
      <4> QED BY <2>1, <2>3, <3>2, <4>2, <4>3
    <3> QED BY <3>1, <3>2
  <2> QED BY <2>2, <2>3
<1>7. /\ job' = [job EXCEPT ![j] = r]
      /\ coalesce' = [coalesce EXCEPT ![f] = p]
      /\ UNCHANGED <<idempotency, cancel, queue, processing, issued,
                     lateLeaves>>
  BY DEF Transition
<1> HIDE DEF f, r, p
<1>8. StoreTypeOK'
  BY <1>4, <1>6, <1>7 DEF StoreInv, StoreTypeOK
<1>9. /\ job'[j] = r
      /\ \A i \in Jobs : i # j => job'[i] = job[i]
      /\ coalesce'[f] = p
      /\ \A g \in Fingerprints : g # f => coalesce'[g] = coalesce[g]
  BY <1>1, <1>7 DEF StoreInv, StoreTypeOK
<1>10. \A i \in Jobs : /\ Exists(i)' <=> Exists(i)
                       /\ job'[i].fingerprint = job[i].fingerprint
                       /\ job'[i].subscribers = job[i].subscribers
                       /\ Live(i)' => Live(i)
  BY <1>1, <1>2, <1>4, <1>9 DEF Exists, Live, f
<1> HIDE DEF n
<1>11. JobsWellFormed'
  BY <1>1, <1>2, <1>3, <1>4, <1>7, <1>9
     DEF StoreInv, KeysWellFormed, JobsWellFormed, Exists
<1>12. PointersWellFormed'
  <2>1. ASSUME NEW g \in Fingerprints
        PROVE  /\ Valid(coalesce[g])'
               /\ Exists(coalesce[g].job)'
                  => job'[coalesce'[g].job].fingerprint = g
    <3>1. CASE coalesce'[g] = NoPointer
      BY <3>1, <1>5 DEF Valid, Exists
    <3>2. CASE coalesce'[g] # NoPointer
      <4>1. coalesce'[g].job = coalesce[g].job /\ coalesce[g] # NoPointer
        BY <3>2, <1>6, <1>9
      <4>2. coalesce'[g].ttl > 0
        <5>1. coalesce[g].ttl > 0
          BY <4>1 DEF StoreInv, KeysWellFormed, PointersWellFormed, Valid
        <5>2. coalesce[g].ttl \in Nat /\ coalesce'[g].ttl \in Nat
          BY <1>8, StoreAssumption DEF StoreInv, StoreTypeOK, Pointer
        <5> QED BY <3>2, <5>1, <5>2, <1>6, <1>9
      <4> QED
        BY <4>1, <4>2, <1>7, <1>10
           DEF StoreInv, KeysWellFormed, PointersWellFormed, Valid, Exists
    <3> QED BY <3>1, <3>2
  <2>2. ASSUME NEW g \in Fingerprints, NEW m \in Subscribers
        PROVE  Valid(idempotency[g][m])'
    BY <1>7 DEF StoreInv, KeysWellFormed, PointersWellFormed, Valid
  <2> QED BY <2>1, <2>2 DEF PointersWellFormed
<1>13. CoalesceKeyGuardsJob'
  <2>1. ASSUME NEW g \in Fingerprints
        PROVE  ~Terminal(coalesce[g].job)'
    <3>1. CASE coalesce'[g].job = j
      <4>1. coalesce[g].job = j
        BY <3>1, <1>5, <1>6, <1>9
      <4>2. g = f
        BY <4>1, <1>1 DEF StoreInv, KeysWellFormed, PointersWellFormed, f
      <4> QED BY <3>1, <4>2, <1>4, <1>6, <1>9 DEF Terminal
    <3>2. CASE coalesce'[g].job # j
      BY <3>2, <1>5, <1>6, <1>9 DEF StoreInv, CoalesceKeyGuardsJob, Terminal
    <3> QED BY <3>1, <3>2
  <2>2. ASSUME NEW i \in Jobs, Live(i)', job'[i].fingerprint \notin lateLeaves'
        PROVE  /\ coalesce'[job'[i].fingerprint].job = i
               /\ coalesce'[job'[i].fingerprint].ttl >= job'[i].ttl
    <3> DEFINE g == job[i].fingerprint
    <3>1. /\ Live(i) /\ job'[i].fingerprint = g /\ g \in Fingerprints
          /\ coalesce[g].job = i /\ coalesce[g].ttl >= job[i].ttl
      BY <2>2, <1>7, <1>10
         DEF StoreInv, KeysWellFormed, JobsWellFormed, CoalesceKeyGuardsJob,
             Live, Exists, LiveStates
    <3>2. coalesce[g] # NoPointer
      BY <3>1, <1>5
    <3>3. CASE i = j
      <4>1. s \notin TerminalStates /\ g = f
        BY <3>3, <2>2, <1>4, <1>9 DEF Live, LiveStates, TerminalStates, f
      <4> QED
        BY <3>1, <3>2, <3>3, <4>1, <1>4, <1>6, <1>9, StoreAssumption DEF n
    <3>4. CASE i # j
      <4>1. /\ coalesce[g].ttl \in Nat /\ coalesce'[g].ttl \in Nat
            /\ job[i].ttl \in Nat
        BY <3>1, <1>8, StoreAssumption
           DEF StoreInv, StoreTypeOK, Pointer, JobRecord
      <4> HIDE DEF g
      <4>2. coalesce'[g].job = i /\ coalesce'[g].ttl >= coalesce[g].ttl
        BY <3>1, <3>2, <3>4, <4>1, <1>6, <1>9
      <4> QED BY <3>1, <3>4, <4>1, <4>2, <1>9
    <3> QED BY <3>3, <3>4
  <2> QED BY <2>1, <2>2 DEF CoalesceKeyGuardsJob
<1>14. LiveJobHasSubscriber' /\ SubscriptionsAgree'
  BY <1>7, <1>10
     DEF StoreInv, LiveJobHasSubscriber, SubscriptionsAgree, Exists
<1>15. CancelFlagAgrees'
  BY <1>1, <1>2, <1>4, <1>7, <1>9 DEF StoreInv, CancelFlagAgrees
<1> QED
  BY <1>8, <1>11, <1>12, <1>13, <1>14, <1>15 DEF StoreInv, KeysWellFormed

-----------------------------------------------------------------------------
(* The lists, the clock, and the invariance theorems.                      *)

LEMMA ListInv ==
  ASSUME StoreInv, NEW j \in Jobs,
         Claim(j) \/ Ack(j) \/ Pop(j) \/ Requeue(j)
  PROVE  StoreInv'
<1>1. /\ queue \in Seq(Jobs) /\ processing \in Seq(Jobs)
      /\ Cons(j, queue) \in Seq(Jobs) /\ Cons(j, processing) \in Seq(Jobs)
      /\ RemoveFirst(processing, j) \in Seq(Jobs)
  BY RemoveFirstInSeq, ConcatProperties DEF StoreInv, StoreTypeOK, Cons
<1>2. /\ queue # << >> => Front(queue) \in Seq(Jobs)
      /\ processing # << >> => Front(processing) \in Seq(Jobs)
  BY <1>1 DEF Front
<1>3. StoreTypeOK'
  BY <1>1, <1>2
     DEF StoreInv, StoreTypeOK, Claim, Ack, Pop, Requeue, keyVars
<1>4. UNCHANGED <<job, coalesce, idempotency, cancel, issued, lateLeaves>>
  BY DEF Claim, Ack, Pop, Requeue, keyVars
<1>5. KeysWellFormed'
  BY <1>4 DEF StoreInv, KeysWellFormed, JobsWellFormed, PointersWellFormed,
              Exists, Valid
<1>6. /\ CoalesceKeyGuardsJob' /\ LiveJobHasSubscriber'
      /\ SubscriptionsAgree' /\ CancelFlagAgrees'
  BY <1>4 DEF StoreInv, CoalesceKeyGuardsJob, LiveJobHasSubscriber,
              SubscriptionsAgree, CancelFlagAgrees, Live, Exists, Terminal
<1> QED BY <1>3, <1>5, <1>6 DEF StoreInv

\* A tick leaves a job as it is but for its expiry time, or takes it away.
LEMMA AgedJobFacts ==
  ASSUME NEW r \in JobRecord
  PROVE  /\ AgedJob(r) \in JobRecord
         /\ r.ttl \in Nat
         /\ r.ttl <= 1 => AgedJob(r) = AbsentJob
         /\ r.ttl > 1 => /\ AgedJob(r).state = r.state
                         /\ AgedJob(r).fingerprint = r.fingerprint
                         /\ AgedJob(r).subscribers = r.subscribers
                         /\ AgedJob(r).ttl = r.ttl - 1
<1>1. r.ttl \in 0 .. JobTTL /\ r.ttl \in Nat
  BY StoreAssumption DEF JobRecord
<1>2. CASE r.ttl <= 1
  BY <1>1, <1>2, StoreAssumption DEF AgedJob, AbsentJob, JobRecord
<1>3. CASE r.ttl > 1
  <2> DEFINE n == r.ttl - 1
  <2>1. n \in 0 .. JobTTL
    BY <1>1, <1>3, StoreAssumption
  <2>2. AgedJob(r) = [r EXCEPT !.ttl = n]
    BY <1>1, <1>3 DEF AgedJob
  <2> HIDE DEF n
  <2>3. /\ AgedJob(r) \in JobRecord
        /\ AgedJob(r).state = r.state
        /\ AgedJob(r).fingerprint = r.fingerprint
        /\ AgedJob(r).subscribers = r.subscribers
        /\ AgedJob(r).ttl = n
    BY <2>1, <2>2 DEF JobRecord
  <2> QED BY <1>1, <1>3, <2>3 DEF n
<1> QED BY <1>1, <1>2, <1>3

LEMMA AgedPointerFacts ==
  ASSUME NEW p \in Pointer
  PROVE  /\ AgedPointer(p) \in Pointer
         /\ p.ttl \in Nat
         /\ p.ttl <= 1 => AgedPointer(p) = NoPointer
         /\ p.ttl > 1 => /\ AgedPointer(p).job = p.job
                         /\ AgedPointer(p).ttl = p.ttl - 1
<1>1. p.ttl \in 0 .. JobTTL /\ p.ttl \in Nat
  BY StoreAssumption DEF Pointer
<1>2. CASE p.ttl <= 1
  BY <1>1, <1>2, StoreAssumption DEF AgedPointer, NoPointer, Pointer
<1>3. CASE p.ttl > 1
  <2> DEFINE n == p.ttl - 1
  <2>1. n \in 0 .. JobTTL
    BY <1>1, <1>3, StoreAssumption
  <2>2. AgedPointer(p) = [p EXCEPT !.ttl = n]
    BY <1>1, <1>3 DEF AgedPointer
  <2> HIDE DEF n
  <2>3. /\ AgedPointer(p) \in Pointer
        /\ AgedPointer(p).job = p.job /\ AgedPointer(p).ttl = n
    BY <2>1, <2>2, PointerUpdate
  <2> QED BY <1>1, <1>3, <2>3 DEF n
<1> QED BY <1>1, <1>2, <1>3

\* All keys age together, so no comparison between them changes.
LEMMA TickInv ==
  ASSUME StoreInv, Tick
  PROVE  StoreInv'
<1>1. ASSUME NEW i \in Jobs
      PROVE  /\ job'[i] \in JobRecord /\ job[i].ttl \in Nat
             /\ job[i].ttl <= 1 => job'[i] = AbsentJob
             /\ job[i].ttl > 1 => /\ job'[i].state = job[i].state
                                  /\ job'[i].fingerprint = job[i].fingerprint
                                  /\ job'[i].subscribers = job[i].subscribers
                                  /\ job'[i].ttl = job[i].ttl - 1
  <2>1. job[i] \in JobRecord /\ job'[i] = AgedJob(job[i])
    BY DEF StoreInv, StoreTypeOK, Tick
  <2> QED BY <2>1, AgedJobFacts
<1>2. ASSUME NEW g \in Fingerprints
      PROVE  /\ coalesce'[g] \in Pointer /\ coalesce[g].ttl \in Nat
             /\ coalesce[g].ttl <= 1 => coalesce'[g] = NoPointer
             /\ coalesce[g].ttl > 1
                => /\ coalesce'[g].job = coalesce[g].job
                   /\ coalesce'[g].ttl = coalesce[g].ttl - 1
  <2>1. /\ coalesce[g] \in Pointer
        /\ coalesce'[g] = AgedPointer(coalesce[g])
    BY DEF StoreInv, StoreTypeOK, Tick
  <2> QED BY <2>1, AgedPointerFacts
<1>3. ASSUME NEW g \in Fingerprints, NEW m \in Subscribers
      PROVE  /\ idempotency'[g][m] \in Pointer
             /\ \/ idempotency'[g][m] = NoPointer
                \/ /\ idempotency'[g][m].job = idempotency[g][m].job
                   /\ idempotency'[g][m].ttl > 0
                   /\ idempotency[g][m] # NoPointer
  <2>1. /\ idempotency[g][m] \in Pointer
        /\ idempotency'[g][m] = AgedPointer(idempotency[g][m])
    BY DEF StoreInv, StoreTypeOK, Tick
  <2> QED BY <2>1, AgedPointerFacts DEF NoPointer
<1>4. ASSUME NEW i \in Jobs
      PROVE  /\ cancel'[i] \in 0 .. JobTTL
             /\ cancel'[i] = IF cancel[i] = 0 THEN 0 ELSE cancel[i] - 1
  BY StoreAssumption DEF StoreInv, StoreTypeOK, Tick
<1>5. UNCHANGED <<queue, processing, issued, lateLeaves>>
  BY DEF Tick
<1>6. StoreTypeOK'
  <2>1. job' \in [Jobs -> JobRecord]
    BY <1>1 DEF Tick
  <2>2. coalesce' \in [Fingerprints -> Pointer]
    BY <1>2 DEF Tick
  <2>3. idempotency' \in [Fingerprints -> [Subscribers -> Pointer]]
    BY <1>3 DEF Tick
  <2>4. cancel' \in [Jobs -> 0 .. JobTTL]
    BY <1>4 DEF Tick
  <2> QED BY <2>1, <2>2, <2>3, <2>4, <1>5 DEF StoreInv, StoreTypeOK
<1>7. /\ AbsentJob.state = "absent" /\ AbsentJob.ttl = 0
      /\ AbsentJob.subscribers = {}
      /\ NoPointer.job = Null /\ ~(Null \in Jobs)
  BY StoreAssumption DEF AbsentJob, NoPointer
<1>8. ASSUME NEW i \in Jobs, Exists(i)'
      PROVE  /\ Exists(i) /\ job[i].ttl > 1 /\ job'[i].ttl > 0
             /\ job'[i].ttl = job[i].ttl - 1
             /\ job'[i].state = job[i].state
             /\ job'[i].fingerprint = job[i].fingerprint
             /\ job'[i].subscribers = job[i].subscribers
  BY <1>1, <1>7, <1>8 DEF Exists
<1>9. JobsWellFormed'
  BY <1>1, <1>5, <1>7, <1>8
     DEF StoreInv, KeysWellFormed, JobsWellFormed, Exists
<1>10. PointersWellFormed'
  <2>1. ASSUME NEW g \in Fingerprints
        PROVE  /\ Valid(coalesce[g])'
               /\ Exists(coalesce[g].job)'
                  => job'[coalesce'[g].job].fingerprint = g
    <3>1. CASE coalesce[g].ttl <= 1
      BY <3>1, <1>2, <1>7 DEF Valid, Exists
    <3>2. CASE coalesce[g].ttl > 1
      <4>1. /\ coalesce'[g].job = coalesce[g].job
            /\ coalesce'[g].ttl > 0 /\ coalesce[g] # NoPointer
        BY <3>2, <1>2 DEF NoPointer
      <4>2. coalesce[g].job \in issued
        BY <4>1 DEF StoreInv, KeysWellFormed, PointersWellFormed, Valid
      <4>3. coalesce[g].job \in Jobs
        BY <4>2 DEF StoreInv, StoreTypeOK
      <4> QED
        BY <4>1, <4>2, <4>3, <1>5, <1>8
           DEF StoreInv, KeysWellFormed, PointersWellFormed, Valid
    <3> QED BY <3>1, <3>2, <1>2
  <2>2. ASSUME NEW g \in Fingerprints, NEW m \in Subscribers
        PROVE  Valid(idempotency[g][m])'
    BY <1>3, <1>5 DEF StoreInv, KeysWellFormed, PointersWellFormed, Valid
  <2> QED BY <2>1, <2>2 DEF PointersWellFormed
<1>11. CoalesceKeyGuardsJob'
  <2>1. ASSUME NEW g \in Fingerprints
        PROVE  ~Terminal(coalesce[g].job)'
    <3>1. ASSUME Terminal(coalesce[g].job)'
          PROVE  FALSE
      <4>1. Exists(coalesce[g].job)' /\ coalesce'[g].job \in Jobs
        BY <3>1 DEF Terminal, Exists, TerminalStates
      <4>2. coalesce'[g].job = coalesce[g].job
        BY <4>1, <1>2, <1>7
      <4>3. job'[coalesce[g].job].state = job[coalesce[g].job].state
        BY <4>1, <4>2, <1>8 DEF Exists
      <4> QED
        BY <3>1, <4>1, <4>2, <4>3
           DEF StoreInv, CoalesceKeyGuardsJob, Terminal
    <3> QED BY <3>1
  <2>2. ASSUME NEW i \in Jobs, Live(i)', job'[i].fingerprint \notin lateLeaves'
        PROVE  /\ coalesce'[job'[i].fingerprint].job = i
               /\ coalesce'[job'[i].fingerprint].ttl >= job'[i].ttl
    <3> DEFINE g == job[i].fingerprint
    <3>1. Exists(i)'
      BY <2>2 DEF Live, Exists, LiveStates
    <3>2. Live(i) /\ job'[i].fingerprint = g /\ g \notin lateLeaves
      BY <2>2, <3>1, <1>5, <1>8 DEF Live
    <3>3. /\ g \in Fingerprints /\ coalesce[g].job = i
          /\ coalesce[g].ttl >= job[i].ttl
      BY <3>1, <3>2, <1>8
         DEF StoreInv, KeysWellFormed, JobsWellFormed, CoalesceKeyGuardsJob
    <3> QED BY <3>1, <3>2, <3>3, <1>1, <1>2, <1>8
  <2> QED BY <2>1, <2>2 DEF CoalesceKeyGuardsJob
<1>12. LiveJobHasSubscriber'
  BY <1>8 DEF StoreInv, LiveJobHasSubscriber, Live, Exists, LiveStates
<1>13. SubscriptionsAgree'
  BY <1>3, <1>5, <1>7, <1>8
     DEF StoreInv, SubscriptionsAgree, Live, Exists, LiveStates
<1>14. CancelFlagAgrees'
  <2> SUFFICES ASSUME NEW i \in Jobs
               PROVE  cancel'[i] = IF job'[i].state = "cancelled"
                                   THEN job'[i].ttl ELSE 0
    BY DEF CancelFlagAgrees
  <2>1. cancel[i] = IF job[i].state = "cancelled" THEN job[i].ttl ELSE 0
    BY DEF StoreInv, CancelFlagAgrees
  <2>2. job[i].state = "cancelled" => job[i].ttl > 0
    BY DEF StoreInv, KeysWellFormed, JobsWellFormed, Exists
  <2> QED BY <2>1, <2>2, <1>1, <1>4, <1>7
<1> QED
  BY <1>6, <1>9, <1>10, <1>11, <1>12, <1>13, <1>14 DEF StoreInv, KeysWellFormed

LEMMA StoreInitInv == StoreInit => StoreInv
<1> SUFFICES ASSUME StoreInit PROVE StoreInv
  OBVIOUS
<1>1. /\ AbsentJob \in JobRecord /\ AbsentJob.state = "absent"
      /\ NoPointer \in Pointer /\ NoPointer.job = Null /\ ~(Null \in Jobs)
      /\ 0 \in 0 .. JobTTL
  BY StoreAssumption DEF AbsentJob, JobRecord, NoPointer, Pointer
<1>2. StoreTypeOK
  BY <1>1 DEF StoreInit, StoreTypeOK
<1>3. /\ \A j \in Jobs : job[j] = AbsentJob /\ cancel[j] = 0
      /\ \A f \in Fingerprints : coalesce[f] = NoPointer
      /\ \A f \in Fingerprints, k \in Subscribers :
           idempotency[f][k] = NoPointer
  BY DEF StoreInit
<1>4. \A j : ~Exists(j) /\ ~Live(j) /\ ~Terminal(j)
  BY <1>1, <1>3 DEF Exists, Live, Terminal, LiveStates, TerminalStates
<1>5. KeysWellFormed
  BY <1>1, <1>3, <1>4
     DEF KeysWellFormed, JobsWellFormed, PointersWellFormed, Valid
<1>6. /\ CoalesceKeyGuardsJob /\ LiveJobHasSubscriber
      /\ SubscriptionsAgree /\ CancelFlagAgrees
  BY <1>1, <1>3, <1>4
     DEF CoalesceKeyGuardsJob, LiveJobHasSubscriber, SubscriptionsAgree,
         CancelFlagAgrees
<1> QED BY <1>2, <1>5, <1>6 DEF StoreInv

\* One step of anybody, or none, keeps the inductive invariant.
LEMMA StoreNextInv == StoreInv /\ [StoreNext]_storeVars => StoreInv'
<1> SUFFICES ASSUME StoreInv, [StoreNext]_storeVars
             PROVE  StoreInv'
  OBVIOUS
<1>1. ASSUME NEW f \in Fingerprints, NEW k \in Subscribers, CreateOrJoin(f, k)
      PROVE  StoreInv'
  BY <1>1, JoinInv, CreateInv, RefuseFullInv DEF CreateOrJoin
<1>2. ASSUME NEW j \in Jobs, NEW k \in Subscribers, Unsubscribe(j, k)
      PROVE  StoreInv'
  BY <1>2, UnsubscribeInv
<1>3. ASSUME NEW j \in Jobs, NEW s \in ReportedStates, Transition(j, s)
      PROVE  StoreInv'
  BY <1>3, TransitionInv
<1>4. ASSUME NEW j \in Jobs, Claim(j) \/ Ack(j) \/ Pop(j) \/ Requeue(j)
      PROVE  StoreInv'
  BY <1>4, ListInv
<1>5. CASE Tick
  BY <1>5, TickInv
<1>6. CASE UNCHANGED storeVars
  <2>1. StoreTypeOK'
    BY <1>6 DEF storeVars, StoreInv, StoreTypeOK
  <2>2. KeysWellFormed'
    BY <1>6 DEF storeVars, StoreInv, KeysWellFormed, JobsWellFormed,
                PointersWellFormed, Valid, Exists
  <2>3. /\ CoalesceKeyGuardsJob' /\ LiveJobHasSubscriber'
        /\ SubscriptionsAgree' /\ CancelFlagAgrees'
    BY <1>6 DEF storeVars, StoreInv, CoalesceKeyGuardsJob,
                LiveJobHasSubscriber, SubscriptionsAgree, CancelFlagAgrees,
                Exists, Live, Terminal
  <2> QED BY <2>1, <2>2, <2>3 DEF StoreInv
<1> QED BY <1>1, <1>2, <1>3, <1>4, <1>5, <1>6 DEF StoreNext

\* The keys of the store are consistent in every reachable state.
THEOREM StoreInvariant == StoreSpec => []StoreInv
BY StoreInitInv, StoreNextInv, PTL DEF StoreSpec

\* Every key has its type: no expiry time is negative, no list holds anything
\* but job identifiers.
THEOREM StoreTypeCorrect == StoreSpec => []StoreTypeOK
<1>1. StoreInv => StoreTypeOK
  BY DEF StoreInv
<1> QED BY <1>1, StoreInvariant, PTL

\* Every coalesce key names the live job of its fingerprint and outlives it,
\* unless a subscriber has left that job late.
THEOREM CoalesceKeyIsSound == StoreSpec => []CoalesceKeyGuardsJob
<1>1. StoreInv => CoalesceKeyGuardsJob
  BY DEF StoreInv
<1> QED BY <1>1, StoreInvariant, PTL

\* Requests coalesce: the coalesce key of a fingerprint names one job, and
\* every live job is named by its own.
THEOREM RequestsCoalesce == StoreSpec => []OneLiveJobPerFingerprint
<1>1. StoreInv => OneLiveJobPerFingerprint
  BY DEF StoreInv, CoalesceKeyGuardsJob, OneLiveJobPerFingerprint
<1> QED BY <1>1, StoreInvariant, PTL

\* Somebody waits for every live job: the last subscriber to leave cancels it
\* (store.go:336), and no key of a job expires before the others.
THEOREM LiveJobsAreAwaited == StoreSpec => []LiveJobHasSubscriber
<1>1. StoreInv => LiveJobHasSubscriber
  BY DEF StoreInv
<1> QED BY <1>1, StoreInvariant, PTL

\* The subscriber set of a job and the idempotency keys of its subscribers are
\* two records of one fact, and agree.
THEOREM SubscriptionsAreSound == StoreSpec => []SubscriptionsAgree
<1>1. StoreInv => SubscriptionsAgree
  BY DEF StoreInv
<1> QED BY <1>1, StoreInvariant, PTL

\* The flag a worker polls between its reports is set on cancelled jobs, on no
\* others, and neither outlives its job nor is outlived by it.
THEOREM FlagMarksCancelled == StoreSpec => []CancelFlagAgrees
<1>1. StoreInv => CancelFlagAgrees
  BY DEF StoreInv
<1> QED BY <1>1, StoreInvariant, PTL

-----------------------------------------------------------------------------
(* What a step may never do.                                               *)

LEMMA StoreNextKeepsTerminal ==
  ASSUME StoreInv, [StoreNext]_storeVars, NEW i \in Jobs, Terminal(i)
  PROVE  job'[i].state \in {job[i].state, "absent"}
<1>1. job[i].state \in TerminalStates /\ Exists(i) /\ ~Live(i)
  BY DEF Terminal, Exists, Live, LiveStates, TerminalStates
<1>2. job \in [Jobs -> JobRecord]
  BY DEF StoreInv, StoreTypeOK
<1>3. ASSUME NEW f \in Fingerprints, NEW k \in Subscribers, CreateOrJoin(f, k)
      PROVE  job'[i].state = job[i].state
  <2>1. CASE Join(f, k)
    BY <1>1, <1>2, <2>1 DEF Join, Joinable
  <2>2. ASSUME NEW j \in Jobs, Create(f, k, j)
        PROVE  job'[i].state = job[i].state
    <3>1. i # j
      BY <1>1, <2>2 DEF Create, StoreInv, KeysWellFormed, JobsWellFormed
    <3> QED BY <1>2, <2>2, <3>1 DEF Create
  <2>3. CASE RefuseFull(f, k)
    BY <2>3 DEF RefuseFull
  <2> QED BY <1>3, <2>1, <2>2, <2>3 DEF CreateOrJoin
<1>4. ASSUME NEW j \in Jobs, NEW k \in Subscribers, Unsubscribe(j, k)
      PROVE  job'[i].state = job[i].state
  <2>1. CASE k \in job[j].subscribers /\ i = j
    <3>1. job'[i] = LeftBy(j, k) /\ ~Cancels(j, k)
      BY <1>1, <1>2, <1>4, <2>1 DEF Unsubscribe, Cancels
    <3>2. job[j] \in JobRecord
      BY <1>2
    <3> QED BY <2>1, <3>1, <3>2 DEF LeftBy, JobRecord
  <2>2. CASE ~(k \in job[j].subscribers /\ i = j)
    BY <1>2, <1>4, <2>2 DEF Unsubscribe
  <2> QED BY <2>1, <2>2
<1>5. ASSUME NEW j \in Jobs, NEW s \in ReportedStates, Transition(j, s)
      PROVE  job'[i].state = job[i].state
  <2>1. i # j
    BY <1>1, <1>5 DEF Transition, TransitionReply, Terminal
  <2> QED BY <1>2, <1>5, <2>1 DEF Transition
<1>6. ASSUME NEW j \in Jobs, Claim(j) \/ Ack(j) \/ Pop(j) \/ Requeue(j)
      PROVE  job'[i].state = job[i].state
  BY <1>6 DEF Claim, Ack, Pop, Requeue, keyVars
<1>7. CASE Tick
  <2>1. job'[i] = AgedJob(job[i]) /\ job[i] \in JobRecord
    BY <1>2, <1>7 DEF Tick
  <2> QED BY <2>1, AgedJobFacts DEF AbsentJob
<1>8. CASE UNCHANGED storeVars
  BY <1>8 DEF storeVars
<1> QED BY <1>3, <1>4, <1>5, <1>6, <1>7, <1>8 DEF StoreNext

\* A finished job keeps its state until it expires, whatever a worker reports
\* late and whoever leaves.
THEOREM FinishedJobsStayFinished == StoreSpec => TerminalIsFinal
<1>1. StoreInv /\ [StoreNext]_storeVars
      => [\A j \in Jobs :
            Terminal(j) => job'[j].state \in {job[j].state, "absent"}]_job
  BY StoreNextKeepsTerminal
<1> QED BY <1>1, StoreInvariant, PTL DEF StoreSpec, TerminalIsFinal
=============================================================================
