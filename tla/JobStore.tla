------------------------------ MODULE JobStore ------------------------------
(***************************************************************************)
(* The Redis job store of packages/jobqueue/store.go.  Each action is one  *)
(* Lua script or one Redis command: the unit that Redis runs atomically.   *)
(* A key that does not exist is an AbsentJob or a NoPointer, and an expiry *)
(* time is the number of ticks the key still has to live.                  *)
(*                                                                         *)
(* The hash, the subscriber set and the event list of a job are one        *)
(* record, because every script that sets the expiry of one sets the       *)
(* expiry of the three.  Event contents, progress, result and timestamps   *)
(* are left out.  An error reply that changes no key is a stuttering step. *)
(***************************************************************************)
EXTENDS Naturals, Sequences, SequencesExt, JobStates

CONSTANTS
  Jobs,          \* the job identifiers NewJobID can draw; each is drawn once
  Fingerprints,  \* the fingerprints of the requests
  Subscribers,   \* the idempotency keys, one per subscriber
  JobTTL,        \* Config.JobTTL, in ticks
  TerminalTTL,   \* Config.TerminalTTL, in ticks
  MaxQueued,     \* Config.MaxQueued
  TimePasses,    \* FALSE in the runs in which no key expires
  Null           \* no job, no fingerprint

\* normalizeConfig, for the expiry times of DefaultConfig, which no program of
\* the repository changes.
ASSUME StoreAssumption ==
  /\ Null \notin Jobs \cup Fingerprints
  /\ TerminalTTL \in Nat \ {0}
  /\ JobTTL \in Nat
  /\ TerminalTTL <= JobTTL
  /\ MaxQueued \in Nat \ {0}
  /\ TimePasses \in BOOLEAN

VARIABLES
  job,          \* job:<id>, subscribers:<id> and events:<id>
  coalesce,     \* coalesce:<fingerprint>: the job new requests join
  idempotency,  \* idempotency:<fingerprint>:<key>: the job of a subscription
  cancel,       \* cancel:<id>: ticks the flag has to live, 0 when not set
  queue,        \* the queue list, its left end first
  processing,   \* the processing list, its left end first
  issued,       \* the job identifiers drawn so far
  lateLeaves    \* history: fingerprints of which a subscriber left a live job
                \* when the coalesce key had less than TerminalTTL to live

keyVars == <<job, coalesce, idempotency, cancel, issued, lateLeaves>>
storeVars == <<job, coalesce, idempotency, cancel, queue, processing, issued,
               lateLeaves>>

-----------------------------------------------------------------------------
JobRecord == [state       : States \cup {"absent"},
              fingerprint : Fingerprints \cup {Null},
              subscribers : SUBSET Subscribers,
              ttl         : 0 .. JobTTL]

AbsentJob == [state |-> "absent", fingerprint |-> Null, subscribers |-> {},
              ttl |-> 0]

Pointer == [job : Jobs \cup {Null}, ttl : 0 .. JobTTL]

NoPointer == [job |-> Null, ttl |-> 0]

\* SET key id EX JobTTL
PointerTo(j) == [job |-> j, ttl |-> JobTTL]

Exists(j) == j \in Jobs /\ job[j].state # "absent"

Live(j) == j \in Jobs /\ job[j].state \in LiveStates

Terminal(j) == j \in Jobs /\ job[j].state \in TerminalStates

\* Mutant: only a job nobody has claimed can be joined.
JoinableWhileQueued(f) ==
  coalesce[f].job # Null /\ job[coalesce[f].job].state = "queued"

\* The coalesce key of f names a job new requests can join.
Joinable(f) == Live(coalesce[f].job)

\* Mutant: off by one.
RoomForOneMore == Len(queue) <= MaxQueued

\* The LLEN check of createOrJoinScript.
QueueHasRoom == Len(queue) < MaxQueued

StoreInit ==
  /\ job = [j \in Jobs |-> AbsentJob]
  /\ coalesce = [f \in Fingerprints |-> NoPointer]
  /\ idempotency = [f \in Fingerprints |-> [k \in Subscribers |-> NoPointer]]
  /\ cancel = [j \in Jobs |-> 0]
  /\ queue = << >>
  /\ processing = << >>
  /\ issued = {}
  /\ lateLeaves = {}

-----------------------------------------------------------------------------
(* createOrJoinScript.  With an idempotency key present it answers with    *)
(* the job of that key and changes nothing.                                *)

\* Mutant: the SADD is forgotten.
RefreshedFor(j, k) == [job[j] EXCEPT !.ttl = JobTTL]

\* The job once k has joined it.
JoinedBy(j, k) == [job[j] EXCEPT !.subscribers = @ \cup {k}, !.ttl = JobTTL]

\* The coalesced job is live: k subscribes and every key is refreshed.
Join(f, k) ==
  /\ idempotency[f][k] = NoPointer
  /\ Joinable(f)
  /\ LET j == coalesce[f].job IN
       /\ job' = [job EXCEPT ![j] = JoinedBy(j, k)]
       /\ idempotency' = [idempotency EXCEPT ![f][k] = PointerTo(j)]
       /\ coalesce' = [coalesce EXCEPT ![f].ttl = JobTTL]
  /\ UNCHANGED <<cancel, queue, processing, issued, lateLeaves>>

\* No live job and room in the queue: a stale coalesce key is overwritten.
Create(f, k, j) ==
  /\ idempotency[f][k] = NoPointer
  /\ ~Joinable(f)
  /\ QueueHasRoom
  /\ j \notin issued
  /\ issued' = issued \cup {j}
  /\ job' = [job EXCEPT ![j] = [state |-> "queued", fingerprint |-> f,
                                subscribers |-> {k}, ttl |-> JobTTL]]
  /\ coalesce' = [coalesce EXCEPT ![f] = PointerTo(j)]
  /\ idempotency' = [idempotency EXCEPT ![f][k] = PointerTo(j)]
  /\ queue' = Append(queue, j)
  /\ UNCHANGED <<cancel, processing, lateLeaves>>

\* ErrQueueFull: the stale coalesce key has been deleted all the same.
RefuseFull(f, k) ==
  /\ idempotency[f][k] = NoPointer
  /\ ~Joinable(f)
  /\ ~QueueHasRoom
  /\ coalesce' = [coalesce EXCEPT ![f] = NoPointer]
  /\ UNCHANGED <<job, idempotency, cancel, queue, processing, issued,
                 lateLeaves>>

CreateOrJoin(f, k) ==
  \/ Join(f, k)
  \/ \E j \in Jobs : Create(f, k, j)
  \/ RefuseFull(f, k)

-----------------------------------------------------------------------------
(* unsubscribeScript.  The last subscriber to leave a live job cancels it. *)
(* The expiry of the job is set to TerminalTTL whether it is finished or   *)
(* not.                                                                    *)

\* Mutant: the last subscriber of a finished job cancels it too.
LeavesNobody(j, k) == job[j].subscribers \ {k} = {}

\* Mutant: nobody cancels.
NeverCancels(j, k) == FALSE

\* k is the last subscriber and the job is not finished.
Cancels(j, k) == job[j].subscribers \ {k} = {} /\ Live(j)

\* Mutant: the flag outlives the job.
LongFlag == JobTTL

\* The expiry of the cancellation flag.
FlagTTL == TerminalTTL

\* The job once k has left it.
LeftBy(j, k) ==
  [job[j] EXCEPT !.subscribers = @ \ {k},
                 !.state = IF Cancels(j, k) THEN "cancelled" ELSE @,
                 !.ttl = TerminalTTL]

Unsubscribe(j, k) ==
  LET f == job[j].fingerprint IN
  /\ Exists(j)
  /\ idempotency[f][k].job = j
  /\ idempotency' = [idempotency EXCEPT ![f][k] = NoPointer]
  /\ IF k \notin job[j].subscribers
     THEN UNCHANGED <<job, coalesce, cancel, lateLeaves>>
     ELSE /\ job' = [job EXCEPT ![j] = LeftBy(j, k)]
          /\ cancel' = IF Cancels(j, k) THEN [cancel EXCEPT ![j] = FlagTTL]
                                        ELSE cancel
          /\ coalesce' = IF Cancels(j, k) /\ coalesce[f].job = j
                         THEN [coalesce EXCEPT ![f] = NoPointer] ELSE coalesce
          /\ lateLeaves' = IF /\ Live(j) /\ ~Cancels(j, k)
                              /\ coalesce[f].ttl < TerminalTTL
                           THEN lateLeaves \cup {f} ELSE lateLeaves
  /\ UNCHANGED <<queue, processing, issued>>

-----------------------------------------------------------------------------
(* transitionScript: its reply, and its effect when the reply is "ok".     *)

\* Mutant: only cancellation is looked at.
ReplyUnlessCancelled(j) ==
  IF ~Exists(j) THEN "not-found"
  ELSE IF job[j].state = "cancelled" \/ cancel[j] > 0 THEN "cancelled"
  ELSE "ok"

TransitionReply(j) ==
  IF ~Exists(j) THEN "not-found"
  ELSE IF job[j].state = "cancelled" \/ cancel[j] > 0 THEN "cancelled"
  ELSE IF Terminal(j) THEN "terminal"
  ELSE "ok"

\* Mutant: a finished job keeps its coalesce key.
KeyRefreshed(p, j, s) == IF p = NoPointer THEN p ELSE [p EXCEPT !.ttl = JobTTL]

\* A terminal state releases the coalesce key if this job owns it; any other
\* state refreshes the key, whichever job it names.
KeyAfter(p, j, s) ==
  IF s \in TerminalStates
  THEN IF p.job = j THEN NoPointer ELSE p
  ELSE IF p = NoPointer THEN p ELSE [p EXCEPT !.ttl = JobTTL]

\* The job in its new state.
MovedTo(j, s) ==
  [job[j] EXCEPT !.state = s,
                 !.ttl = IF s \in TerminalStates THEN TerminalTTL ELSE JobTTL]

Transition(j, s) ==
  LET f == job[j].fingerprint IN
  /\ TransitionReply(j) = "ok"
  /\ job' = [job EXCEPT ![j] = MovedTo(j, s)]
  /\ coalesce' = [coalesce EXCEPT ![f] = KeyAfter(@, j, s)]
  /\ UNCHANGED <<idempotency, cancel, queue, processing, issued, lateLeaves>>

-----------------------------------------------------------------------------
(* The two lists.                                                          *)

\* Claim: BRPOPLPUSH takes the right end of the queue, where RPUSH appends.
Claim(j) ==
  /\ queue # << >>
  /\ j = Last(queue)
  /\ queue' = Front(queue)
  /\ processing' = Cons(j, processing)
  /\ UNCHANGED keyVars

\* Ack: LREM processing 1 id
Ack(j) ==
  /\ processing' = RemoveFirst(processing, j)
  /\ UNCHANGED keyVars
  /\ UNCHANGED queue

\* Recover: RPOP processing
Pop(j) ==
  /\ processing # << >>
  /\ j = Last(processing)
  /\ processing' = Front(processing)
  /\ UNCHANGED keyVars
  /\ UNCHANGED queue

\* Recover: LPUSH queue id, with no regard to MaxQueued
Requeue(j) ==
  /\ queue' = Cons(j, queue)
  /\ UNCHANGED keyVars
  /\ UNCHANGED processing

-----------------------------------------------------------------------------
(* One tick of the Redis clock: every expiry time runs down and the keys   *)
(* that have none left are gone.                                           *)

\* Mutant: nothing is ever removed.
CountedDown(r) == [r EXCEPT !.ttl = @ - 1]

AgedJob(r) == IF r.ttl <= 1 THEN AbsentJob ELSE [r EXCEPT !.ttl = @ - 1]

AgedPointer(p) == IF p.ttl <= 1 THEN NoPointer ELSE [p EXCEPT !.ttl = @ - 1]

Tick ==
  /\ TimePasses
  /\ job' = [j \in Jobs |-> AgedJob(job[j])]
  /\ coalesce' = [f \in Fingerprints |-> AgedPointer(coalesce[f])]
  /\ idempotency' = [f \in Fingerprints |->
                       [k \in Subscribers |-> AgedPointer(idempotency[f][k])]]
  /\ cancel' = [j \in Jobs |-> IF cancel[j] = 0 THEN 0 ELSE cancel[j] - 1]
  /\ UNCHANGED <<queue, processing, issued, lateLeaves>>

-----------------------------------------------------------------------------
(* The store with any caller: clients and workers call it in any order,    *)
(* with any arguments their own checks let through (Store.Transition only  *)
(* refuses "queued"; no executor reports "cancelled").                     *)

ReportedStates == States \ {"queued", "cancelled"}

StoreNext ==
  \/ \E f \in Fingerprints, k \in Subscribers : CreateOrJoin(f, k)
  \/ \E j \in Jobs, k \in Subscribers : Unsubscribe(j, k)
  \/ \E j \in Jobs, s \in ReportedStates : Transition(j, s)
  \/ \E j \in Jobs : Claim(j) \/ Ack(j) \/ Pop(j) \/ Requeue(j)
  \/ Tick

StoreSpec == StoreInit /\ [][StoreNext]_storeVars

-----------------------------------------------------------------------------
(* Properties                                                              *)

StoreTypeOK ==
  /\ job \in [Jobs -> JobRecord]
  /\ coalesce \in [Fingerprints -> Pointer]
  /\ idempotency \in [Fingerprints -> [Subscribers -> Pointer]]
  /\ cancel \in [Jobs -> 0 .. JobTTL]
  /\ queue \in Seq(Jobs)
  /\ processing \in Seq(Jobs)
  /\ issued \in SUBSET Jobs
  /\ lateLeaves \in SUBSET Fingerprints

\* Requests coalesce: two live jobs never have the same fingerprint, unless a
\* subscriber left a live job so late that unsubscribeScript lengthened the
\* life of the job beyond that of its coalesce key (store.go:352).
OneLiveJobPerFingerprint ==
  \A i, j \in Jobs :
    /\ Live(i) /\ Live(j)
    /\ job[i].fingerprint = job[j].fingerprint
    /\ job[i].fingerprint \notin lateLeaves
    => i = j

\* The same without the exception: what the tests of CreateOrJoin take for
\* granted when they expect every request for a live fingerprint to join it.
RequestsAlwaysCoalesce ==
  \A i, j \in Jobs :
    Live(i) /\ Live(j) /\ job[i].fingerprint = job[j].fingerprint => i = j

\* The coalesce key never leads a new request to a finished job, and a live
\* job outlives neither its coalesce key nor its place in it.
CoalesceKeyGuardsJob ==
  /\ \A f \in Fingerprints : ~Terminal(coalesce[f].job)
  /\ \A j \in Jobs :
       Live(j) /\ job[j].fingerprint \notin lateLeaves
       => /\ coalesce[job[j].fingerprint].job = j
          /\ coalesce[job[j].fingerprint].ttl >= job[j].ttl

\* Somebody waits for every live job: the last one to leave cancels it, and
\* the expiry of the subscriber set never runs ahead of the job's.
LiveJobHasSubscriber ==
  \A j \in Jobs : Live(j) => job[j].subscribers # {}

\* The two records of a subscription agree.  An idempotency key that names a
\* stored job names a job of its fingerprint that its owner is subscribed to,
\* and nobody subscribed to a live job holds a key for another job.
SubscriptionsAgree ==
  \A f \in Fingerprints, k \in Subscribers, j \in Jobs :
    /\ Exists(j) /\ idempotency[f][k].job = j
       => job[j].fingerprint = f /\ k \in job[j].subscribers
    /\ /\ Live(j) /\ job[j].fingerprint = f /\ f \notin lateLeaves
       /\ k \in job[j].subscribers
       => idempotency[f][k].job \in {j, Null}

\* The cancellation flag workers poll is set exactly on cancelled jobs, and
\* lives exactly as long as the job.
CancelFlagAgrees ==
  \A j \in Jobs :
    cancel[j] = IF job[j].state = "cancelled" THEN job[j].ttl ELSE 0

\* A finished job keeps its state until it expires: no late report of a worker
\* and no late departure of a subscriber changes it.
TerminalIsFinal ==
  [][\A j \in Jobs : Terminal(j) => job'[j].state \in {job[j].state, "absent"}]_job
=============================================================================
