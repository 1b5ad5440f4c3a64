------------------------------ MODULE JobQueue ------------------------------
(***************************************************************************)
(* The job queue: the API's clients, the Redis store, and the runners that *)
(* claim jobs and execute them (packages/jobqueue/runner.go).              *)
(*                                                                         *)
(* A runner is one worker process.  It recovers the processing list, then  *)
(* runs its workers, one goroutine each, until it is told to stop or one   *)
(* of them returns an error; the container restarts it.  A worker's pc     *)
(* names the Redis call it makes next, so that the steps of clients, other *)
(* workers and the clock fall between any two calls.                       *)
(***************************************************************************)
EXTENDS JobStore

CONSTANTS
  Runners,          \* the worker processes; the deployment runs one
  Workers,          \* their goroutines
  RunnerOf,         \* the process of each goroutine
  Program,          \* what the executor may do next, by the state it last
                    \* reported ("start" when it has reported none)
  MaxFaults,        \* bound on the faults of a behaviour: crashes, shutdowns
                    \* and failed Redis calls
  RecoveryMayFail   \* whether a fault may hit Recover between its RPOP and
                    \* its LPUSH

Stages == {"start"} \cup (LiveStates \ {"queued"})

\* One thing an executor does: look at the cancellation flag or not, then
\* report a state, return without error, or return an error of its own.
ExecutorStep == [check : BOOLEAN, to : ReportedStates \cup {"return", "error"}]

ASSUME QueueAssumption ==
  /\ IsFiniteSet(Workers)
  /\ RunnerOf \in [Workers -> Runners]
  /\ Program \in [Stages -> SUBSET ExecutorStep]
  /\ MaxFaults \in Nat
  /\ RecoveryMayFail \in BOOLEAN
  /\ Null \notin Runners \cup Workers

VARIABLES
  runner,   \* what each process does
  held,     \* the job a recovering process has popped and not yet pushed
  worker,   \* what each goroutine does
  faults    \* how many faults have happened

runnerVars == <<runner, held, worker, faults>>
vars == <<storeVars, runnerVars>>

RunnerState == {"down", "recovering", "requeueing", "running", "stopping"}

\* The calls of process that use the runner's context: they fail once it is
\* cancelled.  "execute" is the executor between two calls.
ContextCalls == {"idle", "claimed", "precheck", "execute", "check", "get",
                 "write", "reread"}

\* The calls that use context.WithoutCancel: settling a job the executor has
\* left, by way of Transition to "failed" if need be, and acknowledging it.
SettleCalls == {"settle", "settle-get", "settle-write", "settle-reread", "ack"}

WorkerRecord == [pc    : {"off"} \cup ContextCalls \cup SettleCalls,
                 job   : Jobs \cup {Null},
                 stage : Stages,
                 to    : ReportedStates]

Off == [pc |-> "off", job |-> Null, stage |-> "start", to |-> "failed"]

Idle == [Off EXCEPT !.pc = "idle"]

Busy(w) == worker[w].pc \notin {"off", "idle"}

\* The context of the goroutine's process has not been cancelled.
Running(w) == runner[RunnerOf[w]] = "running"

Init ==
  /\ StoreInit
  /\ runner = [r \in Runners |-> "down"]
  /\ held = [r \in Runners |-> Null]
  /\ worker = [w \in Workers |-> Off]
  /\ faults = 0

Fault == faults < MaxFaults /\ faults' = faults + 1

-----------------------------------------------------------------------------
(* The process: start, Recover, stop.                                      *)

Start(r) ==
  /\ runner[r] = "down"
  /\ runner' = [runner EXCEPT ![r] = "recovering"]
  /\ UNCHANGED <<storeVars, held, worker, faults>>

\* Mutant: the entry is read but not taken.
RecoverPeek(r) ==
  /\ runner[r] = "recovering"
  /\ held[r] = Null
  /\ processing # << >>
  /\ held' = [held EXCEPT ![r] = Last(processing)]
  /\ UNCHANGED <<storeVars, runner, worker, faults>>

RecoverPop(r) ==
  /\ runner[r] = "recovering"
  /\ held[r] = Null
  /\ \E j \in Jobs : Pop(j) /\ held' = [held EXCEPT ![r] = j]
  /\ UNCHANGED <<runner, worker, faults>>

\* Recover reads the job it holds and drops it if it is gone or finished.
RecoverGet(r) ==
  /\ runner[r] = "recovering"
  /\ held[r] # Null
  /\ IF Live(held[r])
     THEN runner' = [runner EXCEPT ![r] = "requeueing"] /\ UNCHANGED held
     ELSE held' = [held EXCEPT ![r] = Null] /\ UNCHANGED runner
  /\ UNCHANGED <<storeVars, worker, faults>>

RecoverPush(r) ==
  /\ runner[r] = "requeueing"
  /\ Requeue(held[r])
  /\ held' = [held EXCEPT ![r] = Null]
  /\ runner' = [runner EXCEPT ![r] = "recovering"]
  /\ UNCHANGED <<worker, faults>>

\* Mutant: the workers start with the processing list as it is.
StartWorkers(r) ==
  /\ runner[r] = "recovering"
  /\ held[r] = Null
  /\ runner' = [runner EXCEPT ![r] = "running"]
  /\ worker' = [w \in Workers |-> IF RunnerOf[w] = r THEN Idle ELSE worker[w]]
  /\ UNCHANGED <<storeVars, held, faults>>

\* The processing list is empty: the workers start.
RecoverDone(r) ==
  /\ runner[r] = "recovering"
  /\ held[r] = Null
  /\ processing = << >>
  /\ runner' = [runner EXCEPT ![r] = "running"]
  /\ worker' = [w \in Workers |-> IF RunnerOf[w] = r THEN Idle ELSE worker[w]]
  /\ UNCHANGED <<storeVars, held, faults>>

\* SIGTERM while the workers run.
Shutdown(r) ==
  /\ runner[r] = "running"
  /\ Fault
  /\ runner' = [runner EXCEPT ![r] = "stopping"]
  /\ UNCHANGED <<storeVars, held, worker>>

\* Mutant: Run returns without waiting for its workers.
StopAtOnce(r) ==
  /\ runner[r] = "stopping"
  /\ runner' = [runner EXCEPT ![r] = "down"]
  /\ UNCHANGED <<storeVars, held, worker, faults>>

\* Run returns once every worker has; main exits.
Stop(r) ==
  /\ runner[r] = "stopping"
  /\ \A w \in Workers : RunnerOf[w] = r => worker[w].pc = "off"
  /\ runner' = [runner EXCEPT ![r] = "down"]
  /\ UNCHANGED <<storeVars, held, worker, faults>>

\* The process dies, or Recover returns an error and main exits.  A job that
\* Recover holds is in neither list: it is gone with the process.
Crash(r) ==
  /\ runner[r] # "down"
  /\ held[r] # Null => RecoveryMayFail
  /\ Fault
  /\ runner' = [runner EXCEPT ![r] = "down"]
  /\ held' = [held EXCEPT ![r] = Null]
  /\ worker' = [w \in Workers |-> IF RunnerOf[w] = r THEN Off ELSE worker[w]]
  /\ UNCHANGED storeVars

-----------------------------------------------------------------------------
(* The worker loop and process.                                            *)

Goto(w, pc) == worker' = [worker EXCEPT ![w].pc = pc]

\* Mutant: the other workers go on without it.
QuitAlone(w) ==
  /\ worker' = [worker EXCEPT ![w] = Off]
  /\ UNCHANGED runner

\* A worker that returns cancels the context of its whole process.
Quit(w) ==
  /\ worker' = [worker EXCEPT ![w] = Off]
  /\ runner' = [runner EXCEPT ![RunnerOf[w]] = "stopping"]

ClaimJob(w) ==
  /\ worker[w].pc = "idle" /\ Running(w)
  /\ \E j \in Jobs : /\ Claim(j)
                     /\ worker' = [worker EXCEPT ![w].pc = "claimed",
                                                 ![w].job = j]
  /\ UNCHANGED <<runner, held, faults>>

\* The claim reaches Redis but the worker gives up: the context was cancelled
\* while BRPOPLPUSH blocked, so that the first read of the job fails, or the
\* reply was lost.  The job stays in the processing list.
StrandedClaim(w) ==
  /\ worker[w].pc = "idle"
  /\ \/ runner[RunnerOf[w]] = "stopping" /\ UNCHANGED faults
     \/ Running(w) /\ Fault
  /\ \E j \in Jobs : Claim(j)
  /\ Quit(w)
  /\ UNCHANGED held

\* process reads the job: one that is gone or finished is acknowledged.
Inspect(w) ==
  /\ worker[w].pc = "claimed" /\ Running(w)
  /\ Goto(w, IF Live(worker[w].job) THEN "precheck" ELSE "ack")
  /\ UNCHANGED <<storeVars, runner, held, faults>>

Precheck(w) ==
  /\ worker[w].pc = "precheck" /\ Running(w)
  /\ Goto(w, IF cancel[worker[w].job] > 0 THEN "ack" ELSE "execute")
  /\ UNCHANGED <<storeVars, runner, held, faults>>

\* The context is cancelled: the worker returns and leaves its job in the
\* processing list.
Interrupted(w) ==
  /\ worker[w].pc \in ContextCalls
  /\ runner[RunnerOf[w]] = "stopping"
  /\ worker' = [worker EXCEPT ![w] = Off]
  /\ UNCHANGED <<storeVars, runner, held, faults>>

-----------------------------------------------------------------------------
(* The executor, through its Reporter.                                     *)

\* It can return without error after the context has been cancelled; an error
\* of its own is then taken for the cancellation (Interrupted).
Execute(w) ==
  /\ worker[w].pc = "execute"
  /\ \E step \in Program[worker[w].stage] :
       \/ step.to = "return" /\ Goto(w, "settle")
       \/ step.to = "error" /\ Running(w) /\ Goto(w, "settle")
       \/ /\ step.to \in ReportedStates /\ Running(w)
          /\ worker' = [worker EXCEPT ![w].to = step.to,
                                      ![w].pc = IF step.check THEN "check"
                                                              ELSE "get"]
  /\ UNCHANGED <<storeVars, runner, held, faults>>

\* CancelRequested: ErrJobCancelled ends the execution.
CheckCancelled(w) ==
  /\ worker[w].pc = "check" /\ Running(w)
  /\ Goto(w, IF cancel[worker[w].job] > 0 THEN "ack" ELSE "get")
  /\ UNCHANGED <<storeVars, runner, held, faults>>

\* Mutant: only existence is checked.
GetUnchecked(w) ==
  /\ worker[w].pc = "get" /\ Running(w)
  /\ Goto(w, IF Exists(worker[w].job) THEN "write" ELSE "settle")
  /\ UNCHANGED <<storeVars, runner, held, faults>>

\* Mutant: a report the graph refuses counts as made.
GetAndIgnore(w) ==
  LET j == worker[w].job IN
  /\ worker[w].pc = "get" /\ Running(w)
  /\ Goto(w, IF ~Exists(j) THEN "settle"
             ELSE IF worker[w].to \in AllowedNext[job[j].state] THEN "write"
             ELSE "reread")
  /\ UNCHANGED <<storeVars, runner, held, faults>>

\* Store.Transition, first call: the graph is checked against the state read
\* here.  ErrNotFound and ErrInvalidInput lead to failAndAck.
GetForTransition(w) ==
  LET j == worker[w].job IN
  /\ worker[w].pc = "get" /\ Running(w)
  /\ Goto(w, IF Exists(j) /\ worker[w].to \in AllowedNext[job[j].state]
             THEN "write" ELSE "settle")
  /\ UNCHANGED <<storeVars, runner, held, faults>>

\* Second call: the script, which does not look at the graph again.
WriteTransition(w) ==
  LET j == worker[w].job IN
  /\ worker[w].pc = "write" /\ Running(w)
  /\ \/ /\ Transition(j, worker[w].to)
        /\ Goto(w, "reread")
     \/ /\ TransitionReply(j) = "cancelled"
        /\ Goto(w, "ack")
        /\ UNCHANGED storeVars
     \/ /\ TransitionReply(j) \in {"not-found", "terminal"}
        /\ Goto(w, "settle")
        /\ UNCHANGED storeVars
  /\ UNCHANGED <<runner, held, faults>>

\* Mutant: the executor goes on after a terminal state.
RereadAndGoOn(w) ==
  /\ worker[w].pc = "reread" /\ Running(w)
  /\ worker' = [worker EXCEPT ![w].pc = "execute", ![w].stage = worker[w].to]
  /\ UNCHANGED <<storeVars, runner, held, faults>>

\* Third call: the job is read back.  After a terminal state the executor
\* returns, with or without an error of this read.
RereadTransition(w) ==
  LET to == worker[w].to IN
  /\ worker[w].pc = "reread" /\ Running(w)
  /\ IF Exists(worker[w].job) /\ to \notin TerminalStates
     THEN worker' = [worker EXCEPT ![w].pc = "execute", ![w].stage = to]
     ELSE Goto(w, "settle")
  /\ UNCHANGED <<storeVars, runner, held, faults>>

-----------------------------------------------------------------------------
(* After the executor: the end of process, and failAndAck.  Both read the  *)
(* job, fail it if it is not finished, and acknowledge it; both return     *)
(* every error of these calls, which stops the process.                    *)

Settle(w) ==
  LET j == worker[w].job IN
  /\ worker[w].pc = "settle"
  /\ \/ Live(j) /\ Goto(w, "settle-get") /\ UNCHANGED runner
     \/ Terminal(j) /\ Goto(w, "ack") /\ UNCHANGED runner
     \/ ~Exists(j) /\ Quit(w)
  /\ UNCHANGED <<storeVars, held, faults>>

SettleGet(w) ==
  LET j == worker[w].job IN
  /\ worker[w].pc = "settle-get"
  /\ IF Live(j) THEN Goto(w, "settle-write") /\ UNCHANGED runner ELSE Quit(w)
  /\ UNCHANGED <<storeVars, held, faults>>

SettleWrite(w) ==
  LET j == worker[w].job IN
  /\ worker[w].pc = "settle-write"
  /\ \/ /\ Transition(j, "failed")
        /\ Goto(w, "settle-reread")
        /\ UNCHANGED runner
     \/ /\ TransitionReply(j) # "ok"
        /\ Quit(w)
        /\ UNCHANGED storeVars
  /\ UNCHANGED <<held, faults>>

SettleReread(w) ==
  /\ worker[w].pc = "settle-reread"
  /\ IF Exists(worker[w].job) THEN Goto(w, "ack") /\ UNCHANGED runner
                              ELSE Quit(w)
  /\ UNCHANGED <<storeVars, held, faults>>

\* Mutant: the entry stays in the processing list.
AckNothing(w) ==
  /\ worker[w].pc = "ack"
  /\ worker' = [worker EXCEPT ![w] = Idle]
  /\ UNCHANGED <<storeVars, runner, held, faults>>

\* The worker goes back to the head of its loop.
AckJob(w) ==
  /\ worker[w].pc = "ack"
  /\ Ack(worker[w].job)
  /\ worker' = [worker EXCEPT ![w] = Idle]
  /\ UNCHANGED <<runner, held, faults>>

-----------------------------------------------------------------------------
(* A Redis call fails or times out.  A write that took effect and lost its *)
(* reply is the fault at the next call.                                    *)

\* Mutant: the job is acknowledged without being failed.
ExecutorErrorAcks(w) ==
  /\ worker[w].pc \in {"check", "get", "write", "reread"} /\ Running(w)
  /\ Fault
  /\ Goto(w, "ack")
  /\ UNCHANGED <<storeVars, runner, held>>

\* In the executor: its error leads to failAndAck.
ExecutorCallFails(w) ==
  /\ worker[w].pc \in {"check", "get", "write", "reread"} /\ Running(w)
  /\ Fault
  /\ Goto(w, "settle")
  /\ UNCHANGED <<storeVars, runner, held>>

\* In the worker itself: it returns the error.  A lost reply of Ack has
\* removed the job from the processing list.
WorkerCallFails(w) ==
  /\ \/ worker[w].pc \in {"idle", "claimed", "precheck"} /\ Running(w)
     \/ worker[w].pc \in SettleCalls
  /\ Fault
  /\ Quit(w)
  /\ \/ UNCHANGED storeVars
     \/ worker[w].pc = "ack" /\ Ack(worker[w].job)
  /\ UNCHANGED held

-----------------------------------------------------------------------------
Client ==
  /\ \/ \E f \in Fingerprints, k \in Subscribers : CreateOrJoin(f, k)
     \/ \E j \in Jobs, k \in Subscribers : Unsubscribe(j, k)
  /\ UNCHANGED runnerVars

RecoverStep(r) ==
  RecoverPop(r) \/ RecoverGet(r) \/ RecoverPush(r) \/ RecoverDone(r)

ExecutorCall(w) ==
  \/ Execute(w) \/ CheckCancelled(w) \/ GetForTransition(w)
  \/ WriteTransition(w) \/ RereadTransition(w)

SettleCall(w) ==
  Settle(w) \/ SettleGet(w) \/ SettleWrite(w) \/ SettleReread(w) \/ AckJob(w)

\* What a worker does of itself, without a fault.
WorkerStep(w) ==
  \/ ClaimJob(w) \/ Inspect(w) \/ Precheck(w) \/ Interrupted(w)
  \/ ExecutorCall(w) \/ SettleCall(w)

Next ==
  \/ Client
  \/ Tick /\ UNCHANGED runnerVars
  \/ \E r \in Runners :
       Start(r) \/ RecoverStep(r) \/ Shutdown(r) \/ Stop(r) \/ Crash(r)
  \/ \E w \in Workers :
       WorkerStep(w) \/ StrandedClaim(w) \/ ExecutorCallFails(w)
       \/ WorkerCallFails(w)

Spec == Init /\ [][Next]_vars

\* The scheduler runs every goroutine that can run, every Redis call returns,
\* and the container is restarted whenever it is down.  Nothing is assumed of
\* clients, of the clock or of faults.
Fairness ==
  /\ \A r \in Runners : WF_vars(Start(r)) /\ WF_vars(RecoverStep(r))
                                          /\ WF_vars(Stop(r))
  /\ \A w \in Workers : WF_vars(WorkerStep(w))

FairSpec == Spec /\ Fairness

-----------------------------------------------------------------------------
(* Properties                                                              *)

TypeOK ==
  /\ StoreTypeOK
  /\ runner \in [Runners -> RunnerState]
  /\ held \in [Runners -> Jobs \cup {Null}]
  /\ worker \in [Workers -> WorkerRecord]
  /\ faults \in Nat

Queued(j) == j \in ToSet(queue)

InProcessing(j) == j \in ToSet(processing)

Held(j) == \E r \in Runners : held[r] = j

\* No entry is ever duplicated: through claims, acknowledgements, crashes and
\* recoveries, by any number of processes, a job is at most once in the queue,
\* in the processing list and in the hands of a recovering process together.
DeliveredOnce ==
  /\ IsInjective(queue)
  /\ IsInjective(processing)
  /\ \A j \in Jobs : ~(Queued(j) /\ InProcessing(j))
  /\ \A j \in Jobs : Held(j) => ~Queued(j) /\ ~InProcessing(j)
  /\ \A r, s \in Runners : held[r] # Null /\ held[r] = held[s] => r = s

\* No live job is lost: somebody will find it in the queue, in the processing
\* list, or is about to push it back.  Workers acknowledge only jobs that are
\* over, whatever happens between the calls of process.
NoLostJob ==
  ~RecoveryMayFail
  => \A j \in Jobs : Live(j) => Queued(j) \/ InProcessing(j) \/ Held(j)

\* "Keep the job in the processing list. The next worker startup calls Recover
\* and moves it back to the queue." (runner.go:125): what the comment promises
\* of an interrupted job, with no exception for a startup that fails too.
InterruptedJobIsKept ==
  \A j \in Jobs : Live(j) => Queued(j) \/ InProcessing(j) \/ Held(j)

\* A job has one worker, and the worker is the one its processing entry is
\* for.  With one process, recovery never takes a job from a running worker.
OneWorkerPerJob ==
  /\ \A w \in Workers : Busy(w) => InProcessing(worker[w].job)
  /\ \A v, w \in Workers :
       Busy(v) /\ Busy(w) /\ worker[v].job = worker[w].job => v = w

\* While the process runs, nothing rests in the processing list unattended:
\* an entry that only the next startup would find belongs to a process that
\* is on its way down.
NothingStrandedWhileRunning ==
  \A r \in Runners :
    runner[r] = "running"
    => \A j \in Jobs : InProcessing(j) => \E w \in Workers :
                                            Busy(w) /\ worker[w].job = j

\* Recovery pushes jobs past MaxQueued, but never more than the workers can
\* have left behind.
QueueBounded ==
  Len(queue) + Len(processing) <= MaxQueued + Cardinality(Workers)

\* An executor past its first report and the store agree on where the job is,
\* unless the job is over.
ExecutorViewAgrees ==
  \A w \in Workers :
    worker[w].pc \in {"execute", "check", "get", "write"}
    /\ worker[w].stage # "start" /\ Live(worker[w].job)
    => job[worker[w].job].state = worker[w].stage

\* The script does not look at the graph again, and yet no job ever takes a
\* step the graph does not have.
StatesFollowGraph ==
  [][\A j \in Jobs :
       Exists(j) /\ job'[j].state \notin {job[j].state, "absent"}
       => job'[j].state \in AllowedNext[job[j].state]]_job

\* A job interrupted after its first report is executed again from the start,
\* where its first report is refused: once back in the queue, it can only
\* fail or be cancelled.
ResumedJobsOnlyFail ==
  \A j \in Jobs :
    [](Queued(j) /\ job[j].state \notin {"queued", "absent"}
       => [](job[j].state \notin {"verified", "partial", "blocked"}))

\* What the queue promises its clients.
Lifecycle == INSTANCE JobLifecycle WITH
  state <- [j \in Jobs |-> job[j].state],
  fingerprint <- [j \in Jobs |-> job[j].fingerprint],
  subscribers <- [j \in Jobs |-> job[j].subscribers]

\* Every step of clients, workers, processes and clock is a step of the job
\* life cycle or none: coalescing, subscription and the graph hold together.
ImplementsLifecycle == Lifecycle!Spec

\* Every job is settled in the end: it reaches a final state or expires, and
\* no entry rests in the processing list for ever.
EveryJobSettles == \A j \in Jobs : Live(j) ~> ~Live(j)

EveryEntryIsCleared == \A j \in Jobs : InProcessing(j) ~> ~InProcessing(j)
=============================================================================
