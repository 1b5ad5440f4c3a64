--------------------------- MODULE JobQueueProofs ---------------------------
(***************************************************************************)
(* Proofs about the job queue: any number of processes, goroutines, jobs   *)
(* and faults.  Whatever the runners do to the store is a step of          *)
(* StoreNext, so that every theorem about the store holds in the queue.    *)
(***************************************************************************)
EXTENDS JobQueue, JobStoreProofs

\* A goroutine past its claim has a job.
WorkersWellFormed ==
  /\ worker \in [Workers -> WorkerRecord]
  /\ \A w \in Workers : Busy(w) => worker[w].job \in Jobs

\* A process about to push a job back has one.
ProcessesWellFormed ==
  /\ runner \in [Runners -> RunnerState]
  /\ held \in [Runners -> Jobs \cup {Null}]
  /\ \A r \in Runners : runner[r] = "requeueing" => held[r] \in Jobs

RunnerInv == WorkersWellFormed /\ ProcessesWellFormed /\ faults \in Nat

-----------------------------------------------------------------------------
(* What a step does to one goroutine or to one process.                    *)

LEMMA WorkerUpdate ==
  ASSUME WorkersWellFormed, NEW w \in Workers, NEW rec \in WorkerRecord,
         rec.pc \notin {"off", "idle"} => rec.job \in Jobs,
         worker' = [worker EXCEPT ![w] = rec]
  PROVE  WorkersWellFormed'
<1>1. worker' \in [Workers -> WorkerRecord]
  BY DEF WorkersWellFormed
<1>2. /\ worker'[w] = rec
      /\ \A v \in Workers : v # w => worker'[v] = worker[v]
  BY DEF WorkersWellFormed
<1>3. ASSUME NEW v \in Workers, Busy(v)'
      PROVE  worker'[v].job \in Jobs
  BY <1>2, <1>3 DEF WorkersWellFormed, Busy
<1> QED BY <1>1, <1>3 DEF WorkersWellFormed

LEMMA IdleRecords == Off \in WorkerRecord /\ Idle \in WorkerRecord
                     /\ Off.pc = "off" /\ Idle.pc = "idle"
<1>1. Off \in WorkerRecord /\ Off.pc = "off"
  BY DEF Off, WorkerRecord, Stages, ReportedStates, States, TerminalStates
<1>2. Idle = [pc |-> "idle", job |-> Null, stage |-> "start", to |-> "failed"]
  BY DEF Idle, Off
<1>3. Idle \in WorkerRecord /\ Idle.pc = "idle"
  BY <1>2 DEF WorkerRecord, ContextCalls, Stages, ReportedStates, States,
              TerminalStates
<1> QED BY <1>1, <1>3

LEMMA GotoKeeps ==
  ASSUME WorkersWellFormed, NEW w \in Workers, Busy(w),
         NEW pc \in ContextCalls \cup SettleCalls, Goto(w, pc)
  PROVE  WorkersWellFormed'
<1> DEFINE rec == [worker[w] EXCEPT !.pc = pc]
<1>1. worker[w] \in WorkerRecord /\ worker[w].job \in Jobs
  BY DEF WorkersWellFormed
<1>2. rec \in WorkerRecord /\ rec.job \in Jobs
  BY <1>1 DEF WorkerRecord
<1>3. worker' = [worker EXCEPT ![w] = rec]
  BY DEF Goto
<1> QED BY <1>2, <1>3, WorkerUpdate

\* The context of a process is cancelled, or nothing happens to it.
LEMMA StoppingKeeps ==
  ASSUME ProcessesWellFormed, NEW r, UNCHANGED held,
         \/ UNCHANGED runner
         \/ runner' = [runner EXCEPT ![r] = "stopping"]
         \/ runner' = [runner EXCEPT ![r] = "down"]
  PROVE  ProcessesWellFormed'
BY DEF ProcessesWellFormed, RunnerState

LEMMA OffKeeps ==
  ASSUME WorkersWellFormed, NEW w \in Workers,
         worker' = [worker EXCEPT ![w] = Off]
  PROVE  WorkersWellFormed'
BY IdleRecords, WorkerUpdate

\* The workers of a process are all started, or all die.
LEMMA WorkersReset ==
  ASSUME WorkersWellFormed, NEW r, NEW rec \in {Off, Idle},
         worker' = [w \in Workers |-> IF RunnerOf[w] = r THEN rec
                                                         ELSE worker[w]]
  PROVE  WorkersWellFormed'
<1>1. rec \in WorkerRecord /\ rec.pc \in {"off", "idle"}
  BY IdleRecords
<1>2. worker' \in [Workers -> WorkerRecord]
  BY <1>1 DEF WorkersWellFormed
<1>3. ASSUME NEW v \in Workers, Busy(v)'
      PROVE  worker'[v].job \in Jobs
  BY <1>1, <1>3 DEF WorkersWellFormed, Busy
<1> QED BY <1>2, <1>3 DEF WorkersWellFormed


-----------------------------------------------------------------------------
(* RunnerInv is inductive.                                                 *)

LEMMA RunnerInitInv == ASSUME Init PROVE RunnerInv
<1>1. WorkersWellFormed
  BY IdleRecords DEF Init, WorkersWellFormed, Busy
<1> QED BY <1>1 DEF Init, RunnerInv, ProcessesWellFormed, RunnerState

\* Starting, recovering, stopping and dying.
LEMMA ProcessStepInv ==
  ASSUME RunnerInv, NEW r \in Runners,
         Start(r) \/ RecoverStep(r) \/ Shutdown(r) \/ Stop(r) \/ Crash(r)
  PROVE  RunnerInv'
<1> USE DEF RunnerInv
<1>1. CASE Start(r)
  <2>1. UNCHANGED worker /\ UNCHANGED faults
    BY <1>1 DEF Start
  <2>2. ProcessesWellFormed'
    BY <1>1 DEF Start, ProcessesWellFormed, RunnerState
  <2> QED BY <2>1, <2>2 DEF WorkersWellFormed, Busy
<1>2. CASE RecoverPop(r)
  <2>1. UNCHANGED worker /\ UNCHANGED faults
    BY <1>2 DEF RecoverPop
  <2>2. ProcessesWellFormed'
    BY <1>2 DEF RecoverPop, ProcessesWellFormed
  <2> QED BY <2>1, <2>2 DEF WorkersWellFormed, Busy
<1>3. CASE RecoverGet(r)
  <2>1. UNCHANGED worker /\ UNCHANGED faults
    BY <1>3 DEF RecoverGet
  <2>2. ProcessesWellFormed'
    BY <1>3 DEF RecoverGet, ProcessesWellFormed, RunnerState, Live
  <2> QED BY <2>1, <2>2 DEF WorkersWellFormed, Busy
<1>4. CASE RecoverPush(r)
  <2>1. UNCHANGED worker /\ UNCHANGED faults
    BY <1>4 DEF RecoverPush
  <2>2. ProcessesWellFormed'
    BY <1>4 DEF RecoverPush, ProcessesWellFormed, RunnerState
  <2> QED BY <2>1, <2>2 DEF WorkersWellFormed, Busy
<1>5. CASE RecoverDone(r)
  <2>1. UNCHANGED faults
    BY <1>5 DEF RecoverDone
  <2>2. WorkersWellFormed'
    BY <1>5, WorkersReset DEF RecoverDone
  <2>3. ProcessesWellFormed'
    BY <1>5 DEF RecoverDone, ProcessesWellFormed, RunnerState
  <2> QED BY <2>1, <2>2, <2>3
<1>6. CASE Shutdown(r)
  <2>1. UNCHANGED worker /\ faults' \in Nat
    BY <1>6 DEF Shutdown, Fault
  <2>2. ProcessesWellFormed'
    BY <1>6, StoppingKeeps DEF Shutdown
  <2> QED BY <2>1, <2>2 DEF WorkersWellFormed, Busy
<1>7. CASE Stop(r)
  <2>1. UNCHANGED worker /\ UNCHANGED faults
    BY <1>7 DEF Stop
  <2>2. ProcessesWellFormed'
    BY <1>7, StoppingKeeps DEF Stop
  <2> QED BY <2>1, <2>2 DEF WorkersWellFormed, Busy
<1>8. CASE Crash(r)
  <2>1. faults' \in Nat
    BY <1>8 DEF Crash, Fault
  <2>2. WorkersWellFormed'
    BY <1>8, WorkersReset DEF Crash
  <2>3. ProcessesWellFormed'
    BY <1>8 DEF Crash, ProcessesWellFormed, RunnerState
  <2> QED BY <2>1, <2>2, <2>3
<1> QED BY <1>1, <1>2, <1>3, <1>4, <1>5, <1>6, <1>7, <1>8 DEF RecoverStep

\* The loop of a worker and what process does before it executes the job.
LEMMA WorkerLoopInv ==
  ASSUME RunnerInv, NEW w \in Workers,
         \/ ClaimJob(w) \/ Inspect(w) \/ Precheck(w) \/ Interrupted(w)
         \/ StrandedClaim(w)
  PROVE  RunnerInv'
<1> USE DEF RunnerInv
<1>1. CASE ClaimJob(w)
  <2>1. PICK j \in Jobs : worker' = [worker EXCEPT ![w].pc = "claimed",
                                                  ![w].job = j]
    BY <1>1 DEF ClaimJob
  <2> DEFINE rec == [worker[w] EXCEPT !.pc = "claimed", !.job = j]
  <2>2. worker[w] \in WorkerRecord
    BY DEF WorkersWellFormed
  <2>3. rec \in WorkerRecord /\ rec.job = j
    BY <2>2 DEF WorkerRecord, ContextCalls
  <2>4. worker' = [worker EXCEPT ![w] = rec]
    BY <2>1, <2>2 DEF WorkersWellFormed, WorkerRecord
  <2>5. WorkersWellFormed'
    BY <2>3, <2>4, WorkerUpdate
  <2>6. UNCHANGED <<runner, held, faults>>
    BY <1>1 DEF ClaimJob
  <2> QED BY <2>5, <2>6, StoppingKeeps
<1>2. CASE Inspect(w)
  <2>1. WorkersWellFormed'
    BY <1>2, GotoKeeps DEF Inspect, Busy, ContextCalls, SettleCalls
  <2>2. UNCHANGED <<runner, held, faults>>
    BY <1>2 DEF Inspect
  <2> QED BY <2>1, <2>2, StoppingKeeps
<1>3. CASE Precheck(w)
  <2>1. WorkersWellFormed'
    BY <1>3, GotoKeeps DEF Precheck, Busy, ContextCalls, SettleCalls
  <2>2. UNCHANGED <<runner, held, faults>>
    BY <1>3 DEF Precheck
  <2> QED BY <2>1, <2>2, StoppingKeeps
<1>4. CASE Interrupted(w)
  <2>1. WorkersWellFormed'
    BY <1>4, OffKeeps DEF Interrupted
  <2>2. UNCHANGED <<runner, held, faults>>
    BY <1>4 DEF Interrupted
  <2> QED BY <2>1, <2>2, StoppingKeeps
<1>5. CASE StrandedClaim(w)
  <2>1. WorkersWellFormed'
    BY <1>5, OffKeeps DEF StrandedClaim, Quit
  <2>2. faults' \in Nat
    BY <1>5 DEF StrandedClaim, Fault
  <2>3. ProcessesWellFormed'
    BY <1>5, StoppingKeeps DEF StrandedClaim, Quit
  <2> QED BY <2>1, <2>2, <2>3
<1> QED BY <1>1, <1>2, <1>3, <1>4, <1>5

\* The executor's calls.
LEMMA ExecutorCallInv ==
  ASSUME RunnerInv, NEW w \in Workers, ExecutorCall(w)
  PROVE  RunnerInv'
<1> USE DEF RunnerInv
<1>1. UNCHANGED <<runner, held, faults>>
  BY DEF ExecutorCall, Execute, CheckCancelled, GetForTransition,
         WriteTransition, RereadTransition
<1>2. ProcessesWellFormed' /\ faults' \in Nat
  BY <1>1, StoppingKeeps
<1>3. Busy(w) /\ worker[w] \in WorkerRecord /\ worker[w].job \in Jobs
  BY DEF WorkersWellFormed, ExecutorCall, Execute, CheckCancelled,
         GetForTransition, WriteTransition, RereadTransition, Busy
<1>4. CASE \E pc \in ContextCalls \cup SettleCalls : Goto(w, pc)
  BY <1>2, <1>3, <1>4, GotoKeeps
<1>5. CASE Execute(w)
  <2>1. PICK step \in Program[worker[w].stage] :
          \/ Goto(w, "settle")
          \/ /\ step.to \in ReportedStates
             /\ worker' = [worker EXCEPT ![w].to = step.to,
                                         ![w].pc = IF step.check THEN "check"
                                                                 ELSE "get"]
    BY <1>5 DEF Execute
  <2>2. CASE Goto(w, "settle")
    BY <2>2, <1>4 DEF SettleCalls
  <2>3. CASE ~Goto(w, "settle")
    <3> DEFINE pc == IF step.check THEN "check" ELSE "get"
               rec == [worker[w] EXCEPT !.to = step.to, !.pc = pc]
    <3>1. pc \in ContextCalls
      BY DEF ContextCalls
    <3>2. worker' = [worker EXCEPT ![w] = rec]
      BY <2>1, <2>3, <1>3 DEF WorkersWellFormed, WorkerRecord
    <3> HIDE DEF pc
    <3>3. rec \in WorkerRecord /\ rec.job \in Jobs
      BY <2>1, <2>3, <1>3, <3>1 DEF WorkerRecord
    <3> QED BY <1>2, <3>2, <3>3, WorkerUpdate
  <2> QED BY <2>2, <2>3
<1>6. CASE CheckCancelled(w)
  BY <1>4, <1>6 DEF CheckCancelled, ContextCalls, SettleCalls
<1>7. CASE GetForTransition(w)
  BY <1>4, <1>7 DEF GetForTransition, ContextCalls, SettleCalls
<1>8. CASE WriteTransition(w)
  BY <1>4, <1>8 DEF WriteTransition, ContextCalls, SettleCalls
<1>9. CASE RereadTransition(w)
  <2>1. CASE Goto(w, "settle")
    BY <2>1, <1>4 DEF SettleCalls
  <2>2. CASE ~Goto(w, "settle")
    <3> DEFINE to == worker[w].to
               rec == [worker[w] EXCEPT !.pc = "execute", !.stage = to]
    <3>1. /\ worker' = [worker EXCEPT ![w].pc = "execute", ![w].stage = to]
          /\ to \notin TerminalStates
      BY <1>9, <2>2 DEF RereadTransition
    <3>2. worker' = [worker EXCEPT ![w] = rec]
      BY <3>1, <1>3 DEF WorkersWellFormed, WorkerRecord
    <3>3. to \in Stages
      BY <3>1, <1>3 DEF WorkerRecord, ReportedStates, States, Stages
    <3> HIDE DEF to
    <3>4. rec \in WorkerRecord /\ rec.job \in Jobs
      BY <1>3, <3>3 DEF WorkerRecord, ContextCalls
    <3> QED BY <1>2, <3>2, <3>4, WorkerUpdate
  <2> QED BY <2>1, <2>2
<1> QED BY <1>5, <1>6, <1>7, <1>8, <1>9 DEF ExecutorCall

\* Settling and acknowledging.
LEMMA SettleCallInv ==
  ASSUME RunnerInv, NEW w \in Workers, SettleCall(w)
  PROVE  RunnerInv'
<1> USE DEF RunnerInv
<1>1. UNCHANGED held /\ UNCHANGED faults
  BY DEF SettleCall, Settle, SettleGet, SettleWrite, SettleReread, AckJob
<1>2. Busy(w)
  BY DEF SettleCall, Settle, SettleGet, SettleWrite, SettleReread, AckJob,
         Busy
<1>3. \/ \E pc \in SettleCalls : Goto(w, pc) /\ UNCHANGED runner
      \/ Quit(w)
      \/ worker' = [worker EXCEPT ![w] = Idle] /\ UNCHANGED runner
  BY DEF SettleCall, Settle, SettleGet, SettleWrite, SettleReread, AckJob,
         SettleCalls
<1>4. ProcessesWellFormed'
  BY <1>1, <1>3, StoppingKeeps DEF Quit
<1>5. WorkersWellFormed'
  BY <1>2, <1>3, GotoKeeps, OffKeeps, WorkerUpdate, IdleRecords DEF Quit
<1> QED BY <1>1, <1>4, <1>5

\* Failed calls.
LEMMA CallFailsInv ==
  ASSUME RunnerInv, NEW w \in Workers,
         ExecutorCallFails(w) \/ WorkerCallFails(w)
  PROVE  RunnerInv'
<1> USE DEF RunnerInv
<1>1. UNCHANGED held /\ faults' \in Nat
  BY DEF ExecutorCallFails, WorkerCallFails, Fault
<1>2. CASE ExecutorCallFails(w)
  BY <1>1, <1>2, GotoKeeps, StoppingKeeps
     DEF ExecutorCallFails, Busy, SettleCalls
<1>3. CASE WorkerCallFails(w)
  BY <1>1, <1>3, OffKeeps, StoppingKeeps DEF WorkerCallFails, Quit
<1> QED BY <1>2, <1>3

LEMMA RunnerNextInv == ASSUME RunnerInv, [Next]_vars PROVE RunnerInv'
<1>1. CASE UNCHANGED runnerVars
  BY <1>1 DEF runnerVars, RunnerInv, WorkersWellFormed, ProcessesWellFormed,
              Busy
<1>2. CASE \E r \in Runners :
             Start(r) \/ RecoverStep(r) \/ Shutdown(r) \/ Stop(r) \/ Crash(r)
  BY <1>2, ProcessStepInv
<1>3. CASE \E w \in Workers :
             WorkerStep(w) \/ StrandedClaim(w) \/ ExecutorCallFails(w)
             \/ WorkerCallFails(w)
  BY <1>3, WorkerLoopInv, ExecutorCallInv, SettleCallInv, CallFailsInv
     DEF WorkerStep
<1> QED BY <1>1, <1>2, <1>3 DEF Next, Client, vars

-----------------------------------------------------------------------------
(* What the runners do to the store.                                       *)

LEMMA ReportedFailed == "failed" \in ReportedStates
BY DEF ReportedStates, States, TerminalStates

\* Every step of the queue is a step of the store with any caller, or leaves
\* the store as it is.
LEMMA NextIsStoreStep ==
  ASSUME RunnerInv, [Next]_vars
  PROVE  [StoreNext]_storeVars
<1>1. CASE UNCHANGED vars
  BY <1>1 DEF vars
<1>2. CASE Client
  BY <1>2 DEF Client, StoreNext
<1>3. CASE Tick
  BY <1>3 DEF StoreNext
<1>4. ASSUME NEW r \in Runners,
             Start(r) \/ RecoverStep(r) \/ Shutdown(r) \/ Stop(r) \/ Crash(r)
      PROVE  [StoreNext]_storeVars
  <2>1. CASE RecoverPop(r)
    BY <2>1 DEF RecoverPop, StoreNext
  <2>2. CASE RecoverPush(r)
    <3>1. held[r] \in Jobs
      BY <2>2 DEF RecoverPush, RunnerInv, ProcessesWellFormed
    <3>2. Requeue(held[r])
      BY <2>2 DEF RecoverPush
    <3> QED BY <3>1, <3>2 DEF StoreNext
  <2>3. CASE RecoverGet(r) \/ RecoverDone(r)
    BY <2>3 DEF RecoverGet, RecoverDone
  <2>4. CASE Start(r) \/ Shutdown(r) \/ Stop(r) \/ Crash(r)
    BY <2>4 DEF Start, Shutdown, Stop, Crash
  <2> QED BY <1>4, <2>1, <2>2, <2>3, <2>4 DEF RecoverStep
<1>5. ASSUME NEW w \in Workers,
             WorkerStep(w) \/ StrandedClaim(w) \/ ExecutorCallFails(w)
             \/ WorkerCallFails(w)
      PROVE  [StoreNext]_storeVars
  <2>1. CASE ClaimJob(w) \/ StrandedClaim(w)
    BY <2>1 DEF ClaimJob, StrandedClaim, StoreNext
  <2>2. CASE Inspect(w) \/ Precheck(w) \/ Interrupted(w)
    BY <2>2 DEF Inspect, Precheck, Interrupted
  <2>3. CASE Execute(w) \/ CheckCancelled(w) \/ GetForTransition(w)
             \/ RereadTransition(w) \/ ExecutorCallFails(w)
    BY <2>3 DEF Execute, CheckCancelled, GetForTransition, RereadTransition,
                ExecutorCallFails
  <2>4. CASE WriteTransition(w)
    <3>1. worker[w].job \in Jobs /\ worker[w].to \in ReportedStates
      BY <2>4 DEF WriteTransition, RunnerInv, WorkersWellFormed, Busy,
                  WorkerRecord
    <3>2. Transition(worker[w].job, worker[w].to) \/ UNCHANGED storeVars
      BY <2>4 DEF WriteTransition
    <3> QED BY <3>1, <3>2 DEF StoreNext
  <2>5. CASE Settle(w) \/ SettleGet(w) \/ SettleReread(w)
    BY <2>5 DEF Settle, SettleGet, SettleReread
  <2>6. CASE SettleWrite(w)
    <3>1. worker[w].job \in Jobs
      BY <2>6 DEF SettleWrite, RunnerInv, WorkersWellFormed, Busy
    <3>2. Transition(worker[w].job, "failed") \/ UNCHANGED storeVars
      BY <2>6 DEF SettleWrite
    <3> QED BY <3>1, <3>2, ReportedFailed DEF StoreNext
  <2>7. CASE AckJob(w) \/ WorkerCallFails(w)
    <3>1. CASE UNCHANGED storeVars
      BY <3>1
    <3>2. CASE worker[w].pc = "ack" /\ Ack(worker[w].job)
      <4>1. worker[w].job \in Jobs
        BY <3>2 DEF RunnerInv, WorkersWellFormed, Busy
      <4> QED BY <4>1, <3>2 DEF StoreNext
    <3> QED BY <2>7, <3>1, <3>2 DEF AckJob, WorkerCallFails
  <2> QED BY <1>5, <2>1, <2>2, <2>3, <2>4, <2>5, <2>6, <2>7
          DEF WorkerStep, ExecutorCall, SettleCall
<1> QED BY <1>1, <1>2, <1>3, <1>4, <1>5 DEF Next

\* The queue uses the store as any caller may: its clients and runners call
\* it with jobs that exist or existed and with states an executor may report
\* (runner.go:184, store.go:435).
THEOREM QueueUsesStore == Spec => StoreSpec
<1>1. Init => RunnerInv /\ StoreInit
  BY RunnerInitInv DEF Init
<1>2. RunnerInv /\ [Next]_vars => RunnerInv'
  BY RunnerNextInv
<1>3. RunnerInv /\ [Next]_vars => [StoreNext]_storeVars
  BY NextIsStoreStep
<1> QED BY <1>1, <1>2, <1>3, PTL DEF Spec, StoreSpec

LEMMA RunnerInvariant == Spec => []RunnerInv
<1>1. Init => RunnerInv
  BY RunnerInitInv
<1>2. RunnerInv /\ [Next]_vars => RunnerInv'
  BY RunnerNextInv
<1> QED BY <1>1, <1>2, PTL DEF Spec

\* Type correctness of the whole queue: the store, the processes and their
\* goroutines, whatever fails (runner.go:38-177).
THEOREM QueueTypeCorrect == Spec => []TypeOK
<1>1. RunnerInv /\ StoreTypeOK => TypeOK
  BY DEF RunnerInv, WorkersWellFormed, ProcessesWellFormed, TypeOK
<1> QED BY <1>1, RunnerInvariant, QueueUsesStore, StoreTypeCorrect, PTL

-----------------------------------------------------------------------------
(* What the two lists hold after an entry is put in or taken out.          *)

LEMMA AppendEntry ==
  ASSUME NEW S, NEW s \in Seq(S), NEW e \in S
  PROVE  /\ ToSet(Append(s, e)) = ToSet(s) \cup {e}
         /\ Len(Append(s, e)) = Len(s) + 1
         /\ IsInjective(s) /\ e \notin ToSet(s) => IsInjective(Append(s, e))
<1> DEFINE t == Append(s, e)
<1>1. /\ Len(t) = Len(s) + 1 /\ DOMAIN t = 1 .. Len(s) + 1
      /\ \A i \in 1 .. Len(s) : t[i] = s[i]
      /\ t[Len(s) + 1] = e
      /\ Len(s) \in Nat /\ DOMAIN s = 1 .. Len(s)
  BY AppendProperties
<1> HIDE DEF t
<1>2. ToSet(t) = ToSet(s) \cup {e}
  BY <1>1 DEF ToSet
<1>3. ASSUME IsInjective(s), e \notin ToSet(s)
      PROVE  IsInjective(t)
  BY <1>1, <1>3 DEF IsInjective, ToSet
<1> QED BY <1>1, <1>2, <1>3 DEF t

LEMMA ConsEntry ==
  ASSUME NEW S, NEW s \in Seq(S), NEW e \in S
  PROVE  /\ ToSet(Cons(e, s)) = ToSet(s) \cup {e}
         /\ Len(Cons(e, s)) = Len(s) + 1
         /\ IsInjective(s) /\ e \notin ToSet(s) => IsInjective(Cons(e, s))
<1> DEFINE t == Cons(e, s)
<1>1. <<e>> \in Seq(S) /\ Len(<<e>>) = 1 /\ <<e>>[1] = e
  OBVIOUS
<1>2. /\ t \in Seq(S) /\ Len(t) = Len(s) + 1
      /\ \A i \in 1 .. Len(t) : t[i] = IF i <= 1 THEN <<e>>[i] ELSE s[i - 1]
      /\ Len(s) \in Nat /\ DOMAIN s = 1 .. Len(s)
  BY <1>1, ConcatProperties DEF Cons
<1> HIDE DEF t
<1>3. /\ DOMAIN t = 1 .. Len(s) + 1
      /\ t[1] = e
      /\ \A i \in 1 .. Len(s) : t[i + 1] = s[i]
  BY <1>1, <1>2
<1>4. \A i \in DOMAIN t : i = 1 \/ (i - 1 \in 1 .. Len(s) /\ t[i] = s[i - 1])
  BY <1>2, <1>3
<1>5. ToSet(t) = ToSet(s) \cup {e}
  <2>1. ToSet(t) \subseteq ToSet(s) \cup {e}
    BY <1>2, <1>3, <1>4 DEF ToSet
  <2>2. ASSUME NEW i \in DOMAIN s
        PROVE  s[i] \in ToSet(t)
    <3>1. i + 1 \in DOMAIN t /\ t[i + 1] = s[i]
      BY <1>2, <1>3
    <3> QED BY <3>1 DEF ToSet
  <2>3. 1 \in DOMAIN t
    BY <1>2, <1>3
  <2>4. e \in ToSet(t)
    BY <1>3, <2>3 DEF ToSet
  <2> QED BY <2>1, <2>2, <2>4 DEF ToSet
<1>6. ASSUME IsInjective(s), e \notin ToSet(s)
      PROVE  IsInjective(t)
  <2> SUFFICES ASSUME NEW a \in DOMAIN t, NEW b \in DOMAIN t, t[a] = t[b]
               PROVE  a = b
    BY DEF IsInjective
  <2>1. CASE a = 1 \/ b = 1
    BY <2>1, <1>2, <1>3, <1>4, <1>6 DEF ToSet
  <2>2. CASE a # 1 /\ b # 1
    BY <2>2, <1>2, <1>3, <1>4, <1>6 DEF IsInjective
  <2> QED BY <2>1, <2>2
<1> QED BY <1>2, <1>5, <1>6 DEF t

LEMMA LastEntry ==
  ASSUME NEW S, NEW s \in Seq(S), s # << >>
  PROVE  /\ Front(s) \in Seq(S) /\ Last(s) \in S
         /\ Len(Front(s)) = Len(s) - 1
         /\ ToSet(s) = ToSet(Front(s)) \cup {Last(s)}
         /\ IsInjective(s) => /\ IsInjective(Front(s))
                              /\ Last(s) \notin ToSet(Front(s))
<1> DEFINE t == Front(s)
           n == Len(s)
<1>1. n \in Nat /\ n > 0 /\ DOMAIN s = 1 .. n
  BY EmptySeq, LenProperties
<1>2. /\ t \in Seq(S) /\ Len(t) = n - 1
      /\ \A i \in 1 .. n - 1 : t[i] = s[i]
  BY <1>1, SubSeqProperties DEF Front
<1>3. DOMAIN t = 1 .. n - 1
  BY <1>2, LenProperties
<1>4. Last(s) = s[n] /\ n \in DOMAIN s /\ s[n] \in S
  BY <1>1, ElementOfSeq DEF Last
<1> HIDE DEF t, n
<1>5. ToSet(s) = ToSet(t) \cup {s[n]}
  <2>1. \A i \in DOMAIN s : i = n \/ (i \in DOMAIN t /\ t[i] = s[i])
    BY <1>1, <1>2, <1>3
  <2>2. \A i \in DOMAIN t : i \in DOMAIN s /\ t[i] = s[i]
    BY <1>1, <1>2, <1>3
  <2> QED BY <1>4, <2>1, <2>2 DEF ToSet
<1>6. ASSUME IsInjective(s)
      PROVE  IsInjective(t) /\ s[n] \notin ToSet(t)
  <2>1. \A i \in DOMAIN t : i \in DOMAIN s /\ i # n /\ t[i] = s[i]
    BY <1>1, <1>2, <1>3
  <2>2. IsInjective(t)
    BY <2>1, <1>6 DEF IsInjective
  <2>3. s[n] \notin ToSet(t)
    BY <2>1, <1>4, <1>6 DEF IsInjective, ToSet
  <2> QED BY <2>2, <2>3
<1> QED BY <1>2, <1>4, <1>5, <1>6 DEF t, n

LEMMA TailLength ==
  ASSUME NEW L \in Nat, NEW n \in 1 .. L
  PROVE  /\ L - (n + 1) + 1 = L - n
         /\ (IF n + 1 <= L THEN L - (n + 1) + 1 ELSE 0) = L - n
OBVIOUS

\* RemoveFirst takes nothing but one copy of e, the only one when no entry is
\* repeated.
LEMMA RemovedEntry ==
  ASSUME NEW S, NEW s \in Seq(S), NEW e
  PROVE  /\ ToSet(RemoveFirst(s, e)) \subseteq ToSet(s)
         /\ ToSet(s) \ {e} \subseteq ToSet(RemoveFirst(s, e))
         /\ IsInjective(s) => /\ IsInjective(RemoveFirst(s, e))
                              /\ e \notin ToSet(RemoveFirst(s, e))
         /\ e \in ToSet(s) => Len(RemoveFirst(s, e)) = Len(s) - 1
<1> DEFINE t == RemoveFirst(s, e)
<1>1. CASE ~\E i \in 1 .. Len(s) : s[i] = e
  <2>1. t = s /\ DOMAIN s = 1 .. Len(s)
    BY <1>1, LenProperties DEF RemoveFirst
  <2>2. e \notin ToSet(s)
    BY <1>1, <2>1 DEF ToSet
  <2> QED BY <2>1, <2>2
<1>2. CASE \E i \in 1 .. Len(s) : s[i] = e
  <2> DEFINE n == Min({i \in 1 .. Len(s) : s[i] = e})
             u == SubSeq(s, 1, n - 1)
             v == SubSeq(s, n + 1, Len(s))
  <2>1. n \in 1 .. Len(s) /\ s[n] = e
    <3> DEFINE I == {i \in 1 .. Len(s) : s[i] = e}
    <3>1. I \in SUBSET Nat /\ I # {}
      BY <1>2
    <3>2. Min(I) \in I
      BY <3>1, LeastNatural
    <3> QED BY <3>2
  <2>2. t = u \o v
    BY <1>2 DEF RemoveFirst, RemoveAt, SelectInSeq
  <2>3. Len(s) \in Nat /\ DOMAIN s = 1 .. Len(s) /\ n \in Nat
    BY <2>1, LenProperties
  <2> HIDE DEF n
  <2>4. /\ u \in Seq(S) /\ Len(u) = n - 1
        /\ \A i \in 1 .. n - 1 : u[i] = s[i]
    BY <2>1, <2>3, SubSeqProperties
  <2>5. /\ v \in Seq(S) /\ Len(v) = Len(s) - n
        /\ \A i \in 1 .. Len(s) - n : v[i] = s[n + i]
    <3>1. /\ v \in Seq(S)
          /\ Len(v) = IF n + 1 <= Len(s) THEN Len(s) - (n + 1) + 1 ELSE 0
          /\ \A i \in 1 .. Len(s) - (n + 1) + 1 : v[i] = s[(n + 1) + i - 1]
      BY <2>1, <2>3, SubSeqProperties
    <3>2. \A i \in 1 .. Len(s) - n : (n + 1) + i - 1 = n + i
      BY <2>3
    <3> HIDE DEF v
    <3> QED BY <3>1, <3>2, <2>1, <2>3, TailLength
  <2> HIDE DEF u, v, t
  <2>6. /\ t \in Seq(S) /\ Len(t) = Len(s) - 1
        /\ \A i \in 1 .. Len(t) : t[i] = IF i <= Len(u) THEN u[i]
                                                        ELSE v[i - Len(u)]
    <3>1. /\ t \in Seq(S) /\ Len(t) = Len(u) + Len(v)
          /\ \A i \in 1 .. Len(u) + Len(v) :
               t[i] = IF i <= Len(u) THEN u[i] ELSE v[i - Len(u)]
      BY <2>2, <2>4, <2>5, ConcatProperties
    <3> QED BY <3>1, <2>1, <2>3, <2>4, <2>5
  <2>7. DOMAIN t = 1 .. Len(s) - 1
    BY <2>6, LenProperties
  <2>8. ASSUME NEW i \in DOMAIN t
        PROVE  t[i] = IF i < n THEN s[i] ELSE s[i + 1]
    <3>1. i \in 1 .. Len(s) - 1 /\ Len(u) = n - 1
      BY <2>4, <2>7
    <3>2. CASE i < n
      BY <3>1, <3>2, <2>1, <2>3, <2>4, <2>6
    <3>3. CASE ~(i < n)
      <4>1. i - (n - 1) \in 1 .. Len(s) - n /\ n + (i - (n - 1)) = i + 1
        BY <3>1, <3>3, <2>1, <2>3
      <4>2. t[i] = v[i - (n - 1)]
        BY <3>1, <3>3, <2>1, <2>3, <2>6
      <4>3. v[i - (n - 1)] = s[n + (i - (n - 1))]
        BY <4>1, <2>5
      <4> QED BY <4>1, <4>2, <4>3, <3>3
    <3> QED BY <3>2, <3>3
  <2>9. ToSet(t) \subseteq ToSet(s)
    <3>1. ASSUME NEW i \in DOMAIN t
          PROVE  t[i] \in ToSet(s)
      <4>1. CASE i < n
        BY <4>1, <2>1, <2>3, <2>7, <2>8 DEF ToSet
      <4>2. CASE ~(i < n)
        <5>1. i + 1 \in DOMAIN s /\ t[i] = s[i + 1]
          BY <4>2, <2>1, <2>3, <2>7, <2>8
        <5> QED BY <5>1 DEF ToSet
      <4> QED BY <4>1, <4>2
    <3> QED BY <3>1 DEF ToSet
  <2>10. ToSet(s) \ {e} \subseteq ToSet(t)
    <3>1. ASSUME NEW i \in DOMAIN s, s[i] # e
          PROVE  s[i] \in ToSet(t)
      <4>1. CASE i < n
        BY <4>1, <2>1, <2>3, <2>7, <2>8 DEF ToSet
      <4>2. CASE ~(i < n)
        <5>1. i - 1 \in DOMAIN t /\ ~(i - 1 < n) /\ (i - 1) + 1 = i
          BY <3>1, <4>2, <2>1, <2>3, <2>7
        <5>2. t[i - 1] = s[i]
          BY <5>1, <2>8
        <5> QED BY <5>1, <5>2 DEF ToSet
      <4> QED BY <4>1, <4>2
    <3> QED BY <3>1 DEF ToSet
  <2>11. ASSUME IsInjective(s)
         PROVE  IsInjective(t)
    <3> SUFFICES ASSUME NEW a \in DOMAIN t, NEW b \in DOMAIN t, t[a] = t[b]
                 PROVE  a = b
      BY DEF IsInjective
    <3> DEFINE at(i) == IF i < n THEN i ELSE i + 1
    <3>1. \A i \in DOMAIN t : at(i) \in DOMAIN s /\ t[i] = s[at(i)]
      BY <2>1, <2>3, <2>7, <2>8
    <3>2. at(a) = at(b)
      BY <3>1, <2>11 DEF IsInjective
    <3> QED BY <3>2, <2>1, <2>3, <2>7
  <2>12. ASSUME IsInjective(s)
         PROVE  e \notin ToSet(t)
    <3>1. \A i \in DOMAIN t : \E m \in DOMAIN s : m # n /\ t[i] = s[m]
      BY <2>1, <2>3, <2>7, <2>8
    <3>2. \A m \in DOMAIN s : m # n => s[m] # e
      BY <2>1, <2>3, <2>12 DEF IsInjective
    <3> QED BY <3>1, <3>2 DEF ToSet
  <2> QED BY <2>6, <2>9, <2>10, <2>11, <2>12 DEF t
<1> QED BY <1>1, <1>2

-----------------------------------------------------------------------------
(* Entries are delivered once.                                             *)

\* Every entry is an identifier that was drawn, so that a new job has none.
EntriesIssued ==
  /\ ToSet(queue) \cup ToSet(processing) \subseteq issued
  /\ \A r \in Runners : held[r] # Null => held[r] \in issued

DeliveryInv == TypeOK /\ DeliveredOnce /\ EntriesIssued

\* The lists as the invariant sees them.
LEMMA ListTypes ==
  ASSUME TypeOK
  PROVE  /\ queue \in Seq(Jobs) /\ processing \in Seq(Jobs)
         /\ held \in [Runners -> Jobs \cup {Null}]
         /\ issued \in SUBSET Jobs
         /\ Null \notin Jobs
BY StoreAssumption DEF TypeOK, StoreTypeOK

\* What a step can do to the queue, the processing list, the jobs recovering
\* processes hold, and the identifiers drawn.
LEMMA ListEffects ==
  ASSUME [Next]_vars
  PROVE  \/ UNCHANGED <<queue, processing, held, issued>>
         \/ \E f \in Fingerprints, k \in Subscribers, j \in Jobs :
              Create(f, k, j) /\ UNCHANGED held
         \/ \E j \in Jobs : Claim(j) /\ UNCHANGED held
         \/ \E w \in Workers : /\ worker[w].pc = "ack" /\ UNCHANGED held
                               /\ Ack(worker[w].job)
         \/ \E r \in Runners : RecoverPop(r)
         \/ \E r \in Runners : RecoverGet(r)
         \/ \E r \in Runners : RecoverPush(r)
         \/ \E r \in Runners : Crash(r)
<1>1. CASE UNCHANGED vars
  BY <1>1 DEF vars, storeVars, runnerVars
<1>2. CASE Client
  <2>1. UNCHANGED held
    BY <1>2 DEF Client, runnerVars
  <2>2. CASE \E f \in Fingerprints, k \in Subscribers : CreateOrJoin(f, k)
    BY <2>1, <2>2 DEF CreateOrJoin, Join, RefuseFull
  <2>3. CASE \E j \in Jobs, k \in Subscribers : Unsubscribe(j, k)
    BY <2>1, <2>3 DEF Unsubscribe
  <2> QED BY <1>2, <2>2, <2>3 DEF Client
<1>3. CASE Tick /\ UNCHANGED runnerVars
  BY <1>3 DEF Tick, runnerVars
<1>4. ASSUME NEW r \in Runners, Start(r) \/ RecoverDone(r) \/ Shutdown(r)
                                \/ Stop(r)
      PROVE  UNCHANGED <<queue, processing, held, issued>>
  BY <1>4 DEF Start, RecoverDone, Shutdown, Stop, storeVars
<1>5. ASSUME NEW w \in Workers, ClaimJob(w) \/ StrandedClaim(w)
      PROVE  \E j \in Jobs : Claim(j) /\ UNCHANGED held
  BY <1>5 DEF ClaimJob, StrandedClaim
<1>6. ASSUME NEW w \in Workers,
             \/ Inspect(w) \/ Precheck(w) \/ Interrupted(w)
             \/ ExecutorCall(w) \/ ExecutorCallFails(w)
             \/ Settle(w) \/ SettleGet(w) \/ SettleWrite(w) \/ SettleReread(w)
      PROVE  UNCHANGED <<queue, processing, held, issued>>
  BY <1>6 DEF Inspect, Precheck, Interrupted, ExecutorCall, Execute,
              CheckCancelled, GetForTransition, WriteTransition,
              RereadTransition, ExecutorCallFails, Settle, SettleGet,
              SettleWrite, SettleReread, Transition, storeVars
<1>7. ASSUME NEW w \in Workers, AckJob(w) \/ WorkerCallFails(w)
      PROVE  \/ UNCHANGED <<queue, processing, held, issued>>
             \/ worker[w].pc = "ack" /\ UNCHANGED held /\ Ack(worker[w].job)
  BY <1>7 DEF AckJob, WorkerCallFails, storeVars
<1> QED BY <1>1, <1>2, <1>3, <1>4, <1>5, <1>6, <1>7
        DEF Next, RecoverStep, WorkerStep, SettleCall

LEMMA DeliveryNextInv ==
  ASSUME DeliveryInv, RunnerInv, TypeOK', [Next]_vars
  PROVE  DeliveryInv'
<1> USE ListTypes DEF DeliveryInv
<1>1. CASE UNCHANGED <<queue, processing, held, issued>>
  BY <1>1 DEF DeliveredOnce, EntriesIssued, Queued, InProcessing, Held
<1>2. ASSUME NEW f \in Fingerprints, NEW k \in Subscribers, NEW j \in Jobs,
             Create(f, k, j), UNCHANGED held
      PROVE  DeliveredOnce' /\ EntriesIssued'
  <2>1. /\ queue' = Append(queue, j) /\ j \notin issued
        /\ issued' = issued \cup {j} /\ UNCHANGED processing
    BY <1>2 DEF Create
  <2>2. ToSet(queue') = ToSet(queue) \cup {j}
    BY <2>1, AppendEntry
  <2>3. IsInjective(queue')
    BY <2>1, AppendEntry DEF DeliveredOnce, EntriesIssued
  <2> QED BY <1>2, <2>1, <2>2, <2>3
          DEF DeliveredOnce, EntriesIssued, Queued, InProcessing, Held
<1>3. ASSUME NEW j \in Jobs, Claim(j), UNCHANGED held
      PROVE  DeliveredOnce' /\ EntriesIssued'
  <2>1. /\ queue # << >> /\ j = Last(queue) /\ queue' = Front(queue)
        /\ processing' = Cons(j, processing) /\ UNCHANGED issued
    BY <1>3 DEF Claim, keyVars
  <2>2. /\ ToSet(queue) = ToSet(queue') \cup {j}
        /\ IsInjective(queue') /\ j \notin ToSet(queue')
    BY <2>1, LastEntry DEF DeliveredOnce
  <2>3. ToSet(processing') = ToSet(processing) \cup {j}
    BY <2>1, ConsEntry
  <2>4. j \notin ToSet(processing)
    BY <2>2 DEF DeliveredOnce, Queued, InProcessing
  <2>5. IsInjective(processing')
    BY <2>1, <2>4, ConsEntry DEF DeliveredOnce
  <2> QED BY <1>3, <2>1, <2>2, <2>3, <2>4, <2>5
          DEF DeliveredOnce, EntriesIssued, Queued, InProcessing, Held
<1>4. ASSUME NEW j, Ack(j), UNCHANGED held
      PROVE  DeliveredOnce' /\ EntriesIssued'
  <2>1. processing' = RemoveFirst(processing, j) /\ UNCHANGED <<queue, issued>>
    BY <1>4 DEF Ack, keyVars
  <2>2. ToSet(processing') \subseteq ToSet(processing)
    BY <2>1, RemovedEntry
  <2>3. IsInjective(processing')
    BY <2>1, RemovedEntry DEF DeliveredOnce
  <2> QED BY <1>4, <2>1, <2>2, <2>3
          DEF DeliveredOnce, EntriesIssued, Queued, InProcessing, Held
<1>5. ASSUME NEW r \in Runners, RecoverPop(r)
      PROVE  DeliveredOnce' /\ EntriesIssued'
  <2>1. PICK j \in Jobs : Pop(j) /\ held' = [held EXCEPT ![r] = j]
    BY <1>5 DEF RecoverPop
  <2>2. /\ processing # << >> /\ j = Last(processing)
        /\ processing' = Front(processing) /\ UNCHANGED <<queue, issued>>
    BY <2>1 DEF Pop, keyVars
  <2>3. /\ ToSet(processing) = ToSet(processing') \cup {j}
        /\ IsInjective(processing') /\ j \notin ToSet(processing')
    BY <2>2, LastEntry DEF DeliveredOnce
  <2>4. held'[r] = j /\ \A s \in Runners : s # r => held'[s] = held[s]
    BY <2>1
  <2>5. j \notin ToSet(queue) /\ \A s \in Runners : held[s] # j
    BY <2>3 DEF DeliveredOnce, Queued, InProcessing, Held
  <2>6. \A i \in Jobs : Held(i)' => i = j \/ Held(i)
    BY <2>4 DEF Held
  <2>7. \A s, t \in Runners : held'[s] # Null /\ held'[s] = held'[t] => s = t
    BY <2>4, <2>5 DEF DeliveredOnce
  <2>8. DeliveredOnce'
    BY <2>2, <2>3, <2>5, <2>6, <2>7 DEF DeliveredOnce, Queued, InProcessing
  <2>9. EntriesIssued'
    BY <2>2, <2>3, <2>4 DEF EntriesIssued
  <2> QED BY <2>8, <2>9
<1>6. ASSUME NEW r \in Runners, held' = [held EXCEPT ![r] = Null],
             UNCHANGED <<processing, issued>>,
             \/ UNCHANGED queue
             \/ held[r] \in Jobs /\ queue' = Cons(held[r], queue)
      PROVE  DeliveredOnce' /\ EntriesIssued'
  <2>1. held'[r] = Null /\ \A s \in Runners : s # r => held'[s] = held[s]
    BY <1>6
  <2>2. \A s, t \in Runners : held'[s] # Null /\ held'[s] = held'[t] => s = t
    BY <2>1 DEF DeliveredOnce
  <2>3. \A i \in Jobs : Held(i)' => Held(i) /\ i # held[r]
    BY <2>1 DEF DeliveredOnce, Held
  <2>4. CASE UNCHANGED queue
    BY <1>6, <2>1, <2>2, <2>3, <2>4
       DEF DeliveredOnce, EntriesIssued, Queued, InProcessing
  <2>5. CASE held[r] \in Jobs /\ queue' = Cons(held[r], queue)
    <3>1. Held(held[r])
      BY DEF Held
    <3>2. held[r] \notin ToSet(queue) /\ held[r] \notin ToSet(processing)
          /\ held[r] \in issued
      BY <2>5, <3>1 DEF DeliveredOnce, EntriesIssued, Queued, InProcessing
    <3>3. /\ ToSet(queue') = ToSet(queue) \cup {held[r]}
          /\ IsInjective(queue')
      BY <2>5, <3>2, ConsEntry DEF DeliveredOnce
    <3> QED BY <1>6, <2>1, <2>2, <2>3, <3>2, <3>3
            DEF DeliveredOnce, EntriesIssued, Queued, InProcessing
  <2> QED BY <1>6, <2>4, <2>5
<1>7. ASSUME NEW r \in Runners, RecoverGet(r)
      PROVE  DeliveredOnce' /\ EntriesIssued'
  <2>1. CASE UNCHANGED held
    BY <1>1, <1>7, <2>1 DEF RecoverGet, storeVars
  <2>2. CASE ~UNCHANGED held
    BY <1>6, <1>7, <2>2 DEF RecoverGet, storeVars
  <2> QED BY <2>1, <2>2
<1>8. ASSUME NEW r \in Runners, Crash(r)
      PROVE  DeliveredOnce' /\ EntriesIssued'
  BY <1>6, <1>8 DEF Crash, storeVars
<1>9. ASSUME NEW r \in Runners, RecoverPush(r)
      PROVE  DeliveredOnce' /\ EntriesIssued'
  <2>1. held[r] \in Jobs
    BY <1>9 DEF RecoverPush, RunnerInv, ProcessesWellFormed
  <2> QED BY <1>6, <1>9, <2>1 DEF RecoverPush, Requeue, keyVars
<1>10. DeliveredOnce' /\ EntriesIssued'
  BY <1>1, <1>2, <1>3, <1>4, <1>5, <1>7, <1>8, <1>9, ListEffects
<1> QED BY <1>10

LEMMA DeliveryInitInv == ASSUME Init, TypeOK PROVE DeliveryInv
<1>1. queue = << >> /\ processing = << >> /\ \A r \in Runners : held[r] = Null
  BY DEF Init, StoreInit
<1>2. ToSet(queue) = {} /\ ToSet(processing) = {}
  BY <1>1 DEF ToSet
<1>3. IsInjective(queue) /\ IsInjective(processing)
  BY <1>1 DEF IsInjective
<1> QED BY <1>1, <1>2, <1>3, ListTypes
        DEF DeliveryInv, DeliveredOnce, EntriesIssued, Queued, InProcessing,
            Held

LEMMA DeliveryInvariant == Spec => []DeliveryInv
<1>1. TypeOK /\ Init => DeliveryInv
  BY DeliveryInitInv
<1>2. DeliveryInv /\ RunnerInv /\ TypeOK' /\ [Next]_vars => DeliveryInv'
  BY DeliveryNextInv
<1> QED BY <1>1, <1>2, QueueTypeCorrect, RunnerInvariant, PTL DEF Spec

\* Delivery: in any number of processes, whatever fails and whoever recovers
\* (store.go:519, 530, 539, 556), a job is never twice in the lists.
THEOREM EntriesAreUnique == Spec => []DeliveredOnce
<1>1. DeliveryInv => DeliveredOnce
  BY DEF DeliveryInv
<1> QED BY <1>1, DeliveryInvariant, PTL

-----------------------------------------------------------------------------
(* No live job is lost.                                                    *)

\* A worker about to acknowledge its job, or about to read the job it has
\* failed, has a job that is over.
SettledWorkers ==
  \A w \in Workers :
    /\ Busy(w) => worker[w].job \in issued
    /\ worker[w].pc \in {"ack", "settle-reread"} => ~Live(worker[w].job)

LossInv == SettledWorkers /\ NoLostJob

\* Only createOrJoinScript makes a job live, and puts it in the queue.
LEMMA LiveIsOldOrQueued ==
  ASSUME StoreInv, [StoreNext]_storeVars, NEW i \in Jobs, Live(i)'
  PROVE  Live(i) \/ (i \notin issued /\ queue' = Append(queue, i))
<1>1. job \in [Jobs -> JobRecord] /\ job'[i].state \in LiveStates
  BY DEF StoreInv, StoreTypeOK, Live
<1>2. ASSUME NEW f \in Fingerprints, NEW k \in Subscribers, CreateOrJoin(f, k)
      PROVE  Live(i) \/ (i \notin issued /\ queue' = Append(queue, i))
  <2>1. CASE Join(f, k)
    BY <1>1, <2>1 DEF Join, Joinable, Live
  <2>2. ASSUME NEW j \in Jobs, Create(f, k, j)
        PROVE  Live(i) \/ (i \notin issued /\ queue' = Append(queue, i))
    BY <1>1, <2>2 DEF Create, Live
  <2>3. CASE RefuseFull(f, k)
    BY <1>1, <2>3 DEF RefuseFull, Live
  <2> QED BY <1>2, <2>1, <2>2, <2>3 DEF CreateOrJoin
<1>3. ASSUME NEW j \in Jobs, NEW k \in Subscribers, Unsubscribe(j, k)
      PROVE  Live(i)
  <2>1. CASE k \in job[j].subscribers /\ i = j
    <3>1. job'[i] = LeftBy(j, k) /\ job[j] \in JobRecord
      BY <1>1, <1>3, <2>1 DEF Unsubscribe
    <3>2. job'[i].state \in {"cancelled", job[i].state}
      BY <2>1, <3>1 DEF LeftBy, JobRecord
    <3> QED BY <1>1, <3>2 DEF Live, LiveStates
  <2>2. CASE ~(k \in job[j].subscribers /\ i = j)
    BY <1>1, <1>3, <2>2 DEF Unsubscribe, Live
  <2> QED BY <2>1, <2>2
<1>4. ASSUME NEW j \in Jobs, NEW s \in ReportedStates, Transition(j, s)
      PROVE  Live(i)
  <2>1. Exists(j) /\ ~Terminal(j) /\ job[j] \in JobRecord
    BY <1>1, <1>4 DEF Transition, TransitionReply
  <2>2. Live(j)
    BY <2>1 DEF Exists, Terminal, Live, JobRecord, States
  <2>3. i # j => job'[i] = job[i]
    BY <1>1, <1>4 DEF Transition
  <2> QED BY <1>1, <2>2, <2>3 DEF Live
<1>5. ASSUME NEW j \in Jobs, Claim(j) \/ Ack(j) \/ Pop(j) \/ Requeue(j)
      PROVE  Live(i)
  BY <1>1, <1>5 DEF Claim, Ack, Pop, Requeue, keyVars, Live
<1>6. CASE Tick
  <2>1. job'[i] = AgedJob(job[i]) /\ job[i] \in JobRecord
    BY <1>1, <1>6 DEF Tick
  <2>2. job'[i].state \in {"absent", job[i].state}
    BY <2>1, AgedJobFacts DEF AbsentJob
  <2> QED BY <1>1, <2>2 DEF Live, LiveStates
<1>7. CASE UNCHANGED storeVars
  BY <1>1, <1>7 DEF storeVars, Live
<1> QED BY <1>2, <1>3, <1>4, <1>5, <1>6, <1>7 DEF StoreNext

\* What a step does to a goroutine it is not a step of.
LEMMA WorkerEffects ==
  ASSUME RunnerInv, [Next]_vars, NEW w \in Workers
  PROVE  \/ worker'[w] = worker[w]
         \/ worker'[w] \in {Off, Idle}
         \/ WorkerStep(w)
         \/ ExecutorCallFails(w)
<1>1. CASE UNCHANGED worker
  BY <1>1
<1>2. CASE UNCHANGED vars \/ Client \/ (Tick /\ UNCHANGED runnerVars)
  BY <1>2 DEF vars, runnerVars, Client
<1>3. ASSUME NEW r \in Runners, Start(r) \/ RecoverStep(r) \/ Shutdown(r)
                                \/ Stop(r) \/ Crash(r)
      PROVE  worker'[w] = worker[w] \/ worker'[w] \in {Off, Idle}
  BY <1>3
     DEF Start, RecoverStep, RecoverPop, RecoverGet, RecoverPush, RecoverDone,
         Shutdown, Stop, Crash
<1>4. ASSUME NEW v \in Workers, v # w,
             WorkerStep(v) \/ StrandedClaim(v) \/ ExecutorCallFails(v)
             \/ WorkerCallFails(v)
      PROVE  worker'[w] = worker[w]
  <2>1. worker \in [Workers -> WorkerRecord]
    BY DEF RunnerInv, WorkersWellFormed
  <2>2. CASE ClaimJob(v) \/ Inspect(v) \/ Precheck(v) \/ Interrupted(v)
             \/ StrandedClaim(v)
    BY <1>4, <2>1, <2>2 DEF ClaimJob, Inspect, Precheck, Interrupted,
                            StrandedClaim, Goto, Quit
  <2>3. CASE ExecutorCall(v) \/ ExecutorCallFails(v)
    BY <1>4, <2>1, <2>3 DEF ExecutorCall, Execute, CheckCancelled,
                            GetForTransition, WriteTransition,
                            RereadTransition, ExecutorCallFails, Goto
  <2>4. CASE SettleCall(v) \/ WorkerCallFails(v)
    BY <1>4, <2>1, <2>4 DEF SettleCall, Settle, SettleGet, SettleWrite,
                            SettleReread, AckJob, WorkerCallFails, Goto, Quit
  <2> QED BY <1>4, <2>2, <2>3, <2>4 DEF WorkerStep
<1>5. CASE StrandedClaim(w) \/ WorkerCallFails(w)
  BY <1>5
     DEF StrandedClaim, WorkerCallFails, Quit, RunnerInv, WorkersWellFormed
<1> QED BY <1>1, <1>2, <1>3, <1>4, <1>5 DEF Next

\* A job that is over stays over: its identifier is not drawn again.
LEMMA OverStaysOver ==
  ASSUME StoreInv, [StoreNext]_storeVars, NEW i \in Jobs, i \in issued, ~Live(i)
  PROVE  ~Live(i)'
BY LiveIsOldOrQueued

\* A raised cancellation flag means a cancelled job.
LEMMA FlaggedIsOver ==
  ASSUME StoreInv, NEW i \in Jobs, cancel[i] > 0
  PROVE  ~Live(i)
<1>1. job[i].state = "cancelled"
  BY DEF StoreInv, CancelFlagAgrees
<1> QED BY <1>1 DEF Live, LiveStates

LEMMA IssuedGrows == ASSUME [Next]_vars PROVE issued \subseteq issued'
<1>1. CASE UNCHANGED issued
  BY <1>1
<1>2. ASSUME NEW f \in Fingerprints, NEW k \in Subscribers, NEW j \in Jobs,
             Create(f, k, j)
      PROVE  issued \subseteq issued'
  BY <1>2 DEF Create
<1>3. ASSUME NEW j, Claim(j) \/ Ack(j) \/ Pop(j) \/ Requeue(j)
      PROVE  UNCHANGED issued
  BY <1>3 DEF Claim, Ack, Pop, Requeue, keyVars
<1>4. ASSUME NEW r \in Runners, RecoverPop(r) \/ RecoverGet(r) \/ RecoverPush(r)
                                \/ Crash(r)
      PROVE  UNCHANGED issued
  BY <1>4, <1>3 DEF RecoverPop, RecoverGet, RecoverPush, Crash, storeVars
<1> QED BY <1>1, <1>2, <1>3, <1>4, ListEffects

\* A step of the worker itself, up to its acknowledgement: it keeps its job,
\* and goes to acknowledge it only if the job is over.
LEMMA WorkerStepSettles ==
  ASSUME RunnerInv, StoreInv, SettledWorkers, [StoreNext]_storeVars,
         NEW w \in Workers, WorkerStep(w) \/ ExecutorCallFails(w),
         ~ClaimJob(w), ~AckJob(w), ~Interrupted(w), ~Quit(w),
         NEW j, j = worker[w].job
  PROVE  /\ j \in Jobs /\ j \in issued
         /\ worker'[w].job = j
         /\ worker'[w].pc \in {"ack", "settle-reread"} => ~Live(j)'
<1>1. /\ worker \in [Workers -> WorkerRecord]
      /\ worker[w] \in WorkerRecord
  BY DEF RunnerInv, WorkersWellFormed
<1>2. Busy(w)
  BY DEF WorkerStep, ExecutorCall, SettleCall, Inspect, Precheck, Execute,
         CheckCancelled, GetForTransition, WriteTransition, RereadTransition,
         Settle, SettleGet, SettleWrite, SettleReread, ExecutorCallFails, Busy
<1>3. j \in Jobs /\ j \in issued
  BY <1>2 DEF RunnerInv, WorkersWellFormed, SettledWorkers
<1>4. ~Live(j) => ~Live(j)'
  BY <1>3, OverStaysOver
<1>5. \A pc : Goto(w, pc) => worker'[w].job = j /\ worker'[w].pc = pc
  BY <1>1 DEF Goto, WorkerRecord
<1>6. ASSUME NEW pc, Goto(w, pc),
             pc \in {"ack", "settle-reread"} => ~Live(j) \/ ~Live(j)'
      PROVE  /\ worker'[w].job = j
             /\ worker'[w].pc \in {"ack", "settle-reread"}
                => ~Live(j)'
  BY <1>4, <1>5, <1>6
<1>7. CASE Inspect(w)
  BY <1>3, <1>6, <1>7 DEF Inspect
<1>8. CASE Precheck(w)
  BY <1>3, <1>6, <1>8, FlaggedIsOver DEF Precheck
<1>9. CASE Execute(w)
  <2>1. CASE Goto(w, "settle")
    BY <1>3, <1>6, <2>1
  <2>2. CASE ~Goto(w, "settle")
    <3>1. PICK step \in Program[worker[w].stage] :
            worker' = [worker EXCEPT ![w].to = step.to,
                                     ![w].pc = IF step.check THEN "check"
                                                             ELSE "get"]
      BY <1>9, <2>2 DEF Execute
    <3>2. worker'[w].job = j /\ worker'[w].pc \in {"check", "get"}
      BY <1>1, <3>1 DEF WorkerRecord
    <3> QED BY <1>3, <3>2
  <2> QED BY <2>1, <2>2
<1>10. CASE CheckCancelled(w)
  BY <1>3, <1>6, <1>10, FlaggedIsOver DEF CheckCancelled
<1>11. CASE GetForTransition(w)
  BY <1>3, <1>6, <1>11 DEF GetForTransition
<1>12. CASE WriteTransition(w)
  <2>1. CASE Goto(w, "reread") \/ Goto(w, "settle")
    BY <1>3, <1>6, <2>1
  <2>2. CASE Goto(w, "ack") /\ TransitionReply(j) = "cancelled"
    <3>1. job[j].state = "cancelled" \/ cancel[j] > 0
      BY <2>2 DEF TransitionReply
    <3>2. ~Live(j)
      BY <1>3, <3>1, FlaggedIsOver DEF Live, LiveStates
    <3> QED BY <1>3, <1>6, <2>2, <3>2
  <2> QED BY <1>12, <2>1, <2>2 DEF WriteTransition
<1>13. CASE RereadTransition(w)
  <2>1. CASE Goto(w, "settle")
    BY <1>3, <1>6, <2>1
  <2>2. CASE ~Goto(w, "settle")
    <3>1. PICK to : worker' = [worker EXCEPT ![w].pc = "execute",
                                             ![w].stage = to]
      BY <1>13, <2>2 DEF RereadTransition
    <3>2. worker'[w].job = j /\ worker'[w].pc = "execute"
      BY <1>1, <3>1 DEF WorkerRecord
    <3> QED BY <1>3, <3>2
  <2> QED BY <2>1, <2>2
<1>14. CASE Settle(w)
  <2>1. CASE Goto(w, "settle-get")
    BY <1>3, <1>6, <2>1
  <2>2. CASE Terminal(j) /\ Goto(w, "ack")
    BY <1>3, <1>6, <2>2 DEF Terminal, Live, TerminalStates, LiveStates
  <2> QED BY <1>14, <2>1, <2>2 DEF Settle
<1>15. CASE SettleGet(w)
  BY <1>3, <1>6, <1>15 DEF SettleGet
<1>16. CASE SettleWrite(w)
  <2>1. Transition(j, "failed") /\ Goto(w, "settle-reread")
    BY <1>16 DEF SettleWrite
  <2>2. job'[j] = MovedTo(j, "failed") /\ job[j] \in JobRecord
    BY <1>3, <2>1 DEF Transition, StoreInv, StoreTypeOK
  <2>3. job'[j].state = "failed"
    BY <2>2 DEF MovedTo, JobRecord
  <2>4. ~Live(j)'
    BY <2>3 DEF Live, LiveStates
  <2> QED BY <1>3, <1>6, <2>1, <2>4
<1>17. CASE SettleReread(w)
  <2>1. ~Live(j)
    BY <1>17 DEF SettleReread, SettledWorkers
  <2> QED BY <1>3, <1>6, <1>17, <2>1 DEF SettleReread
<1>18. CASE ExecutorCallFails(w)
  BY <1>3, <1>6, <1>18 DEF ExecutorCallFails
<1> QED BY <1>7, <1>8, <1>9, <1>10, <1>11, <1>12, <1>13, <1>14, <1>15, <1>16,
           <1>17, <1>18 DEF WorkerStep, ExecutorCall, SettleCall

LEMMA SettledNextInv ==
  ASSUME RunnerInv, StoreInv, DeliveryInv, SettledWorkers, [Next]_vars
  PROVE  SettledWorkers'
<1>1. [StoreNext]_storeVars
  BY NextIsStoreStep
<1>2. issued \subseteq issued'
  BY IssuedGrows
<1> SUFFICES ASSUME NEW w \in Workers
             PROVE  /\ (Busy(w) => worker[w].job \in issued)'
                    /\ (worker[w].pc \in {"ack", "settle-reread"}
                        => ~Live(worker[w].job))'
  BY DEF SettledWorkers
<1>3. CASE worker'[w] = worker[w]
  <2>1. PICK j : j = worker[w].job
    OBVIOUS
  <2>2. CASE Busy(w)
    <3>1. j \in Jobs /\ j \in issued
      BY <2>1, <2>2 DEF SettledWorkers, RunnerInv, WorkersWellFormed
    <3>2. worker[w].pc \in {"ack", "settle-reread"} => ~Live(j)'
      BY <1>1, <2>1, <3>1, OverStaysOver DEF SettledWorkers
    <3> QED BY <1>2, <1>3, <2>1, <3>1, <3>2 DEF Live
  <2>3. CASE ~Busy(w)
    BY <1>3, <2>3 DEF Busy
  <2> QED BY <2>2, <2>3
<1>4. CASE worker'[w] \in {Off, Idle}
  BY <1>4, IdleRecords DEF Busy
<1>5. CASE ClaimJob(w)
  <2>1. PICK j \in Jobs : /\ Claim(j)
                          /\ worker' = [worker EXCEPT ![w].pc = "claimed",
                                                      ![w].job = j]
    BY <1>5 DEF ClaimJob
  <2>2. worker'[w].pc = "claimed" /\ worker'[w].job = j
    BY <2>1 DEF RunnerInv, WorkersWellFormed, WorkerRecord
  <2>3. j \in ToSet(queue)
    BY <2>1, ListTypes, LastEntry DEF Claim, DeliveryInv
  <2> QED BY <1>2, <2>2, <2>3 DEF DeliveryInv, EntriesIssued
<1>6. CASE AckJob(w) \/ Interrupted(w) \/ Quit(w)
  <2>1. worker'[w] \in {Off, Idle}
    BY <1>6
       DEF AckJob, Interrupted, Quit, RunnerInv, WorkersWellFormed
  <2> QED BY <2>1, <1>4
<1>7. CASE /\ WorkerStep(w) \/ ExecutorCallFails(w)
           /\ ~ClaimJob(w) /\ ~AckJob(w) /\ ~Interrupted(w) /\ ~Quit(w)
  <2>1. PICK j : j = worker[w].job
    OBVIOUS
  <2>2. /\ j \in issued /\ worker'[w].job = j
        /\ worker'[w].pc \in {"ack", "settle-reread"} => ~Live(j)'
    BY <1>1, <1>7, <2>1, WorkerStepSettles
  <2> QED BY <1>2, <2>2 DEF Live
<1> QED BY <1>3, <1>4, <1>5, <1>6, <1>7, WorkerEffects

LEMMA NoLossNextInv ==
  ASSUME RunnerInv, StoreInv, DeliveryInv, LossInv, [Next]_vars
  PROVE  NoLostJob'
<1> SUFFICES ASSUME ~RecoveryMayFail, NEW i \in Jobs, Live(i)'
             PROVE  Queued(i)' \/ InProcessing(i)' \/ Held(i)'
  BY DEF NoLostJob
<1>1. /\ queue \in Seq(Jobs) /\ processing \in Seq(Jobs)
      /\ held \in [Runners -> Jobs \cup {Null}] /\ i # Null
  BY ListTypes DEF DeliveryInv
<1>2. CASE queue' = Append(queue, i)
  BY <1>1, <1>2, AppendEntry DEF Queued
<1>3. CASE Live(i)
  <2>1. Queued(i) \/ InProcessing(i) \/ Held(i)
    BY <1>3 DEF LossInv, NoLostJob
  <2>2. CASE UNCHANGED <<queue, processing, held, issued>>
    BY <2>1, <2>2 DEF Queued, InProcessing, Held
  <2>3. ASSUME NEW f \in Fingerprints, NEW k \in Subscribers, NEW j \in Jobs,
               Create(f, k, j), UNCHANGED held
        PROVE  Queued(i)' \/ InProcessing(i)' \/ Held(i)'
    BY <1>1, <2>1, <2>3, AppendEntry DEF Create, Queued, InProcessing, Held
  <2>4. ASSUME NEW j \in Jobs, Claim(j), UNCHANGED held
        PROVE  Queued(i)' \/ InProcessing(i)' \/ Held(i)'
    <3>1. ToSet(queue) = ToSet(queue') \cup {j}
      BY <1>1, <2>4, LastEntry DEF Claim
    <3>2. ToSet(processing') = ToSet(processing) \cup {j}
      BY <1>1, <2>4, ConsEntry DEF Claim
    <3> QED BY <2>1, <2>4, <3>1, <3>2 DEF Queued, InProcessing, Held
  <2>5. ASSUME NEW w \in Workers, worker[w].pc = "ack", UNCHANGED held,
               Ack(worker[w].job)
        PROVE  Queued(i)' \/ InProcessing(i)' \/ Held(i)'
    <3>1. i # worker[w].job
      BY <1>3, <2>5 DEF LossInv, SettledWorkers
    <3>2. UNCHANGED queue /\ processing' = RemoveFirst(processing, worker[w].job)
      BY <2>5 DEF Ack
    <3>3. ToSet(processing) \ {worker[w].job} \subseteq ToSet(processing')
      BY <1>1, <3>2, RemovedEntry
    <3> QED BY <2>1, <2>5, <3>1, <3>2, <3>3 DEF Queued, InProcessing, Held
  <2>6. ASSUME NEW r \in Runners, RecoverPop(r)
        PROVE  Queued(i)' \/ InProcessing(i)' \/ Held(i)'
    <3>1. PICK j \in Jobs : Pop(j) /\ held' = [held EXCEPT ![r] = j]
      BY <2>6 DEF RecoverPop
    <3>2. UNCHANGED queue /\ ToSet(processing) = ToSet(processing') \cup {j}
      BY <1>1, <3>1, LastEntry DEF Pop
    <3>3. held'[r] = j /\ \A s \in Runners : s # r => held'[s] = held[s]
      BY <1>1, <3>1
    <3>4. held[r] = Null
      BY <2>6 DEF RecoverPop
    <3>5. Held(i) \/ i = j => Held(i)'
      BY <1>1, <3>3, <3>4 DEF Held
    <3> QED BY <2>1, <3>2, <3>5 DEF Queued, InProcessing
  <2>7. ASSUME NEW r \in Runners, held' = [held EXCEPT ![r] = Null],
               UNCHANGED <<queue, processing>>, held[r] # i
        PROVE  Queued(i)' \/ InProcessing(i)' \/ Held(i)'
    <3>1. Held(i) => Held(i)'
      BY <1>1, <2>7 DEF Held
    <3> QED BY <2>1, <2>7, <3>1 DEF Queued, InProcessing
  <2>8. ASSUME NEW r \in Runners, RecoverGet(r)
        PROVE  Queued(i)' \/ InProcessing(i)' \/ Held(i)'
    <3>1. UNCHANGED <<queue, processing, issued>>
      BY <2>8 DEF RecoverGet, storeVars
    <3>2. CASE UNCHANGED held
      BY <2>2, <3>1, <3>2
    <3>3. CASE held' = [held EXCEPT ![r] = Null] /\ ~Live(held[r])
      BY <1>3, <2>7, <3>1, <3>3
    <3> QED BY <2>8, <3>2, <3>3 DEF RecoverGet
  <2>9. ASSUME NEW r \in Runners, RecoverPush(r)
        PROVE  Queued(i)' \/ InProcessing(i)' \/ Held(i)'
    <3>1. held[r] \in Jobs
      BY <2>9 DEF RecoverPush, RunnerInv, ProcessesWellFormed
    <3>2. /\ queue' = Cons(held[r], queue) /\ UNCHANGED processing
          /\ held' = [held EXCEPT ![r] = Null]
      BY <2>9 DEF RecoverPush, Requeue
    <3>3. ToSet(queue') = ToSet(queue) \cup {held[r]}
      BY <1>1, <3>1, <3>2, ConsEntry
    <3>4. Held(i) => i = held[r] \/ Held(i)'
      BY <1>1, <3>2 DEF Held
    <3> QED BY <2>1, <3>2, <3>3, <3>4 DEF Queued, InProcessing
  <2>10. ASSUME NEW r \in Runners, Crash(r)
         PROVE  Queued(i)' \/ InProcessing(i)' \/ Held(i)'
    <3>1. /\ held[r] = Null /\ held' = [held EXCEPT ![r] = Null]
          /\ UNCHANGED <<queue, processing>>
      BY <2>10 DEF Crash, storeVars
    <3> QED BY <1>1, <2>7, <3>1
  <2> QED BY <2>2, <2>3, <2>4, <2>5, <2>6, <2>8, <2>9, <2>10, ListEffects
<1>4. [StoreNext]_storeVars
  BY NextIsStoreStep
<1> QED BY <1>2, <1>3, <1>4, LiveIsOldOrQueued

LEMMA LossInitInv == ASSUME Init, StoreInv PROVE LossInv
<1>1. \A w \in Workers : worker[w].pc = "off"
  BY IdleRecords DEF Init
<1>2. \A j \in Jobs : ~Live(j)
  BY DEF Init, StoreInit, AbsentJob, Live, LiveStates
<1> QED BY <1>1, <1>2 DEF LossInv, SettledWorkers, NoLostJob, Busy
LEMMA LossInvariant == Spec => []LossInv
<1>1. StoreInv /\ Init => LossInv
  BY LossInitInv
<1>2. RunnerInv /\ StoreInv /\ DeliveryInv /\ LossInv /\ [Next]_vars => LossInv'
  BY SettledNextInv, NoLossNextInv DEF LossInv
<1> QED BY <1>1, <1>2, RunnerInvariant, DeliveryInvariant, QueueUsesStore,
           StoreInvariant, PTL DEF Spec

\* No live job is lost, in any number of processes, as long as no process
\* stops inside Recover: a worker acknowledges a job only when it is over
\* (runner.go:102-177), and a stopped process leaves its jobs in processing.
THEOREM NoJobIsLost == Spec => []NoLostJob
<1>1. LossInv => NoLostJob
  BY DEF LossInv
<1> QED BY <1>1, LossInvariant, PTL
=============================================================================
