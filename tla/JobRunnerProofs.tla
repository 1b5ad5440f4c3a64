-------------------------- MODULE JobRunnerProofs --------------------------
(***************************************************************************)
(* Proofs about the job queue as it is deployed, with one worker process   *)
(* (deploy runs one; Recover assumes it).  Any number of goroutines, jobs, *)
(* clients and faults, any executor.                                       *)
(*                                                                         *)
(* Recover takes every job of the processing list, whoever works on it.    *)
(* With one process nobody does when it runs, and three things follow: a   *)
(* job has one worker, the lists are bounded, and what a worker has read   *)
(* of its job stays true until it writes, unless the job is over by then.  *)
(***************************************************************************)
EXTENDS JobQueueProofs, FiniteSetTheorems

OneProcess == \A r, s \in Runners : r = s

\* The goroutines of a process run between its recovery and its end, and only
\* a recovering process holds a job.
PhasesAgree ==
  \A r \in Runners :
    /\ held[r] # Null => runner[r] \in {"recovering", "requeueing"}
    /\ runner[r] \in {"down", "recovering", "requeueing"}
       => \A w \in Workers : RunnerOf[w] = r => worker[w].pc = "off"

AttendanceInv == PhasesAgree /\ OneWorkerPerJob /\ NothingStrandedWhileRunning

-----------------------------------------------------------------------------
(* What one step of a goroutine does to the lists and to its process.      *)

\* It goes on with its job.
KeepsJob(w) ==
  /\ Busy(w)
  /\ \E rec \in WorkerRecord :
       /\ worker' = [worker EXCEPT ![w] = rec]
       /\ rec.pc \notin {"off", "idle"}
       /\ rec.job = worker[w].job
  /\ UNCHANGED <<runner, queue, processing>>

\* It returns and leaves its job, if it has one, in the processing list.
LeavesJob(w) ==
  /\ worker[w].pc # "off"
  /\ worker' = [worker EXCEPT ![w] = Off]
  /\ runner' = [runner EXCEPT ![RunnerOf[w]] = "stopping"]
  /\ UNCHANGED <<queue, processing>>

\* It takes a job, to work on it or to return at once.
TakesJob(w) ==
  /\ worker[w].pc = "idle"
  /\ \E j \in Jobs :
       /\ Claim(j)
       /\ \/ /\ worker' = [worker EXCEPT ![w].pc = "claimed", ![w].job = j]
             /\ UNCHANGED runner
          \/ /\ worker' = [worker EXCEPT ![w] = Off]
             /\ runner' = [runner EXCEPT ![RunnerOf[w]] = "stopping"]

\* It acknowledges its job.
DropsJob(w) ==
  /\ Busy(w)
  /\ Ack(worker[w].job)
  /\ \/ worker' = [worker EXCEPT ![w] = Idle] /\ UNCHANGED runner
     \/ /\ worker' = [worker EXCEPT ![w] = Off]
        /\ runner' = [runner EXCEPT ![RunnerOf[w]] = "stopping"]

LEMMA StoppingAlready ==
  ASSUME ProcessesWellFormed, NEW r \in Runners, runner[r] = "stopping"
  PROVE  runner = [runner EXCEPT ![r] = "stopping"]
BY DEF ProcessesWellFormed

\* Changing the program counter of a goroutine that has a job.
LEMMA GotoKeepsJob ==
  ASSUME RunnerInv, NEW w \in Workers, Busy(w),
         NEW pc \in (ContextCalls \cup SettleCalls) \ {"idle"}, Goto(w, pc),
         UNCHANGED <<runner, queue, processing>>
  PROVE  KeepsJob(w)
<1> DEFINE rec == [worker[w] EXCEPT !.pc = pc]
<1>1. worker[w] \in WorkerRecord
  BY DEF RunnerInv, WorkersWellFormed
<1>2. rec \in WorkerRecord /\ rec.job = worker[w].job /\ rec.pc = pc
  BY <1>1 DEF WorkerRecord
<1>3. worker' = [worker EXCEPT ![w] = rec]
  BY DEF Goto
<1>4. pc \notin {"off", "idle"}
  BY DEF ContextCalls, SettleCalls
<1> HIDE DEF rec
<1> QED BY <1>2, <1>3, <1>4 DEF KeepsJob

LEMMA ExecutorCallMoves ==
  ASSUME RunnerInv, NEW w \in Workers,
         ExecutorCall(w) \/ ExecutorCallFails(w)
  PROVE  KeepsJob(w)
<1>1. UNCHANGED <<runner, queue, processing>>
  BY DEF ExecutorCall, Execute, CheckCancelled, GetForTransition,
         WriteTransition, RereadTransition, ExecutorCallFails, Transition,
         storeVars
<1>2. /\ Busy(w) /\ worker[w] \in WorkerRecord
      /\ worker \in [Workers -> WorkerRecord]
  BY DEF RunnerInv, WorkersWellFormed, ExecutorCall, Execute, CheckCancelled,
         GetForTransition, WriteTransition, RereadTransition,
         ExecutorCallFails, Busy
<1>3. CASE \E pc \in (ContextCalls \cup SettleCalls) \ {"idle"} : Goto(w, pc)
  BY <1>1, <1>2, <1>3, GotoKeepsJob
<1>4. CASE Execute(w)
  <2>1. CASE Goto(w, "settle")
    BY <1>3, <2>1 DEF SettleCalls
  <2>2. CASE ~Goto(w, "settle")
    <3>1. PICK step \in Program[worker[w].stage] :
            /\ step.to \in ReportedStates
            /\ worker' = [worker EXCEPT ![w].to = step.to,
                                        ![w].pc = IF step.check THEN "check"
                                                                ELSE "get"]
      BY <1>4, <2>2 DEF Execute
    <3> DEFINE pc == IF step.check THEN "check" ELSE "get"
               rec == [worker[w] EXCEPT !.to = step.to, !.pc = pc]
    <3>2. pc \in ContextCalls /\ pc \notin {"off", "idle"}
      BY DEF ContextCalls
    <3>3. worker' = [worker EXCEPT ![w] = rec]
      BY <1>2, <3>1 DEF WorkerRecord
    <3> HIDE DEF pc
    <3>4. rec \in WorkerRecord /\ rec.job = worker[w].job /\ rec.pc = pc
      BY <1>2, <3>1, <3>2 DEF WorkerRecord
    <3> HIDE DEF rec
    <3> QED BY <1>1, <1>2, <3>2, <3>3, <3>4 DEF KeepsJob
  <2> QED BY <2>1, <2>2
<1>5. CASE CheckCancelled(w) \/ GetForTransition(w) \/ WriteTransition(w)
           \/ ExecutorCallFails(w)
  BY <1>3, <1>5 DEF CheckCancelled, GetForTransition, WriteTransition,
                    ExecutorCallFails, ContextCalls, SettleCalls
<1>6. CASE RereadTransition(w)
  <2>1. CASE Goto(w, "settle")
    BY <1>3, <2>1 DEF SettleCalls
  <2>2. CASE ~Goto(w, "settle")
    <3> DEFINE to == worker[w].to
               rec == [worker[w] EXCEPT !.pc = "execute", !.stage = to]
    <3>1. /\ worker' = [worker EXCEPT ![w].pc = "execute", ![w].stage = to]
          /\ to \notin TerminalStates
      BY <1>6, <2>2 DEF RereadTransition
    <3>2. worker' = [worker EXCEPT ![w] = rec]
      BY <1>2, <3>1 DEF WorkerRecord
    <3>3. to \in Stages
      BY <1>2, <3>1 DEF WorkerRecord, ReportedStates, States, Stages
    <3> HIDE DEF to
    <3>4. /\ rec \in WorkerRecord /\ rec.job = worker[w].job
          /\ rec.pc = "execute"
      BY <1>2, <3>3 DEF WorkerRecord, ContextCalls
    <3> HIDE DEF rec
    <3> QED BY <1>1, <1>2, <3>2, <3>4 DEF KeepsJob
  <2> QED BY <2>1, <2>2
<1> QED BY <1>4, <1>5, <1>6 DEF ExecutorCall

LEMMA WorkerMoves ==
  ASSUME RunnerInv, NEW w \in Workers,
         WorkerStep(w) \/ StrandedClaim(w) \/ ExecutorCallFails(w)
         \/ WorkerCallFails(w)
  PROVE  /\ KeepsJob(w) \/ LeavesJob(w) \/ TakesJob(w) \/ DropsJob(w)
         /\ UNCHANGED held
<1>1. CASE ClaimJob(w) \/ StrandedClaim(w)
  BY <1>1 DEF ClaimJob, StrandedClaim, TakesJob, Quit
<1>2. CASE Inspect(w) \/ Precheck(w)
  <2>1. /\ Busy(w) /\ UNCHANGED <<runner, queue, processing, held>>
        /\ \E pc \in {"precheck", "ack", "execute"} : Goto(w, pc)
    BY <1>2 DEF Inspect, Precheck, Busy, storeVars
  <2> QED BY <2>1, GotoKeepsJob DEF ContextCalls, SettleCalls
<1>3. CASE Interrupted(w)
  <2>1. runner[RunnerOf[w]] = "stopping" /\ RunnerOf[w] \in Runners
    BY <1>3, QueueAssumption DEF Interrupted
  <2>2. runner' = [runner EXCEPT ![RunnerOf[w]] = "stopping"]
    BY <1>3, <2>1, StoppingAlready DEF Interrupted, RunnerInv
  <2> QED BY <1>3, <2>2 DEF Interrupted, LeavesJob, storeVars, ContextCalls
<1>4. CASE ExecutorCall(w) \/ ExecutorCallFails(w)
  <2>1. UNCHANGED held
    BY <1>4 DEF ExecutorCall, Execute, CheckCancelled, GetForTransition,
                WriteTransition, RereadTransition, ExecutorCallFails
  <2> QED BY <1>4, <2>1, ExecutorCallMoves
<1>5. CASE Settle(w) \/ SettleGet(w) \/ SettleWrite(w) \/ SettleReread(w)
  <2>1. Busy(w) /\ worker[w].pc # "off" /\ UNCHANGED <<queue, processing, held>>
    BY <1>5 DEF Settle, SettleGet, SettleWrite, SettleReread, Transition,
                storeVars, Busy
  <2>2. \/ Quit(w)
        \/ /\ UNCHANGED runner
           /\ \E pc \in SettleCalls : Goto(w, pc)
    BY <1>5 DEF Settle, SettleGet, SettleWrite, SettleReread, SettleCalls
  <2>3. CASE Quit(w)
    BY <2>1, <2>3 DEF Quit, LeavesJob
  <2>4. CASE UNCHANGED runner /\ \E pc \in SettleCalls : Goto(w, pc)
    BY <2>1, <2>4, GotoKeepsJob DEF SettleCalls
  <2> QED BY <2>2, <2>3, <2>4
<1>6. CASE AckJob(w)
  BY <1>6 DEF AckJob, DropsJob, Busy
<1>7. CASE WorkerCallFails(w)
  <2>1. worker[w].pc # "off" /\ UNCHANGED held
    BY <1>7 DEF WorkerCallFails, SettleCalls
  <2>2. CASE UNCHANGED storeVars
    BY <1>7, <2>1, <2>2 DEF WorkerCallFails, LeavesJob, Quit, storeVars
  <2>3. CASE worker[w].pc = "ack" /\ Ack(worker[w].job)
    BY <1>7, <2>1, <2>3 DEF WorkerCallFails, DropsJob, Quit, Busy
  <2> QED BY <1>7, <2>2, <2>3 DEF WorkerCallFails
<1> QED BY <1>1, <1>2, <1>3, <1>4, <1>5, <1>6, <1>7 DEF WorkerStep, SettleCall

-----------------------------------------------------------------------------
(* Who works on what, and where the processes are.                         *)

LEMMA AttendanceInit == ASSUME Init PROVE AttendanceInv
<1>1. \A w \in Workers : worker[w] = Off /\ ~Busy(w)
  BY IdleRecords DEF Init, Busy
<1> QED
  BY <1>1, IdleRecords DEF Init, AttendanceInv, PhasesAgree, OneWorkerPerJob,
              NothingStrandedWhileRunning

\* A goroutine that is not off belongs to a process that holds no job and is
\* past its recovery.
LEMMA WorkerIsUp ==
  ASSUME RunnerInv, PhasesAgree, NEW w \in Workers, worker[w].pc # "off"
  PROVE  /\ RunnerOf[w] \in Runners
         /\ runner[RunnerOf[w]] \in {"running", "stopping"}
         /\ held[RunnerOf[w]] = Null
<1>1. RunnerOf[w] \in Runners
  BY QueueAssumption
<1> QED
  BY <1>1 DEF PhasesAgree, RunnerInv, ProcessesWellFormed, RunnerState

LEMMA PhasesNextInv ==
  ASSUME RunnerInv, PhasesAgree, [Next]_vars
  PROVE  PhasesAgree'
<1>1. CASE UNCHANGED <<runner, held, worker>>
  BY <1>1 DEF PhasesAgree
<1>2. ASSUME NEW r \in Runners,
             Start(r) \/ RecoverStep(r) \/ Shutdown(r) \/ Stop(r) \/ Crash(r)
      PROVE  PhasesAgree'
  <2> USE DEF RunnerInv, ProcessesWellFormed, WorkersWellFormed
  <2>1. CASE Start(r) \/ RecoverPop(r) \/ RecoverGet(r) \/ RecoverPush(r)
             \/ Shutdown(r)
    BY <2>1 DEF Start, RecoverPop, RecoverGet, RecoverPush, Shutdown,
                PhasesAgree
  <2>2. CASE RecoverDone(r)
    BY <2>2 DEF RecoverDone, PhasesAgree
  <2>3. CASE Stop(r)
    <3>1. \A w \in Workers : RunnerOf[w] = r => worker[w].pc = "off"
      BY <2>3 DEF Stop
    <3> QED BY <2>3, <3>1 DEF Stop, PhasesAgree
  <2>4. CASE Crash(r)
    BY <2>4, IdleRecords DEF Crash, PhasesAgree
  <2> QED BY <1>2, <2>1, <2>2, <2>3, <2>4 DEF RecoverStep
<1>3. ASSUME NEW w \in Workers,
             WorkerStep(w) \/ StrandedClaim(w) \/ ExecutorCallFails(w)
             \/ WorkerCallFails(w)
      PROVE  PhasesAgree'
  <2>1. worker[w].pc # "off" /\ UNCHANGED held
    BY <1>3, WorkerMoves DEF KeepsJob, LeavesJob, TakesJob, DropsJob, Busy
  <2>2. /\ RunnerOf[w] \in Runners /\ held[RunnerOf[w]] = Null
        /\ runner[RunnerOf[w]] \in {"running", "stopping"}
    BY <2>1, WorkerIsUp
  <2>3. \/ UNCHANGED runner
        \/ runner' = [runner EXCEPT ![RunnerOf[w]] = "stopping"]
    BY <1>3, WorkerMoves DEF KeepsJob, LeavesJob, TakesJob, DropsJob
  <2>4. \A v \in Workers : v # w => worker'[v] = worker[v]
    BY <1>3, WorkerMoves
       DEF KeepsJob, LeavesJob, TakesJob, DropsJob, RunnerInv,
           WorkersWellFormed
  <2>5. /\ runner'[RunnerOf[w]] \in {"running", "stopping"}
        /\ \A r \in Runners : r # RunnerOf[w] => runner'[r] = runner[r]
    BY <2>2, <2>3 DEF RunnerInv, ProcessesWellFormed
  <2> QED BY <2>1, <2>2, <2>4, <2>5 DEF PhasesAgree
<1> QED BY <1>1, <1>2, <1>3 DEF Next, Client, vars, runnerVars

LEMMA ProcessStepAttends ==
  ASSUME OneProcess, RunnerInv, AttendanceInv, NEW r \in Runners,
         Start(r) \/ RecoverStep(r) \/ Shutdown(r) \/ Stop(r) \/ Crash(r)
  PROVE  OneWorkerPerJob' /\ NothingStrandedWhileRunning'
<1> USE DEF AttendanceInv
<1>1. /\ \A s \in Runners : s = r
      /\ \A w \in Workers : RunnerOf[w] = r
      /\ runner \in [Runners -> RunnerState]
      /\ worker \in [Workers -> WorkerRecord]
  BY QueueAssumption
     DEF OneProcess, RunnerInv, ProcessesWellFormed, WorkersWellFormed
<1>2. CASE Start(r) \/ RecoverGet(r) \/ RecoverPush(r) \/ Shutdown(r)
           \/ Stop(r)
  <2>1. UNCHANGED <<worker, processing>> /\ runner'[r] # "running"
    BY <1>1, <1>2 DEF Start, RecoverGet, RecoverPush, Requeue, Shutdown, Stop,
                      storeVars
  <2> QED BY <1>1, <2>1 DEF OneWorkerPerJob, NothingStrandedWhileRunning,
                            Busy, InProcessing
<1>3. CASE RecoverPop(r)
  <2>1. runner[r] = "recovering" /\ UNCHANGED <<runner, worker>>
    BY <1>3 DEF RecoverPop
  <2>2. \A w \in Workers : ~Busy(w)'
    BY <1>1, <2>1 DEF PhasesAgree, Busy
  <2> QED BY <1>1, <2>1, <2>2
          DEF OneWorkerPerJob, NothingStrandedWhileRunning
<1>4. CASE RecoverDone(r)
  <2>1. /\ processing' = << >>
        /\ worker' = [w \in Workers |-> IF RunnerOf[w] = r THEN Idle
                                                           ELSE worker[w]]
    BY <1>4 DEF RecoverDone, storeVars
  <2>2. \A j \in Jobs : ~InProcessing(j)'
    BY <2>1 DEF InProcessing, ToSet
  <2>3. \A w \in Workers : ~Busy(w)'
    BY <1>1, <2>1, IdleRecords DEF Busy
  <2> QED BY <2>2, <2>3 DEF OneWorkerPerJob, NothingStrandedWhileRunning
<1>5. CASE Crash(r)
  <2>1. \A w \in Workers : ~Busy(w)'
    BY <1>1, <1>5, IdleRecords DEF Crash, Busy
  <2>2. runner'[r] # "running"
    BY <1>1, <1>5 DEF Crash
  <2> QED BY <1>1, <2>1, <2>2 DEF OneWorkerPerJob, NothingStrandedWhileRunning
<1> QED BY <1>2, <1>3, <1>4, <1>5 DEF RecoverStep

LEMMA WorkerStepAttends ==
  ASSUME OneProcess, RunnerInv, DeliveryInv, AttendanceInv, NEW w \in Workers,
         WorkerStep(w) \/ StrandedClaim(w) \/ ExecutorCallFails(w)
         \/ WorkerCallFails(w)
  PROVE  OneWorkerPerJob' /\ NothingStrandedWhileRunning'
<1> USE DEF AttendanceInv
<1>1. /\ RunnerOf[w] \in Runners /\ \A s \in Runners : s = RunnerOf[w]
      /\ runner \in [Runners -> RunnerState]
      /\ worker \in [Workers -> WorkerRecord]
      /\ queue \in Seq(Jobs) /\ processing \in Seq(Jobs)
      /\ \A v \in Workers : Busy(v) => worker[v].job \in Jobs
  BY QueueAssumption, ListTypes
     DEF OneProcess, RunnerInv, ProcessesWellFormed, WorkersWellFormed,
         DeliveryInv
<1>2. CASE KeepsJob(w)
  <2>1. /\ UNCHANGED <<runner, processing>>
        /\ \A v \in Workers : Busy(v)' <=> Busy(v)
        /\ \A v \in Workers : worker'[v].job = worker[v].job
    BY <1>1, <1>2 DEF KeepsJob, Busy
  <2> QED BY <2>1 DEF OneWorkerPerJob, NothingStrandedWhileRunning,
                      InProcessing
<1>3. CASE LeavesJob(w)
  <2>1. /\ UNCHANGED processing /\ ~Busy(w)'
        /\ \A v \in Workers : v # w => worker'[v] = worker[v]
    BY <1>1, <1>3, IdleRecords DEF LeavesJob, Busy
  <2>2. \A r \in Runners : runner'[r] # "running"
    BY <1>1, <1>3 DEF LeavesJob
  <2> QED BY <2>1, <2>2
          DEF OneWorkerPerJob, NothingStrandedWhileRunning, InProcessing, Busy
<1>4. CASE TakesJob(w)
  <2>1. PICK j \in Jobs :
          /\ Claim(j)
          /\ \/ /\ worker' = [worker EXCEPT ![w].pc = "claimed", ![w].job = j]
                /\ UNCHANGED runner
             \/ /\ worker' = [worker EXCEPT ![w] = Off]
                /\ runner' = [runner EXCEPT ![RunnerOf[w]] = "stopping"]
    BY <1>4 DEF TakesJob
  <2>2. /\ \A v \in Workers : v # w => worker'[v] = worker[v]
        /\ ~Busy(w)
    BY <1>1, <1>4, <2>1 DEF TakesJob, Busy
  <2>3. \/ Busy(w)' /\ worker'[w].job = j
        \/ ~Busy(w)' /\ \A r \in Runners : runner'[r] # "running"
    BY <1>1, <2>1, IdleRecords DEF WorkerRecord, Busy
  <2>4. j \in ToSet(queue) /\ ToSet(processing') = ToSet(processing) \cup {j}
    BY <1>1, <2>1, LastEntry, ConsEntry DEF Claim
  <2>5. j \notin ToSet(processing)
    BY <2>4 DEF DeliveryInv, DeliveredOnce, Queued, InProcessing
  <2>6. OneWorkerPerJob'
    BY <2>2, <2>3, <2>4, <2>5 DEF OneWorkerPerJob, InProcessing, Busy
  <2>7. NothingStrandedWhileRunning'
    <3> SUFFICES ASSUME NEW r \in Runners, runner'[r] = "running",
                        NEW i \in Jobs, i \in ToSet(processing')
                 PROVE  \E v \in Workers : Busy(v)' /\ worker'[v].job = i
      BY DEF NothingStrandedWhileRunning, InProcessing
    <3>1. Busy(w)' /\ worker'[w].job = j /\ runner[r] = "running"
      BY <1>1, <2>1, <2>3
    <3>2. CASE i # j
      <4>1. PICK v \in Workers : Busy(v) /\ worker[v].job = i
        BY <2>4, <3>1, <3>2 DEF NothingStrandedWhileRunning, InProcessing
      <4> QED BY <2>2, <4>1 DEF Busy
    <3> QED BY <3>1, <3>2
  <2> QED BY <2>6, <2>7
<1>5. CASE DropsJob(w)
  <2> DEFINE j == worker[w].job
  <2>1. /\ Busy(w) /\ processing' = RemoveFirst(processing, j)
        /\ \A v \in Workers : v # w => worker'[v] = worker[v]
        /\ ~Busy(w)'
    BY <1>1, <1>5, IdleRecords DEF DropsJob, Ack, Busy
  <2>2. ToSet(processing') = ToSet(processing) \ {j}
    BY <1>1, <2>1, RemovedEntry DEF DeliveryInv, DeliveredOnce
  <2>3. \A v \in Workers : v # w /\ Busy(v) => worker[v].job # j
    BY <2>1 DEF OneWorkerPerJob
  <2>4. OneWorkerPerJob'
    BY <1>1, <2>1, <2>2, <2>3 DEF OneWorkerPerJob, InProcessing, Busy
  <2>5. \A r \in Runners : runner'[r] = "running" => runner[r] = "running"
    BY <1>1, <1>5 DEF DropsJob
  <2>6. NothingStrandedWhileRunning'
    <3> SUFFICES ASSUME NEW r \in Runners, runner[r] = "running",
                        NEW i \in Jobs, i \in ToSet(processing')
                 PROVE  \E v \in Workers : Busy(v)' /\ worker'[v].job = i
      BY <2>5 DEF NothingStrandedWhileRunning, InProcessing
    <3>1. PICK v \in Workers : Busy(v) /\ worker[v].job = i
      BY <2>2 DEF NothingStrandedWhileRunning, InProcessing
    <3> QED BY <2>1, <2>2, <3>1 DEF Busy
  <2> QED BY <2>4, <2>6
<1> QED BY <1>2, <1>3, <1>4, <1>5, WorkerMoves

LEMMA AttendanceNext ==
  ASSUME OneProcess, RunnerInv, DeliveryInv, AttendanceInv, [Next]_vars
  PROVE  AttendanceInv'
<1>1. PhasesAgree'
  BY PhasesNextInv DEF AttendanceInv
<1>2. ASSUME UNCHANGED <<runner, worker, processing>>
      PROVE  AttendanceInv'
  BY <1>1, <1>2 DEF AttendanceInv, OneWorkerPerJob, NothingStrandedWhileRunning,
              Busy, InProcessing
<1>3. CASE Client
  <2>1. UNCHANGED <<runner, worker>>
    BY <1>3 DEF Client, runnerVars
  <2>2. UNCHANGED processing
    BY <1>3 DEF Client, CreateOrJoin, Join, Create, RefuseFull, Unsubscribe
  <2> QED BY <1>1, <1>2, <2>1, <2>2
<1>4. CASE Tick /\ UNCHANGED runnerVars
  BY <1>1, <1>2, <1>4 DEF Tick, runnerVars
<1>5. CASE UNCHANGED vars
  BY <1>1, <1>2, <1>5 DEF vars, runnerVars, storeVars
<1>6. CASE \E r \in Runners :
             Start(r) \/ RecoverStep(r) \/ Shutdown(r) \/ Stop(r) \/ Crash(r)
  BY <1>1, <1>6, ProcessStepAttends DEF AttendanceInv
<1>7. CASE \E w \in Workers :
             WorkerStep(w) \/ StrandedClaim(w) \/ ExecutorCallFails(w)
             \/ WorkerCallFails(w)
  BY <1>1, <1>7, WorkerStepAttends DEF AttendanceInv
<1> QED BY <1>3, <1>4, <1>5, <1>6, <1>7 DEF Next

LEMMA AttendanceInvariant == ASSUME OneProcess PROVE Spec => []AttendanceInv
<1>1. Init => AttendanceInv
  BY AttendanceInit
<1>2. RunnerInv /\ DeliveryInv /\ AttendanceInv /\ [Next]_vars
      => AttendanceInv'
  BY AttendanceNext
<1> QED BY <1>1, <1>2, RunnerInvariant, DeliveryInvariant, PTL DEF Spec

\* With one process, a job has one worker, and Recover never takes a job away
\* from it (runner.go:38, store.go:539): the workers start after the recovery
\* and return before the process may start again.
THEOREM JobsHaveOneWorker ==
  ASSUME OneProcess
  PROVE  Spec => []OneWorkerPerJob
<1>1. AttendanceInv => OneWorkerPerJob
  BY DEF AttendanceInv
<1> QED BY <1>1, AttendanceInvariant, PTL

\* While the process runs, every entry of the processing list has a worker: no
\* path through process (runner.go:102-177) leaves an entry behind and takes
\* the next job.
THEOREM NothingIsStranded ==
  ASSUME OneProcess
  PROVE  Spec => []NothingStrandedWhileRunning
<1>1. AttendanceInv => NothingStrandedWhileRunning
  BY DEF AttendanceInv
<1> QED BY <1>1, AttendanceInvariant, PTL

-----------------------------------------------------------------------------
(* How long the lists can get.                                             *)

\* The goroutines that are not waiting for a job: each may account for one
\* entry of the processing list, the one it works on or the one it left.
Occupied == {w \in Workers : worker[w].pc # "idle"}

\* The jobs that a recovering process has popped and not pushed.
InHand == IF \E r \in Runners : held[r] # Null THEN 1 ELSE 0

EntriesBounded ==
  /\ Len(processing) + InHand <= Cardinality(Occupied)
  /\ Len(queue) + Len(processing) + InHand <= MaxQueued + Cardinality(Workers)

LEMMA WorkerSets ==
  ASSUME NEW S \in SUBSET Workers, NEW T \in SUBSET Workers
  PROVE  /\ Cardinality(S) \in Nat /\ Cardinality(Workers) \in Nat
         /\ Cardinality(S) <= Cardinality(Workers)
         /\ S \subseteq T => Cardinality(S) <= Cardinality(T)
         /\ \A w : w \notin S /\ T = S \cup {w}
                   => Cardinality(T) = Cardinality(S) + 1
         /\ \A w : S \ {w} \subseteq T
                   => Cardinality(S) - 1 <= Cardinality(T)
<1>1. IsFiniteSet(Workers) /\ IsFiniteSet(S) /\ IsFiniteSet(T)
  BY QueueAssumption, FS_Subset
<1>2. /\ Cardinality(S) \in Nat /\ Cardinality(T) \in Nat
      /\ Cardinality(Workers) \in Nat
  BY <1>1, FS_CardinalityType
<1>3. /\ Cardinality(S) <= Cardinality(Workers)
      /\ S \subseteq T => Cardinality(S) <= Cardinality(T)
  BY <1>1, FS_Subset
<1>4. ASSUME NEW w, w \notin S, T = S \cup {w}
      PROVE  Cardinality(T) = Cardinality(S) + 1
  BY <1>1, <1>4, FS_AddElement
<1>5. ASSUME NEW w, S \ {w} \subseteq T
      PROVE  Cardinality(S) - 1 <= Cardinality(T)
  <2>1. Cardinality(S \ {w}) <= Cardinality(T)
    BY <1>1, <1>5, FS_Subset
  <2>2. Cardinality(S \ {w}) = IF w \in S THEN Cardinality(S) - 1
                                          ELSE Cardinality(S)
    BY <1>1, FS_RemoveElement
  <2> QED BY <1>2, <2>1, <2>2
<1> QED BY <1>2, <1>3, <1>4, <1>5

\* The sizes the bounds are about.
LEMMA SizeTypes ==
  ASSUME TypeOK
  PROVE  /\ Len(queue) \in Nat /\ Len(processing) \in Nat
         /\ InHand \in {0, 1}
         /\ MaxQueued \in Nat
BY ListTypes, LenProperties, StoreAssumption DEF InHand

LEMMA BoundsInit == ASSUME Init, TypeOK PROVE EntriesBounded
<1>1. Len(queue) = 0 /\ Len(processing) = 0 /\ InHand = 0
  BY DEF Init, StoreInit, InHand
<1>2. Occupied \in SUBSET Workers
  BY DEF Occupied
<1> QED BY <1>1, <1>2, WorkerSets, SizeTypes DEF EntriesBounded

LEMMA ProcessStepBounded ==
  ASSUME OneProcess, TypeOK, TypeOK', RunnerInv, EntriesBounded,
         NEW r \in Runners,
         Start(r) \/ RecoverStep(r) \/ Shutdown(r) \/ Stop(r) \/ Crash(r)
  PROVE  EntriesBounded'
<1>1. /\ \A s \in Runners : s = r
      /\ \A w \in Workers : RunnerOf[w] = r
      /\ held \in [Runners -> Jobs \cup {Null}]
      /\ queue \in Seq(Jobs) /\ processing \in Seq(Jobs) /\ Null \notin Jobs
  BY QueueAssumption, ListTypes DEF OneProcess
<1>2. /\ Len(queue) \in Nat /\ Len(processing) \in Nat /\ MaxQueued \in Nat
      /\ Len(queue') \in Nat /\ Len(processing') \in Nat
      /\ Occupied \in SUBSET Workers /\ Occupied' \in SUBSET Workers
  BY SizeTypes DEF Occupied
<1>3. /\ Cardinality(Occupied) \in Nat /\ Cardinality(Occupied') \in Nat
      /\ Cardinality(Workers) \in Nat
      /\ Cardinality(Occupied) <= Cardinality(Workers)
  BY <1>2, WorkerSets
<1>4. InHand = (IF held[r] # Null THEN 1 ELSE 0)
  BY <1>1 DEF InHand
<1>5. InHand' = (IF held'[r] # Null THEN 1 ELSE 0)
  BY <1>1 DEF InHand
<1>6. CASE Start(r) \/ RecoverGet(r) \/ Shutdown(r) \/ Stop(r)
  <2>1. UNCHANGED <<queue, processing, worker>>
    BY <1>6 DEF Start, RecoverGet, Shutdown, Stop, storeVars
  <2>2. InHand' <= InHand
    BY <1>1, <1>4, <1>5, <1>6 DEF Start, RecoverGet, Shutdown, Stop
  <2>3. Occupied' = Occupied
    BY <2>1 DEF Occupied
  <2> QED BY <1>2, <1>3, <1>4, <1>5, <2>1, <2>2, <2>3 DEF EntriesBounded
<1>7. CASE RecoverPop(r)
  <2>1. PICK j \in Jobs : Pop(j) /\ held' = [held EXCEPT ![r] = j]
    BY <1>7 DEF RecoverPop
  <2>2. /\ UNCHANGED <<queue, worker>> /\ processing' = Front(processing)
        /\ processing # << >>
    BY <1>7, <2>1 DEF RecoverPop, Pop
  <2>3. Len(processing') = Len(processing) - 1
    BY <1>1, <2>2, LastEntry
  <2>4. InHand = 0 /\ InHand' = 1 /\ Occupied' = Occupied
    BY <1>1, <1>4, <1>5, <1>7, <2>1, <2>2 DEF RecoverPop, Occupied
  <2> QED BY <1>2, <1>3, <2>2, <2>3, <2>4 DEF EntriesBounded
<1>8. CASE RecoverPush(r)
  <2>1. held[r] \in Jobs
    BY <1>8 DEF RecoverPush, RunnerInv, ProcessesWellFormed
  <2>2. /\ UNCHANGED <<processing, worker>> /\ queue' = Cons(held[r], queue)
        /\ held' = [held EXCEPT ![r] = Null]
    BY <1>8 DEF RecoverPush, Requeue
  <2>3. Len(queue') = Len(queue) + 1
    BY <1>1, <2>1, <2>2, ConsEntry
  <2>4. InHand = 1 /\ InHand' = 0 /\ Occupied' = Occupied
    BY <1>1, <1>4, <1>5, <2>1, <2>2 DEF Occupied
  <2> QED BY <1>2, <1>3, <2>2, <2>3, <2>4 DEF EntriesBounded
<1>9. CASE RecoverDone(r)
  <2>1. UNCHANGED <<queue, processing, held>> /\ Len(processing) = 0
        /\ held[r] = Null
    BY <1>9 DEF RecoverDone, storeVars
  <2>2. InHand = 0 /\ InHand' = 0
    BY <1>4, <1>5, <2>1
  <2> QED BY <1>2, <1>3, <2>1, <2>2 DEF EntriesBounded
<1>10. CASE Crash(r)
  <2>1. UNCHANGED <<queue, processing>> /\ held'[r] = Null
    BY <1>1, <1>10 DEF Crash, storeVars
  <2>2. \A w \in Workers : worker'[w] = Off
    BY <1>1, <1>10 DEF Crash
  <2>3. Occupied \subseteq Occupied'
    BY <2>2, IdleRecords DEF Occupied
  <2>4. Cardinality(Occupied) <= Cardinality(Occupied')
    BY <1>2, <2>3, WorkerSets
  <2>5. InHand' = 0 /\ InHand \in {0, 1}
    BY <1>4, <1>5, <2>1
  <2> QED BY <1>2, <1>3, <2>1, <2>4, <2>5 DEF EntriesBounded
<1> QED BY <1>6, <1>7, <1>8, <1>9, <1>10 DEF RecoverStep

LEMMA WorkerStepBounded ==
  ASSUME TypeOK, TypeOK', RunnerInv, DeliveryInv, OneWorkerPerJob,
         EntriesBounded, NEW w \in Workers,
         WorkerStep(w) \/ StrandedClaim(w) \/ ExecutorCallFails(w)
         \/ WorkerCallFails(w)
  PROVE  EntriesBounded'
<1>1. /\ worker \in [Workers -> WorkerRecord]
      /\ queue \in Seq(Jobs) /\ processing \in Seq(Jobs)
  BY ListTypes DEF RunnerInv, WorkersWellFormed
<1>2. /\ Len(queue) \in Nat /\ Len(processing) \in Nat /\ MaxQueued \in Nat
      /\ Len(queue') \in Nat /\ Len(processing') \in Nat
      /\ InHand \in {0, 1}
      /\ Occupied \in SUBSET Workers /\ Occupied' \in SUBSET Workers
  BY SizeTypes DEF Occupied
<1>3. /\ Cardinality(Occupied) \in Nat /\ Cardinality(Occupied') \in Nat
      /\ Cardinality(Workers) \in Nat
      /\ Cardinality(Occupied) <= Cardinality(Workers)
  BY <1>2, WorkerSets
<1>4. InHand' = InHand
  BY WorkerMoves DEF InHand
<1>5. CASE KeepsJob(w) \/ LeavesJob(w)
  <2>1. UNCHANGED <<queue, processing>>
    BY <1>5 DEF KeepsJob, LeavesJob
  <2>2. Occupied \subseteq Occupied'
    BY <1>1, <1>5, IdleRecords DEF KeepsJob, LeavesJob, Occupied
  <2>3. Cardinality(Occupied) <= Cardinality(Occupied')
    BY <1>2, <2>2, WorkerSets
  <2> QED BY <1>2, <1>3, <1>4, <2>1, <2>3 DEF EntriesBounded
<1>6. CASE TakesJob(w)
  <2>1. PICK j \in Jobs :
          /\ Claim(j)
          /\ \/ worker' = [worker EXCEPT ![w].pc = "claimed", ![w].job = j]
             \/ worker' = [worker EXCEPT ![w] = Off]
    BY <1>6 DEF TakesJob
  <2>2. /\ Len(queue') = Len(queue) - 1
        /\ Len(processing') = Len(processing) + 1
    BY <1>1, <2>1, LastEntry, ConsEntry DEF Claim
  <2>3. /\ worker'[w].pc # "idle"
        /\ \A v \in Workers : v # w => worker'[v] = worker[v]
    BY <1>1, <2>1, IdleRecords DEF WorkerRecord
  <2>4. w \notin Occupied /\ Occupied' = Occupied \cup {w}
    BY <1>6, <2>3 DEF TakesJob, Occupied
  <2>5. Cardinality(Occupied') = Cardinality(Occupied) + 1
    BY <1>2, <2>4, WorkerSets
  <2> QED BY <1>2, <1>3, <1>4, <2>2, <2>5 DEF EntriesBounded
<1>7. CASE DropsJob(w)
  <2> DEFINE j == worker[w].job
  <2>1. /\ Busy(w) /\ processing' = RemoveFirst(processing, j)
        /\ UNCHANGED queue
        /\ \A v \in Workers : v # w => worker'[v] = worker[v]
    BY <1>1, <1>7 DEF DropsJob, Ack
  <2>2. j \in ToSet(processing)
    BY <2>1 DEF OneWorkerPerJob, InProcessing
  <2>3. Len(processing') = Len(processing) - 1
    BY <1>1, <2>1, <2>2, RemovedEntry
  <2>4. Occupied \ {w} \subseteq Occupied'
    BY <2>1 DEF Occupied
  <2>5. Cardinality(Occupied) - 1 <= Cardinality(Occupied')
    BY <1>2, <2>4, WorkerSets
  <2> QED BY <1>2, <1>3, <1>4, <2>1, <2>3, <2>5 DEF EntriesBounded
<1> QED BY <1>5, <1>6, <1>7, WorkerMoves

\* A client adds an entry only to a queue that has room.
LEMMA ClientBounded ==
  ASSUME TypeOK, TypeOK', EntriesBounded, Client
  PROVE  EntriesBounded'
<1>1. /\ Len(queue) \in Nat /\ Len(processing) \in Nat /\ MaxQueued \in Nat
      /\ Len(queue') \in Nat /\ InHand \in {0, 1}
      /\ Occupied \in SUBSET Workers /\ queue \in Seq(Jobs)
  BY SizeTypes, ListTypes DEF Occupied
<1>2. /\ Cardinality(Occupied) \in Nat /\ Cardinality(Workers) \in Nat
      /\ Cardinality(Occupied) <= Cardinality(Workers)
  BY <1>1, WorkerSets
<1>3. UNCHANGED <<processing, worker, held>>
  BY DEF Client, CreateOrJoin, Join, Create, RefuseFull, Unsubscribe,
         runnerVars
<1>4. InHand' = InHand /\ Occupied' = Occupied
  BY <1>3 DEF InHand, Occupied
<1>5. CASE UNCHANGED queue
  BY <1>1, <1>2, <1>3, <1>4, <1>5 DEF EntriesBounded
<1>6. ASSUME NEW f \in Fingerprints, NEW k \in Subscribers, NEW j \in Jobs,
             Create(f, k, j)
      PROVE  EntriesBounded'
  <2>1. Len(queue) < MaxQueued /\ queue' = Append(queue, j)
    BY <1>6 DEF Create, QueueHasRoom
  <2>2. Len(queue') = Len(queue) + 1
    BY <1>1, <2>1, AppendEntry
  <2> QED BY <1>1, <1>2, <1>3, <1>4, <2>1, <2>2 DEF EntriesBounded
<1> QED BY <1>5, <1>6 DEF Client, CreateOrJoin, Join, RefuseFull, Unsubscribe

LEMMA BoundsNext ==
  ASSUME OneProcess, TypeOK, TypeOK', RunnerInv, DeliveryInv, OneWorkerPerJob,
         EntriesBounded, [Next]_vars
  PROVE  EntriesBounded'
<1>1. ASSUME UNCHANGED <<queue, processing, held, worker>>
      PROVE  EntriesBounded'
  BY <1>1 DEF EntriesBounded, InHand, Occupied
<1>2. CASE Tick /\ UNCHANGED runnerVars
  BY <1>1, <1>2 DEF Tick, runnerVars
<1>3. CASE UNCHANGED vars
  BY <1>1, <1>3 DEF vars, runnerVars, storeVars
<1> QED BY <1>2, <1>3, ClientBounded, ProcessStepBounded, WorkerStepBounded
        DEF Next

\* With one process the two lists together hold at most what MaxQueued allows
\* and one entry per goroutine, although Recover pushes without looking at
\* MaxQueued (store.go:556): it only gives back what goroutines had taken.
THEOREM ListsAreBounded ==
  ASSUME OneProcess
  PROVE  Spec => []QueueBounded
<1>1. TypeOK /\ Init => EntriesBounded
  BY BoundsInit
<1>2. /\ TypeOK /\ TypeOK' /\ RunnerInv /\ DeliveryInv /\ AttendanceInv
      /\ EntriesBounded /\ [Next]_vars
      => EntriesBounded'
  BY BoundsNext DEF AttendanceInv
<1>3. TypeOK /\ EntriesBounded => QueueBounded
  <2> SUFFICES ASSUME TypeOK, EntriesBounded
               PROVE  QueueBounded
    OBVIOUS
  <2>1. Workers \in SUBSET Workers
    OBVIOUS
  <2> QED BY <2>1, SizeTypes, WorkerSets DEF EntriesBounded, QueueBounded
<1> QED BY <1>1, <1>2, <1>3, QueueTypeCorrect, RunnerInvariant,
           DeliveryInvariant, AttendanceInvariant, PTL DEF Spec

-----------------------------------------------------------------------------
(* What a worker has read of its job stays true.                           *)

\* A job that a client, the clock or a list operation leaves live is in the
\* state it was in.
LEMMA OthersLeaveState ==
  ASSUME StoreInv, NEW i \in Jobs, i \in issued,
         Client \/ Tick \/ UNCHANGED keyVars
  PROVE  /\ Live(i)' => job'[i].state = job[i].state
         /\ \/ job'[i].state \in {job[i].state, "absent"}
            \/ Live(i) /\ job'[i].state = "cancelled"
<1>1. job \in [Jobs -> JobRecord] /\ job[i] \in JobRecord
  BY DEF StoreInv, StoreTypeOK
<1>2. SUFFICES \/ job'[i].state \in {job[i].state, "absent"}
               \/ Live(i) /\ job'[i].state = "cancelled"
  BY <1>1 DEF Live, LiveStates
<1>3. ASSUME NEW f \in Fingerprints, NEW k \in Subscribers, CreateOrJoin(f, k)
      PROVE  job'[i].state = job[i].state
  <2>1. CASE Join(f, k)
    BY <1>1, <2>1 DEF Join, JoinedBy, JobRecord
  <2>2. CASE \E j \in Jobs : Create(f, k, j)
    BY <1>1, <2>2 DEF Create
  <2>3. CASE RefuseFull(f, k)
    BY <2>3 DEF RefuseFull
  <2> QED BY <1>3, <2>1, <2>2, <2>3 DEF CreateOrJoin
<1>4. ASSUME NEW j \in Jobs, NEW k \in Subscribers, Unsubscribe(j, k)
      PROVE  \/ job'[i].state = job[i].state
             \/ Live(i) /\ job'[i].state = "cancelled"
  <2>1. CASE k \in job[j].subscribers /\ i = j
    BY <1>1, <1>4, <2>1 DEF Unsubscribe, LeftBy, Cancels, JobRecord
  <2>2. CASE ~(k \in job[j].subscribers /\ i = j)
    BY <1>1, <1>4, <2>2 DEF Unsubscribe
  <2> QED BY <2>1, <2>2
<1>5. CASE Tick
  <2>1. job'[i] = AgedJob(job[i])
    BY <1>5 DEF Tick
  <2> QED BY <1>1, <2>1, AgedJobFacts DEF AbsentJob
<1>6. CASE UNCHANGED keyVars
  BY <1>6 DEF keyVars
<1> QED BY <1>3, <1>4, <1>5, <1>6 DEF Client

\* Only a worker moves a job along the graph, by one of two calls.
LEMMA WhoMovesJobs ==
  ASSUME [Next]_vars
  PROVE  \/ Client \/ Tick \/ UNCHANGED keyVars
         \/ \E w \in Workers :
              /\ worker[w].pc = "write" /\ Goto(w, "reread")
              /\ Transition(worker[w].job, worker[w].to)
         \/ \E w \in Workers :
              /\ worker[w].pc = "settle-write" /\ Goto(w, "settle-reread")
              /\ Transition(worker[w].job, "failed")
<1>1. CASE UNCHANGED vars
  BY <1>1 DEF vars, storeVars, keyVars
<1>2. ASSUME NEW r \in Runners, Start(r) \/ RecoverStep(r) \/ Shutdown(r)
                                \/ Stop(r) \/ Crash(r)
      PROVE  UNCHANGED keyVars
  <2>1. CASE Start(r) \/ Shutdown(r) \/ Stop(r) \/ Crash(r)
    BY <2>1 DEF Start, Shutdown, Stop, Crash, storeVars, keyVars
  <2>2. CASE RecoverStep(r)
    BY <2>2 DEF RecoverStep, RecoverPop, RecoverGet, RecoverPush, RecoverDone,
                Pop, Requeue, storeVars, keyVars
  <2> QED BY <1>2, <2>1, <2>2
<1>3. ASSUME NEW w \in Workers,
             WorkerStep(w) \/ StrandedClaim(w) \/ ExecutorCallFails(w)
             \/ WorkerCallFails(w)
      PROVE  \/ UNCHANGED keyVars
             \/ /\ worker[w].pc = "write" /\ Goto(w, "reread")
                /\ Transition(worker[w].job, worker[w].to)
             \/ /\ worker[w].pc = "settle-write" /\ Goto(w, "settle-reread")
                /\ Transition(worker[w].job, "failed")
  <2>1. CASE ClaimJob(w) \/ StrandedClaim(w) \/ AckJob(w)
             \/ WorkerCallFails(w)
    BY <2>1 DEF ClaimJob, StrandedClaim, AckJob, WorkerCallFails, Claim, Ack,
                storeVars, keyVars
  <2>2. CASE Inspect(w) \/ Precheck(w) \/ Interrupted(w) \/ Execute(w)
             \/ CheckCancelled(w) \/ GetForTransition(w)
             \/ RereadTransition(w) \/ ExecutorCallFails(w) \/ Settle(w)
             \/ SettleGet(w) \/ SettleReread(w)
    BY <2>2 DEF Inspect, Precheck, Interrupted, Execute, CheckCancelled,
                GetForTransition, RereadTransition, ExecutorCallFails, Settle,
                SettleGet, SettleReread, storeVars, keyVars
  <2>3. CASE WriteTransition(w)
    BY <2>3 DEF WriteTransition, storeVars, keyVars
  <2>4. CASE SettleWrite(w)
    BY <2>4 DEF SettleWrite, storeVars, keyVars
  <2> QED BY <1>3, <2>1, <2>2, <2>3, <2>4
          DEF WorkerStep, ExecutorCall, SettleCall
<1> QED BY <1>1, <1>2, <1>3 DEF Next

\* A goroutine that has not started its executor has no stage.
FreshStart(w) ==
  worker[w].pc \in {"idle", "claimed", "precheck"} => worker[w].stage = "start"

\* What a goroutine knows of its job while the job is live: the state it last
\* reported, that the state it is about to write may follow it, and the state
\* it has just written.
KnowsState(w) ==
  LET j == worker[w].job IN
  Live(j)
  => /\ /\ worker[w].pc \in {"execute", "check", "get", "write"}
        /\ worker[w].stage # "start"
        => job[j].state = worker[w].stage
     /\ worker[w].pc = "write" => worker[w].to \in AllowedNext[job[j].state]
     /\ worker[w].pc = "reread" => job[j].state = worker[w].to

ViewInv == \A w \in Workers : FreshStart(w) /\ KnowsState(w)

\* Nobody but its worker moves a job that has one.
LEMMA JobUnmoved ==
  ASSUME RunnerInv, StoreInv, OneWorkerPerJob, SettledWorkers, [Next]_vars,
         NEW w \in Workers, Busy(w), NEW j, j = worker[w].job
  PROVE  \/ Live(j)' => job'[j].state = job[j].state /\ Live(j)
         \/ /\ worker[w].pc = "write" /\ Goto(w, "reread")
            /\ Transition(j, worker[w].to)
         \/ worker[w].pc = "settle-write" /\ Goto(w, "settle-reread")
<1>1. j \in Jobs /\ j \in issued /\ job \in [Jobs -> JobRecord]
  BY DEF RunnerInv, WorkersWellFormed, SettledWorkers, StoreInv, StoreTypeOK
<1>2. CASE Client \/ Tick \/ UNCHANGED keyVars
  BY <1>1, <1>2, OthersLeaveState DEF Live
<1>3. ASSUME NEW v \in Workers, NEW s, Busy(v), v # w,
             Transition(worker[v].job, s)
      PROVE  Live(j)' => job'[j].state = job[j].state /\ Live(j)
  <2>1. worker[v].job # j
    BY <1>3 DEF OneWorkerPerJob
  <2>2. job'[j] = job[j]
    BY <1>1, <1>3, <2>1 DEF Transition
  <2> QED BY <2>2 DEF Live
<1> QED BY <1>2, <1>3, WhoMovesJobs DEF Busy

\* A step of the goroutine itself that leaves the store alone.
LEMMA LocalStepView ==
  ASSUME RunnerInv, ViewInv, NEW w \in Workers, UNCHANGED job,
         \/ Inspect(w) \/ Precheck(w) \/ Execute(w) \/ CheckCancelled(w)
         \/ GetForTransition(w) \/ RereadTransition(w)
         \/ ExecutorCallFails(w) \/ Settle(w) \/ SettleGet(w)
         \/ SettleReread(w),
         ~Quit(w)
  PROVE  FreshStart(w)' /\ KnowsState(w)'
<1>1. /\ worker \in [Workers -> WorkerRecord] /\ worker[w] \in WorkerRecord
      /\ FreshStart(w) /\ KnowsState(w)
  BY DEF RunnerInv, WorkersWellFormed, ViewInv
<1>2. \A pc : Goto(w, pc) => /\ worker'[w].pc = pc
                             /\ worker'[w].job = worker[w].job
                             /\ worker'[w].stage = worker[w].stage
                             /\ worker'[w].to = worker[w].to
  BY <1>1 DEF Goto, WorkerRecord
<1>3. ASSUME NEW pc \in {"settle", "ack", "settle-get", "settle-write"},
             Goto(w, pc)
      PROVE  FreshStart(w)' /\ KnowsState(w)'
  BY <1>2, <1>3 DEF FreshStart, KnowsState
<1>4. CASE Inspect(w) \/ Precheck(w)
  <2>1. /\ worker[w].stage = "start"
        /\ \E pc \in {"precheck", "ack", "execute"} : Goto(w, pc)
    BY <1>1, <1>4 DEF Inspect, Precheck, FreshStart
  <2> QED BY <1>2, <2>1 DEF FreshStart, KnowsState
<1>5. CASE Execute(w)
  <2>1. CASE Goto(w, "settle")
    BY <1>3, <2>1
  <2>2. CASE ~Goto(w, "settle")
    <3>1. PICK step \in Program[worker[w].stage] :
            worker' = [worker EXCEPT ![w].to = step.to,
                                     ![w].pc = IF step.check THEN "check"
                                                             ELSE "get"]
      BY <1>5, <2>2 DEF Execute
    <3>2. /\ worker'[w].pc \in {"check", "get"}
          /\ worker'[w].job = worker[w].job
          /\ worker'[w].stage = worker[w].stage
      BY <1>1, <3>1 DEF WorkerRecord
    <3>3. worker[w].pc = "execute"
      BY <1>5 DEF Execute
    <3> QED BY <1>1, <3>2, <3>3 DEF FreshStart, KnowsState, Live
  <2> QED BY <2>1, <2>2
<1>6. CASE CheckCancelled(w)
  BY <1>1, <1>2, <1>6 DEF CheckCancelled, FreshStart, KnowsState, Live
<1>7. CASE GetForTransition(w)
  <2>1. worker[w].pc = "get"
    BY <1>7 DEF GetForTransition
  <2>2. CASE Goto(w, "settle")
    BY <1>3, <2>2
  <2>3. CASE /\ Goto(w, "write")
             /\ worker[w].to \in AllowedNext[job[worker[w].job].state]
    BY <1>1, <1>2, <2>1, <2>3 DEF FreshStart, KnowsState, Live
  <2> QED BY <1>7, <2>2, <2>3 DEF GetForTransition
<1>8. CASE RereadTransition(w)
  <2>1. worker[w].pc = "reread"
    BY <1>8 DEF RereadTransition
  <2>2. CASE Goto(w, "settle")
    BY <1>3, <2>2
  <2>3. CASE ~Goto(w, "settle")
    <3>1. worker' = [worker EXCEPT ![w].pc = "execute",
                                   ![w].stage = worker[w].to]
      BY <1>8, <2>3 DEF RereadTransition
    <3>2. /\ worker'[w].pc = "execute"
          /\ worker'[w].job = worker[w].job
          /\ worker'[w].stage = worker[w].to
      BY <1>1, <3>1 DEF WorkerRecord
    <3> QED BY <1>1, <2>1, <3>2 DEF FreshStart, KnowsState, Live
  <2> QED BY <2>2, <2>3
<1>9. CASE ExecutorCallFails(w) \/ Settle(w) \/ SettleGet(w) \/ SettleReread(w)
  BY <1>3, <1>9 DEF ExecutorCallFails, Settle, SettleGet, SettleReread
<1> QED BY <1>4, <1>5, <1>6, <1>7, <1>8, <1>9

LEMMA ViewInit == ASSUME Init PROVE ViewInv
BY DEF Init, Off, ViewInv, FreshStart, KnowsState

LEMMA ViewNext ==
  ASSUME RunnerInv, StoreInv, OneWorkerPerJob, SettledWorkers, ViewInv,
         [Next]_vars
  PROVE  ViewInv'
<1> SUFFICES ASSUME NEW w \in Workers
             PROVE  FreshStart(w)' /\ KnowsState(w)'
  BY DEF ViewInv
<1>1. /\ worker \in [Workers -> WorkerRecord] /\ worker[w] \in WorkerRecord
      /\ FreshStart(w) /\ KnowsState(w)
  BY DEF RunnerInv, WorkersWellFormed, ViewInv
<1>2. CASE worker'[w] = worker[w]
  <2>1. FreshStart(w)'
    BY <1>1, <1>2 DEF FreshStart
  <2>2. CASE Busy(w)
    <3>1. PICK j : j = worker[w].job
      OBVIOUS
    <3>2. \A pc : Goto(w, pc) => worker'[w].pc = pc
      BY <1>1 DEF Goto, WorkerRecord
    <3>3. Live(j)' => job'[j].state = job[j].state /\ Live(j)
      BY <1>2, <2>2, <3>1, <3>2, JobUnmoved
    <3> QED BY <1>1, <1>2, <2>1, <3>1, <3>3 DEF KnowsState, Live
  <2>3. CASE ~Busy(w)
    BY <1>2, <2>1, <2>3 DEF KnowsState, Busy
  <2> QED BY <2>2, <2>3
<1>3. CASE worker'[w] \in {Off, Idle}
  BY <1>3, IdleRecords DEF FreshStart, KnowsState, Idle, Off
<1>4. CASE ClaimJob(w)
  <2>1. PICK j \in Jobs : worker' = [worker EXCEPT ![w].pc = "claimed",
                                                  ![w].job = j]
    BY <1>4 DEF ClaimJob
  <2>2. /\ worker'[w].pc = "claimed" /\ worker'[w].stage = worker[w].stage
        /\ worker[w].pc = "idle"
    BY <1>1, <1>4, <2>1 DEF ClaimJob, WorkerRecord
  <2> QED BY <1>1, <2>2 DEF FreshStart, KnowsState
<1>5. CASE Interrupted(w) \/ AckJob(w) \/ Quit(w)
  BY <1>1, <1>3, <1>5 DEF Interrupted, AckJob, Quit
<1>6. CASE WriteTransition(w)
  <2>1. worker[w].pc = "write" /\ worker[w].job \in Jobs
        /\ job \in [Jobs -> JobRecord]
    BY <1>6 DEF WriteTransition, RunnerInv, WorkersWellFormed, Busy, StoreInv,
                StoreTypeOK
  <2>2. \A pc : Goto(w, pc) => /\ worker'[w].pc = pc
                               /\ worker'[w].job = worker[w].job
                               /\ worker'[w].to = worker[w].to
    BY <1>1 DEF Goto, WorkerRecord
  <2>3. CASE Goto(w, "ack") \/ Goto(w, "settle")
    BY <2>2, <2>3 DEF FreshStart, KnowsState
  <2>4. CASE Goto(w, "reread") /\ Transition(worker[w].job, worker[w].to)
    <3>1. job'[worker[w].job] = MovedTo(worker[w].job, worker[w].to)
      BY <2>1, <2>4 DEF Transition
    <3>2. job'[worker[w].job].state = worker[w].to
      BY <2>1, <3>1 DEF MovedTo, JobRecord
    <3> QED BY <2>2, <2>4, <3>2 DEF FreshStart, KnowsState
  <2> QED BY <1>6, <2>3, <2>4 DEF WriteTransition
<1>7. CASE SettleWrite(w) /\ ~Quit(w)
  <2>1. Goto(w, "settle-reread")
    BY <1>7 DEF SettleWrite
  <2>2. worker'[w].pc = "settle-reread"
    BY <1>1, <2>1 DEF Goto, WorkerRecord
  <2> QED BY <2>2 DEF FreshStart, KnowsState
<1>8. CASE /\ \/ Inspect(w) \/ Precheck(w) \/ Execute(w) \/ CheckCancelled(w)
              \/ GetForTransition(w) \/ RereadTransition(w)
              \/ ExecutorCallFails(w) \/ Settle(w) \/ SettleGet(w)
              \/ SettleReread(w)
           /\ ~Quit(w)
  <2>1. UNCHANGED job
    BY <1>8 DEF Inspect, Precheck, Execute, CheckCancelled, GetForTransition,
                RereadTransition, ExecutorCallFails, Settle, SettleGet,
                SettleReread, storeVars
  <2> QED BY <1>8, <2>1, LocalStepView
<1> QED BY <1>2, <1>3, <1>4, <1>5, <1>6, <1>7, <1>8, WorkerEffects
        DEF WorkerStep, ExecutorCall, SettleCall

LEMMA ViewInvariant == ASSUME OneProcess PROVE Spec => []ViewInv
<1>1. Init => ViewInv
  BY ViewInit
<1>2. /\ RunnerInv /\ StoreInv /\ AttendanceInv /\ LossInv /\ ViewInv
      /\ [Next]_vars
      => ViewInv'
  BY ViewNext DEF AttendanceInv, LossInv
<1> QED BY <1>1, <1>2, RunnerInvariant, QueueUsesStore, StoreInvariant,
           AttendanceInvariant, LossInvariant, PTL DEF Spec

\* With one process, an executor that has reported a state finds its job in
\* that state at its next report, or finds it over: the three calls of a
\* report (store.go:435) need no lock around them.
THEOREM ExecutorsKnowTheirJob ==
  ASSUME OneProcess
  PROVE  Spec => []ExecutorViewAgrees
<1>1. ViewInv => ExecutorViewAgrees
  BY DEF ViewInv, KnowsState, ExecutorViewAgrees
<1> QED BY <1>1, ViewInvariant, PTL

\* Every live job may fail and may be cancelled.
LEMMA LiveJobsCanEnd ==
  ASSUME NEW s \in LiveStates
  PROVE  "failed" \in AllowedNext[s] /\ "cancelled" \in AllowedNext[s]
<1>1. s \in States
  BY DEF States
<1>2. AllowedNext[s] =
        CASE s = "queued" ->
               {"checking-cache", "searching", "failed", "cancelled"}
          [] s = "checking-cache" ->
               {"searching", "checking-preferred-source", "partial", "failed",
                "cancelled"}
          [] s = "searching" ->
               {"checking-preferred-source", "checking-backup-source",
                "browser-fallback", "partial", "failed", "cancelled"}
          [] s = "checking-preferred-source" ->
               {"checking-backup-source", "browser-fallback"}
               \cup TerminalStates
          [] s = "checking-backup-source" ->
               {"browser-fallback"} \cup TerminalStates
          [] s = "browser-fallback" -> TerminalStates
          [] OTHER -> {}
  BY <1>1 DEF AllowedNext
<1> QED BY <1>2 DEF LiveStates, TerminalStates

\* What a worker writes is a step of the graph from the state the job is in
\* when it is written, and no cancellation.
LEMMA WritesFollowGraph ==
  ASSUME RunnerInv, StoreInv, ViewInv, NEW w \in Workers, NEW s,
         Transition(worker[w].job, s),
         \/ worker[w].pc = "write" /\ s = worker[w].to
         \/ worker[w].pc = "settle-write" /\ s = "failed",
         NEW j, j = worker[w].job
  PROVE  /\ j \in Jobs /\ Live(j)
         /\ s \in AllowedNext[job[j].state] \ {"cancelled"}
         /\ s \in States
         /\ job'[j] = MovedTo(j, s) /\ \A i \in Jobs : i # j => job'[i] = job[i]
<1>1. /\ j \in Jobs /\ job \in [Jobs -> JobRecord] /\ worker[w] \in WorkerRecord
  BY DEF RunnerInv, WorkersWellFormed, Busy, StoreInv, StoreTypeOK
<1>2. Live(j)
  <2>1. Exists(j) /\ ~Terminal(j)
    BY DEF Transition, TransitionReply
  <2> QED BY <1>1, <2>1 DEF Exists, Terminal, Live, JobRecord, States
<1>3. s \in ReportedStates
  BY <1>1, ReportedFailed DEF WorkerRecord
<1>4. s \in AllowedNext[job[j].state]
  <2>1. CASE worker[w].pc = "write"
    BY <1>2, <2>1 DEF ViewInv, KnowsState
  <2>2. CASE s = "failed"
    BY <1>2, <2>2, LiveJobsCanEnd DEF Live
  <2> QED BY <2>1, <2>2
<1> QED BY <1>1, <1>2, <1>3, <1>4 DEF ReportedStates, Transition

\* With one process, no job ever takes a step the graph does not have, although
\* transitionScript (store.go:396) does not look at the graph: nothing but a
\* cancellation comes between the look and the write.
THEOREM JobsFollowTheGraph ==
  ASSUME OneProcess
  PROVE  Spec => StatesFollowGraph
<1>1. ASSUME RunnerInv, StoreInv, ViewInv, [Next]_vars, NEW i \in Jobs,
             Exists(i), job'[i].state \notin {job[i].state, "absent"}
      PROVE  job'[i].state \in AllowedNext[job[i].state]
  <2>1. job \in [Jobs -> JobRecord] /\ i \in issued
    BY <1>1 DEF StoreInv, StoreTypeOK, KeysWellFormed, JobsWellFormed
  <2>2. CASE Client \/ Tick \/ UNCHANGED keyVars
    <3>1. Live(i) /\ job'[i].state = "cancelled"
      BY <1>1, <2>1, <2>2, OthersLeaveState
    <3> QED BY <3>1, LiveJobsCanEnd DEF Live
  <2>3. ASSUME NEW w \in Workers, NEW s, Transition(worker[w].job, s),
               \/ worker[w].pc = "write" /\ s = worker[w].to
               \/ worker[w].pc = "settle-write" /\ s = "failed"
        PROVE  job'[i].state \in AllowedNext[job[i].state]
    <3>1. PICK j : j = worker[w].job
      OBVIOUS
    <3>2. /\ j \in Jobs /\ s \in AllowedNext[job[j].state]
          /\ job'[j] = MovedTo(j, s)
          /\ \A m \in Jobs : m # j => job'[m] = job[m]
      BY <1>1, <2>3, <3>1, WritesFollowGraph
    <3>3. i = j
      BY <1>1, <3>2
    <3>4. job'[j].state = s
      BY <2>1, <3>2 DEF MovedTo, JobRecord
    <3> QED BY <3>2, <3>3, <3>4
  <2> QED BY <1>1, <2>2, <2>3, WhoMovesJobs
<1>2. RunnerInv /\ StoreInv /\ ViewInv /\ [Next]_vars
      => [\A j \in Jobs :
            Exists(j) /\ job'[j].state \notin {job[j].state, "absent"}
            => job'[j].state \in AllowedNext[job[j].state]]_job
  BY <1>1
<1> QED BY <1>2, RunnerInvariant, QueueUsesStore, StoreInvariant,
           ViewInvariant, PTL DEF Spec, StatesFollowGraph

-----------------------------------------------------------------------------
(* A job that is executed again.                                           *)

\* Every executor of apps/worker begins with the report of "checking-cache",
\* unless it fails or refuses the job at once.
StartsWithCache ==
  \A step \in Program["start"] :
    step.to \in {"checking-cache", "failed", "return", "error"}

Successes == {"verified", "partial", "blocked"}

PushedBack(j) == \E r \in Runners : runner[r] = "requeueing" /\ held[r] = j

Waiting(j) == Queued(j) \/ PushedBack(j)

\* A job that waits, or is about to be pushed back, has no result.
WaitingHaveNoResult ==
  \A j \in Jobs : Waiting(j) => job[j].state \notin Successes

\* Whoever works on job j has reported nothing of it and can report nothing
\* but its failure.
StartedAnew(w) ==
  /\ worker[w].pc \in {"claimed", "precheck", "execute", "check", "get"}
     => worker[w].stage = "start"
  /\ worker[w].pc \in {"check", "get"}
     => worker[w].to \in {"checking-cache", "failed"}
  /\ worker[w].pc \in {"write", "reread"} => worker[w].to = "failed"

\* What is true of a job from the moment it is back in the queue.
Resumed(j) ==
  /\ j \in issued
  /\ job[j].state \notin Successes \cup {"queued"}
  /\ \A w \in Workers : Busy(w) /\ worker[w].job = j => StartedAnew(w)

\* The first report is accepted of a queued job only.
LEMMA CacheComesFirst ==
  ASSUME NEW s \in States, "checking-cache" \in AllowedNext[s]
  PROVE  s = "queued"
<1>1. AllowedNext[s] =
        CASE s = "queued" ->
               {"checking-cache", "searching", "failed", "cancelled"}
          [] s = "checking-cache" ->
               {"searching", "checking-preferred-source", "partial", "failed",
                "cancelled"}
          [] s = "searching" ->
               {"checking-preferred-source", "checking-backup-source",
                "browser-fallback", "partial", "failed", "cancelled"}
          [] s = "checking-preferred-source" ->
               {"checking-backup-source", "browser-fallback"}
               \cup TerminalStates
          [] s = "checking-backup-source" ->
               {"browser-fallback"} \cup TerminalStates
          [] s = "browser-fallback" -> TerminalStates
          [] OTHER -> {}
  BY DEF AllowedNext
<1> QED BY <1>1 DEF TerminalStates

\* A step leaves a job where it is, ends it without a result, or is a report
\* of its worker.
LEMMA JobStep ==
  ASSUME RunnerInv, StoreInv, [Next]_vars, NEW j \in Jobs, j \in issued
  PROVE  \/ job'[j].state \in {job[j].state, "absent", "cancelled", "failed"}
         \/ \E w \in Workers :
              /\ worker[w].pc = "write" /\ worker[w].job = j
              /\ job'[j].state = worker[w].to
<1>1. job \in [Jobs -> JobRecord] /\ job[j] \in JobRecord
  BY DEF StoreInv, StoreTypeOK
<1>2. CASE Client \/ Tick \/ UNCHANGED keyVars
  BY <1>2, OthersLeaveState
<1>3. ASSUME NEW w \in Workers, NEW s, Transition(worker[w].job, s)
      PROVE  \/ job'[j].state = job[j].state
             \/ worker[w].job = j /\ job'[j].state = s
  BY <1>1, <1>3 DEF Transition, MovedTo, JobRecord
<1> QED BY <1>2, <1>3, WhoMovesJobs

\* What a step does to the goroutine of a job executed again.
LEMMA StartedAnewNext ==
  ASSUME StartsWithCache, RunnerInv, StoreInv, ViewInv, [Next]_vars,
         NEW j \in Jobs, Resumed(j), NEW w \in Workers,
         Busy(w)', worker'[w].job = j
  PROVE  StartedAnew(w)'
<1>1. /\ worker \in [Workers -> WorkerRecord] /\ worker[w] \in WorkerRecord
      /\ FreshStart(w) /\ job \in [Jobs -> JobRecord]
      /\ Busy(w) /\ worker[w].job = j => StartedAnew(w)
  BY DEF RunnerInv, WorkersWellFormed, ViewInv, StoreInv, StoreTypeOK, Resumed
<1>2. \A pc : Goto(w, pc) => /\ worker'[w].pc = pc
                             /\ worker'[w].job = worker[w].job
                             /\ worker'[w].stage = worker[w].stage
                             /\ worker'[w].to = worker[w].to
  BY <1>1 DEF Goto, WorkerRecord
<1>3. CASE worker'[w] = worker[w]
  BY <1>1, <1>3 DEF Busy, StartedAnew
<1>4. CASE worker'[w] \in {Off, Idle}
  BY <1>4, IdleRecords DEF Busy, Idle, Off
<1>5. CASE ClaimJob(w)
  <2>1. PICK i \in Jobs : worker' = [worker EXCEPT ![w].pc = "claimed",
                                                  ![w].job = i]
    BY <1>5 DEF ClaimJob
  <2>2. /\ worker'[w].pc = "claimed" /\ worker'[w].stage = worker[w].stage
        /\ worker[w].pc = "idle"
    BY <1>1, <1>5, <2>1 DEF ClaimJob, WorkerRecord
  <2> QED BY <1>1, <2>2 DEF FreshStart, StartedAnew
<1>6. CASE Interrupted(w) \/ AckJob(w) \/ Quit(w)
  BY <1>1, <1>4, <1>6 DEF Interrupted, AckJob, Quit
<1>7. ASSUME NEW pc \in {"ack", "settle", "settle-get", "settle-write",
                         "settle-reread"},
             Goto(w, pc)
      PROVE  StartedAnew(w)'
  BY <1>2, <1>7 DEF StartedAnew
<1>8. CASE Inspect(w) \/ Precheck(w)
  <2>1. /\ worker[w].stage = "start"
        /\ \E pc \in {"precheck", "ack", "execute"} : Goto(w, pc)
    BY <1>1, <1>8 DEF Inspect, Precheck, FreshStart
  <2> QED BY <1>2, <2>1 DEF StartedAnew
<1>9. CASE Execute(w)
  <2>1. CASE Goto(w, "settle")
    BY <1>7, <2>1
  <2>2. CASE ~Goto(w, "settle")
    <3>1. PICK step \in Program[worker[w].stage] :
            /\ step.to \in ReportedStates
            /\ worker' = [worker EXCEPT ![w].to = step.to,
                                        ![w].pc = IF step.check THEN "check"
                                                                ELSE "get"]
      BY <1>9, <2>2 DEF Execute
    <3>2. /\ worker'[w].pc \in {"check", "get"}
          /\ worker'[w].job = worker[w].job
          /\ worker'[w].stage = worker[w].stage
          /\ worker'[w].to = step.to
      BY <1>1, <3>1 DEF WorkerRecord
    <3>3. worker[w].pc = "execute"
      BY <1>9 DEF Execute
    <3>4. worker[w].stage = "start"
      BY <1>1, <3>2, <3>3 DEF Busy, StartedAnew
    <3>5. step.to \in {"checking-cache", "failed"}
      BY <3>1, <3>4 DEF StartsWithCache, ReportedStates, States, LiveStates,
                        TerminalStates
    <3> QED BY <3>2, <3>4, <3>5 DEF StartedAnew
  <2> QED BY <2>1, <2>2
<1>10. CASE CheckCancelled(w)
  BY <1>1, <1>2, <1>10 DEF CheckCancelled, StartedAnew, Busy
<1>11. CASE GetForTransition(w)
  <2>1. worker[w].pc = "get"
    BY <1>11 DEF GetForTransition
  <2>2. CASE Goto(w, "settle")
    BY <1>7, <2>2
  <2>3. CASE /\ Goto(w, "write") /\ Exists(worker[w].job)
             /\ worker[w].to \in AllowedNext[job[worker[w].job].state]
    <3>1. worker[w].job = j /\ worker[w].to \in {"checking-cache", "failed"}
      BY <1>1, <1>2, <2>1, <2>3 DEF Busy, StartedAnew
    <3>2. job[j].state \in States /\ job[j].state # "queued"
      BY <1>1, <2>3, <3>1 DEF Exists, JobRecord, Resumed
    <3>3. worker[w].to = "failed"
      BY <2>3, <3>1, <3>2, CacheComesFirst
    <3> QED BY <1>2, <2>3, <3>3 DEF StartedAnew
  <2> QED BY <1>11, <2>2, <2>3 DEF GetForTransition
<1>12. CASE WriteTransition(w)
  <2>1. worker[w].pc = "write"
    BY <1>12 DEF WriteTransition
  <2>2. CASE Goto(w, "ack") \/ Goto(w, "settle")
    BY <1>7, <2>2
  <2>3. CASE Goto(w, "reread")
    BY <1>1, <1>2, <2>1, <2>3 DEF Busy, StartedAnew
  <2> QED BY <1>12, <2>2, <2>3 DEF WriteTransition
<1>13. CASE RereadTransition(w)
  <2>1. worker[w].pc = "reread"
    BY <1>13 DEF RereadTransition
  <2>2. CASE Goto(w, "settle")
    BY <1>7, <2>2
  <2>3. CASE ~Goto(w, "settle")
    <3>1. /\ worker' = [worker EXCEPT ![w].pc = "execute",
                                      ![w].stage = worker[w].to]
          /\ worker[w].to \notin TerminalStates
      BY <1>13, <2>3 DEF RereadTransition
    <3>2. worker'[w].job = worker[w].job
      BY <1>1, <3>1 DEF WorkerRecord
    <3>3. worker[w].to = "failed"
      BY <1>1, <2>1, <3>2 DEF Busy, StartedAnew
    <3> QED BY <3>1, <3>3 DEF TerminalStates
  <2> QED BY <2>2, <2>3
<1>14. CASE /\ \/ ExecutorCallFails(w) \/ Settle(w) \/ SettleGet(w)
                \/ SettleWrite(w) \/ SettleReread(w)
            /\ ~Quit(w)
  BY <1>7, <1>14 DEF ExecutorCallFails, Settle, SettleGet, SettleWrite,
                     SettleReread
<1> QED BY <1>3, <1>4, <1>5, <1>6, <1>8, <1>9, <1>10, <1>11, <1>12, <1>13,
           <1>14, WorkerEffects DEF WorkerStep, ExecutorCall, SettleCall

LEMMA ResumedNext ==
  ASSUME StartsWithCache, RunnerInv, StoreInv, ViewInv, [Next]_vars,
         NEW j \in Jobs, Resumed(j)
  PROVE  Resumed(j)'
<1>1. issued \subseteq issued'
  BY ListEffects DEF Create, Claim, Ack, RecoverPop, RecoverGet, RecoverPush,
                     Crash, Pop, Requeue, storeVars, keyVars
<1>2. job'[j].state \notin Successes \cup {"queued"}
  <2>1. CASE job'[j].state \in {job[j].state, "absent", "cancelled", "failed"}
    BY <2>1 DEF Resumed, Successes
  <2>2. ASSUME NEW w \in Workers, worker[w].pc = "write", worker[w].job = j,
               job'[j].state = worker[w].to
        PROVE  job'[j].state = "failed"
    BY <2>2 DEF Resumed, StartedAnew, Busy
  <2> QED BY <2>1, <2>2, JobStep DEF Resumed, Successes
<1>3. ASSUME NEW w \in Workers, Busy(w)', worker'[w].job = j
      PROVE  StartedAnew(w)'
  BY <1>3, StartedAnewNext
<1> QED BY <1>1, <1>2, <1>3 DEF Resumed

\* A job waits because it did, because it is new, or because recovery has
\* found it live.
LEMMA WhoWaits ==
  ASSUME RunnerInv, DeliveryInv, [Next]_vars, NEW j \in Jobs, Waiting(j)'
  PROVE  \/ Waiting(j)
         \/ \E f \in Fingerprints, k \in Subscribers : Create(f, k, j)
         \/ Live(j) /\ UNCHANGED job
<1> USE ListTypes DEF DeliveryInv
<1>1. CASE Queued(j)'
  <2>1. CASE UNCHANGED queue
    BY <1>1, <2>1 DEF Waiting, Queued
  <2>2. ASSUME NEW f \in Fingerprints, NEW k \in Subscribers, NEW i \in Jobs,
               Create(f, k, i)
        PROVE  Waiting(j) \/ Create(f, k, j)
    <3>1. queue' = Append(queue, i)
      BY <2>2 DEF Create
    <3>2. ToSet(queue') = ToSet(queue) \cup {i}
      BY <3>1, AppendEntry
    <3> QED BY <1>1, <2>2, <3>2 DEF Waiting, Queued
  <2>3. ASSUME NEW i \in Jobs, Claim(i)
        PROVE  Waiting(j)
    <3>1. queue # << >> /\ queue' = Front(queue)
      BY <2>3 DEF Claim
    <3>2. ToSet(queue') \subseteq ToSet(queue)
      BY <3>1, LastEntry
    <3> QED BY <1>1, <3>2 DEF Waiting, Queued
  <2>4. ASSUME NEW r \in Runners, RecoverPush(r)
        PROVE  Waiting(j)
    <3>1. /\ runner[r] = "requeueing" /\ held[r] \in Jobs
          /\ queue' = Cons(held[r], queue)
      BY <2>4 DEF RecoverPush, Requeue, RunnerInv, ProcessesWellFormed
    <3>2. ToSet(queue') = ToSet(queue) \cup {held[r]}
      BY <3>1, ConsEntry
    <3> QED BY <1>1, <3>1, <3>2 DEF Waiting, Queued, PushedBack
  <2> QED BY <2>1, <2>2, <2>3, <2>4, ListEffects
          DEF Ack, RecoverPop, Pop, RecoverGet, Crash, storeVars
<1>2. CASE PushedBack(j)'
  <2>1. PICK r \in Runners : runner'[r] = "requeueing" /\ held'[r] = j
    BY <1>2 DEF PushedBack
  <2>2. /\ runner \in [Runners -> RunnerState]
        /\ held \in [Runners -> Jobs \cup {Null}]
    BY DEF RunnerInv, ProcessesWellFormed
  <2>3. SUFFICES \/ runner[r] = "requeueing" /\ held[r] = j
                 \/ Live(j) /\ UNCHANGED job
    BY DEF Waiting, PushedBack
  <2>4. CASE UNCHANGED vars \/ Client \/ (Tick /\ UNCHANGED runnerVars)
    BY <2>1, <2>4 DEF vars, runnerVars, Client
  <2>5. ASSUME NEW q \in Runners, Start(q) \/ RecoverPop(q) \/ RecoverPush(q)
                                  \/ RecoverDone(q) \/ Shutdown(q) \/ Stop(q)
                                  \/ Crash(q)
        PROVE  runner[r] = "requeueing" /\ held[r] = j
    <3>1. runner'[r] # runner[r] => runner'[r] # "requeueing"
      BY <2>2, <2>5 DEF Start, RecoverPop, RecoverPush, RecoverDone, Shutdown,
                        Stop, Crash
    <3>2. runner[r] = "requeueing" /\ runner'[r] = runner[r]
      BY <2>1, <3>1
    <3>3. held'[r] = held[r]
      BY <2>2, <2>5, <3>2
         DEF Start, RecoverPop, RecoverPush, RecoverDone, Shutdown, Stop, Crash
    <3> QED BY <2>1, <3>2, <3>3
  <2>6. ASSUME NEW q \in Runners, RecoverGet(q)
        PROVE  \/ runner[r] = "requeueing" /\ held[r] = j
               \/ Live(j) /\ UNCHANGED job
    <3>1. CASE Live(held[q])
      BY <2>1, <2>2, <2>6, <3>1 DEF RecoverGet, storeVars
    <3>2. CASE ~Live(held[q])
      BY <2>1, <2>2, <2>6, <3>2 DEF RecoverGet
    <3> QED BY <3>1, <3>2
  <2>7. ASSUME NEW w \in Workers,
               WorkerStep(w) \/ StrandedClaim(w) \/ ExecutorCallFails(w)
               \/ WorkerCallFails(w)
        PROVE  runner[r] = "requeueing" /\ held[r] = j
    <3>1. UNCHANGED held
      BY <2>7 DEF WorkerStep, ExecutorCall, SettleCall, ClaimJob, Inspect,
                  Precheck, Interrupted, Execute, CheckCancelled,
                  GetForTransition, WriteTransition, RereadTransition, Settle,
                  SettleGet, SettleWrite, SettleReread, AckJob, StrandedClaim,
                  ExecutorCallFails, WorkerCallFails
    <3>2. UNCHANGED runner \/ runner' = [runner EXCEPT ![RunnerOf[w]] = "stopping"]
      BY <2>7 DEF WorkerStep, ExecutorCall, SettleCall, ClaimJob, Inspect,
                  Precheck, Interrupted, Execute, CheckCancelled,
                  GetForTransition, WriteTransition, RereadTransition, Settle,
                  SettleGet, SettleWrite, SettleReread, AckJob, StrandedClaim,
                  ExecutorCallFails, WorkerCallFails, Quit
    <3> QED BY <2>1, <2>2, <3>1, <3>2
  <2> QED BY <2>4, <2>5, <2>6, <2>7 DEF Next, RecoverStep
<1> QED BY <1>1, <1>2 DEF Waiting

\* Nobody works on a job that waits.
LEMMA WaitingIsUntouched ==
  ASSUME RunnerInv, DeliveryInv, OneWorkerPerJob, NEW j \in Jobs, Waiting(j),
         NEW w \in Workers, Busy(w)
  PROVE  worker[w].job # j
<1>1. ~InProcessing(j)
  BY DEF DeliveryInv, DeliveredOnce, Waiting, PushedBack, Held
<1> QED BY <1>1 DEF OneWorkerPerJob

LEMMA WaitingIssued ==
  ASSUME DeliveryInv, NEW j \in Jobs, Waiting(j)
  PROVE  j \in issued
<1>1. j # Null
  BY StoreAssumption
<1> QED BY <1>1 DEF DeliveryInv, EntriesIssued, Waiting, PushedBack, Queued

LEMMA WaitingInit == ASSUME Init PROVE WaitingHaveNoResult
<1> SUFFICES ASSUME NEW j \in Jobs PROVE job[j].state \notin Successes
  BY DEF WaitingHaveNoResult
<1> QED BY DEF Init, StoreInit, AbsentJob, Successes

LEMMA WaitingNext ==
  ASSUME RunnerInv, StoreInv, DeliveryInv, OneWorkerPerJob,
         WaitingHaveNoResult, [Next]_vars
  PROVE  WaitingHaveNoResult'
<1> SUFFICES ASSUME NEW j \in Jobs, Waiting(j)'
             PROVE  job'[j].state \notin Successes
  BY DEF WaitingHaveNoResult
<1>1. job \in [Jobs -> JobRecord]
  BY DEF StoreInv, StoreTypeOK
<1>2. CASE Waiting(j)
  <2>1. job'[j].state \in {job[j].state, "absent", "cancelled", "failed"}
    BY <1>2, WaitingIssued, WaitingIsUntouched, JobStep DEF Busy
  <2> QED BY <1>2, <2>1 DEF WaitingHaveNoResult, Successes
<1>3. ASSUME NEW f \in Fingerprints, NEW k \in Subscribers, Create(f, k, j)
      PROVE  job'[j].state \notin Successes
  BY <1>1, <1>3 DEF Create, Successes
<1>4. CASE Live(j) /\ UNCHANGED job
  BY <1>4 DEF Live, LiveStates, Successes
<1> QED BY <1>2, <1>3, <1>4, WhoWaits

LEMMA BackInTheQueue ==
  ASSUME DeliveryInv, RunnerInv, OneWorkerPerJob, WaitingHaveNoResult,
         NEW j \in Jobs, Queued(j), job[j].state \notin {"queued", "absent"}
  PROVE  Resumed(j)
<1>1. Waiting(j)
  BY DEF Waiting
<1> QED BY <1>1, WaitingIssued, WaitingIsUntouched
        DEF WaitingHaveNoResult, Resumed

\* With one process and an executor that begins as those of apps/worker do, a
\* job that was interrupted past its first report and recovered (store.go:554)
\* never succeeds: its first report is refused, and the job is failed.
THEOREM ResumedJobsFail ==
  ASSUME OneProcess, StartsWithCache
  PROVE  Spec => ResumedJobsOnlyFail
<1>1. Spec => [](/\ RunnerInv /\ StoreInv /\ ViewInv /\ DeliveryInv
                 /\ OneWorkerPerJob /\ WaitingHaveNoResult)
  <2>1. Init => WaitingHaveNoResult
    BY WaitingInit
  <2>2. /\ RunnerInv /\ StoreInv /\ DeliveryInv /\ AttendanceInv
        /\ WaitingHaveNoResult /\ [Next]_vars
        => WaitingHaveNoResult'
    BY WaitingNext DEF AttendanceInv
  <2>3. AttendanceInv => OneWorkerPerJob
    BY DEF AttendanceInv
  <2> QED BY <2>1, <2>2, <2>3, RunnerInvariant, QueueUsesStore, StoreInvariant,
             AttendanceInvariant, ViewInvariant, DeliveryInvariant, PTL
          DEF Spec
<1>2. ASSUME NEW j \in Jobs
      PROVE  Spec => [](Queued(j) /\ job[j].state \notin {"queued", "absent"}
                        => [](job[j].state \notin Successes))
  <2>1. /\ DeliveryInv /\ RunnerInv /\ OneWorkerPerJob /\ WaitingHaveNoResult
        /\ Queued(j) /\ job[j].state \notin {"queued", "absent"}
        => Resumed(j)
    BY <1>2, BackInTheQueue
  <2>2. /\ RunnerInv /\ StoreInv /\ ViewInv /\ [Next]_vars /\ Resumed(j)
        => Resumed(j)'
    BY <1>2, ResumedNext
  <2>3. Resumed(j) => job[j].state \notin Successes
    BY DEF Resumed
  <2> QED BY <1>1, <2>1, <2>2, <2>3, PTL DEF Spec
<1> QED BY <1>2 DEF ResumedJobsOnlyFail, Successes

-----------------------------------------------------------------------------
(* The queue implements the life cycle of JobLifecycle.                    *)

\* The two specifications share the graph.
LEMMA SameGraph ==
  /\ Lifecycle!LiveStates = LiveStates
  /\ Lifecycle!States = States
  /\ Lifecycle!AllowedNext = AllowedNext
<1>1. /\ Lifecycle!LiveStates = LiveStates
      /\ Lifecycle!TerminalStates = TerminalStates
  BY DEF Lifecycle!LiveStates, LiveStates, Lifecycle!TerminalStates,
         TerminalStates
<1>2. Lifecycle!States = States
  BY <1>1 DEF Lifecycle!States, States
<1> QED BY <1>1, <1>2 DEF Lifecycle!AllowedNext, AllowedNext

\* A step that changes no job is no step of the life cycle.
LEMMA UnchangedJobsStutter ==
  ASSUME \A i \in Jobs : /\ job'[i].state = job[i].state
                         /\ job'[i].fingerprint = job[i].fingerprint
                         /\ job'[i].subscribers = job[i].subscribers
  PROVE  UNCHANGED Lifecycle!vars
BY DEF Lifecycle!vars

LEMMA JoinRefines ==
  ASSUME StoreInv, NEW f \in Fingerprints, NEW k \in Subscribers, Join(f, k)
  PROVE  Lifecycle!Next
<1> PICK j : j = coalesce[f].job
  OBVIOUS
<1>1. /\ j \in Jobs /\ job[j].state \in LiveStates
      /\ job[j] \in JobRecord /\ job \in [Jobs -> JobRecord]
      /\ job' = [job EXCEPT ![j] = JoinedBy(j, k)]
  BY DEF Join, Joinable, Live, StoreInv, StoreTypeOK
<1>2. /\ job'[j].state = job[j].state
      /\ job'[j].fingerprint = job[j].fingerprint
      /\ job'[j].subscribers = job[j].subscribers \cup {k}
      /\ \A i \in Jobs : i # j => job'[i] = job[i]
  BY <1>1 DEF JoinedBy, JobRecord
<1>3. Lifecycle!Join(j, k)
  BY <1>1, <1>2, SameGraph DEF Lifecycle!Join, Lifecycle!IsLive
<1> QED BY <1>1, <1>3 DEF Lifecycle!Next

LEMMA CreateRefines ==
  ASSUME StoreInv, lateLeaves = {}, NEW f \in Fingerprints,
         NEW k \in Subscribers, NEW j \in Jobs, Create(f, k, j)
  PROVE  Lifecycle!Next
<1>1. job \in [Jobs -> JobRecord] /\ job[j].state = "absent"
  BY DEF Create, StoreInv, StoreTypeOK, KeysWellFormed, JobsWellFormed, Exists
<1>2. ASSUME NEW i \in Jobs, Live(i)
      PROVE  job[i].fingerprint # f
  BY <1>2 DEF Create, Joinable, StoreInv, CoalesceKeyGuardsJob
<1>3. /\ job'[j].state = "queued" /\ job'[j].fingerprint = f
      /\ job'[j].subscribers = {k}
      /\ \A i \in Jobs : i # j => job'[i] = job[i]
  BY <1>1 DEF Create
<1>4. Lifecycle!Submit(j, f, k)
  BY <1>1, <1>2, <1>3, SameGraph
     DEF Lifecycle!Submit, Lifecycle!IsLive, Live
<1> QED BY <1>4 DEF Lifecycle!Next

LEMMA UnsubscribeRefines ==
  ASSUME StoreInv, NEW j \in Jobs, NEW k \in Subscribers, Unsubscribe(j, k)
  PROVE  [Lifecycle!Next]_Lifecycle!vars
<1>1. job \in [Jobs -> JobRecord] /\ job[j] \in JobRecord
  BY DEF StoreInv, StoreTypeOK
<1>2. CASE k \notin job[j].subscribers
  BY <1>2, UnchangedJobsStutter DEF Unsubscribe
<1>3. CASE k \in job[j].subscribers
  <2>1. /\ job'[j] = LeftBy(j, k)
        /\ \A i \in Jobs : i # j => job'[i] = job[i]
    BY <1>1, <1>3 DEF Unsubscribe
  <2>2. /\ job'[j].subscribers = job[j].subscribers \ {k}
        /\ job'[j].fingerprint = job[j].fingerprint
        /\ job'[j].state = IF Cancels(j, k) THEN "cancelled" ELSE job[j].state
    BY <1>1, <2>1 DEF LeftBy, JobRecord
  <2>3. Cancels(j, k) <=> /\ job[j].state \in LiveStates
                          /\ job[j].subscribers = {k}
    BY <1>3 DEF Cancels, Live
  <2>4. Lifecycle!Leave(j, k)
    BY <1>3, <2>1, <2>2, <2>3, SameGraph
       DEF Lifecycle!Leave, Lifecycle!IsLive
  <2> QED BY <2>4 DEF Lifecycle!Next
<1> QED BY <1>2, <1>3

LEMMA WriteRefines ==
  ASSUME RunnerInv, StoreInv, ViewInv, NEW w \in Workers, NEW s,
         Transition(worker[w].job, s),
         \/ worker[w].pc = "write" /\ s = worker[w].to
         \/ worker[w].pc = "settle-write" /\ s = "failed"
  PROVE  Lifecycle!Next
<1>1. PICK j : j = worker[w].job
  OBVIOUS
<1>2. /\ j \in Jobs /\ Live(j)
      /\ s \in AllowedNext[job[j].state] \ {"cancelled"}
      /\ s \in States
      /\ job'[j] = MovedTo(j, s) /\ \A i \in Jobs : i # j => job'[i] = job[i]
  BY <1>1, WritesFollowGraph
<1>3. job[j] \in JobRecord
  BY <1>2 DEF StoreInv, StoreTypeOK
<1>4. /\ job'[j].state = s
      /\ job'[j].fingerprint = job[j].fingerprint
      /\ job'[j].subscribers = job[j].subscribers
  BY <1>2, <1>3 DEF MovedTo, JobRecord
<1>5. Lifecycle!Advance(j, s)
  BY <1>2, <1>4, SameGraph DEF Lifecycle!Advance, Lifecycle!IsLive, Live
<1> QED BY <1>2, <1>5, SameGraph DEF Lifecycle!Next

LEMMA TickRefines ==
  ASSUME StoreInv, Tick
  PROVE  Lifecycle!Next
<1> PICK gone : gone = {j \in Jobs : job[j].ttl <= 1}
  OBVIOUS
<1>1. ASSUME NEW i \in Jobs
      PROVE  /\ i \in gone => /\ job'[i].state = "absent"
                              /\ job'[i].fingerprint = Null
                              /\ job'[i].subscribers = {}
             /\ i \notin gone => /\ job'[i].state = job[i].state
                                 /\ job'[i].fingerprint = job[i].fingerprint
                                 /\ job'[i].subscribers = job[i].subscribers
  <2>1. job[i] \in JobRecord /\ job'[i] = AgedJob(job[i])
    BY DEF StoreInv, StoreTypeOK, Tick
  <2> QED BY <2>1, AgedJobFacts DEF AbsentJob
<1>2. gone \in SUBSET Jobs
  OBVIOUS
<1>3. Lifecycle!Expire(gone)
  BY <1>1, <1>2 DEF Lifecycle!Expire
<1> QED BY <1>2, <1>3 DEF Lifecycle!Next

LEMMA NextRefines ==
  ASSUME RunnerInv, StoreInv, ViewInv, lateLeaves = {}, [Next]_vars
  PROVE  [Lifecycle!Next]_Lifecycle!vars
<1>1. CASE UNCHANGED job
  BY <1>1, UnchangedJobsStutter
<1>2. ASSUME NEW f \in Fingerprints, NEW k \in Subscribers, CreateOrJoin(f, k)
      PROVE  [Lifecycle!Next]_Lifecycle!vars
  BY <1>1, <1>2, JoinRefines, CreateRefines DEF CreateOrJoin, RefuseFull
<1>3. CASE Client
  BY <1>2, <1>3, UnsubscribeRefines DEF Client
<1> QED BY <1>1, <1>3, TickRefines, WriteRefines, WhoMovesJobs DEF keyVars

LEMMA InitRefines == ASSUME Init PROVE Lifecycle!Init
BY DEF Init, StoreInit, AbsentJob, Lifecycle!Init

\* The queue keeps what it promises its clients: with one process, every
\* behaviour in which no subscriber leaves a live job late (store.go:352)
\* is a behaviour of the life cycle.
THEOREM QueueImplementsLifecycle ==
  ASSUME OneProcess
  PROVE  Spec /\ [](lateLeaves = {}) => ImplementsLifecycle
<1>1. Init => Lifecycle!Init
  BY InitRefines
<1>2. RunnerInv /\ StoreInv /\ ViewInv /\ lateLeaves = {} /\ [Next]_vars
      => [Lifecycle!Next]_Lifecycle!vars
  BY NextRefines
<1> QED BY <1>1, <1>2, RunnerInvariant, QueueUsesStore, StoreInvariant,
           ViewInvariant, PTL
        DEF Spec, ImplementsLifecycle, Lifecycle!Spec

\* A cancelled or finished job that is kept for one tick leaves no room for a
\* late departure: a live job's coalesce key has at least that tick to live.
LEMMA NobodyLeavesLate ==
  ASSUME TerminalTTL = 1
  PROVE  Spec => [](lateLeaves = {})
<1>1. ASSUME StoreInv, lateLeaves = {}, [StoreNext]_storeVars
      PROVE  lateLeaves' = {}
  <2>1. ASSUME NEW j \in Jobs, NEW k \in Subscribers, Unsubscribe(j, k)
        PROVE  UNCHANGED lateLeaves
    <3>1. Live(j) => /\ job[j].fingerprint \in Fingerprints
                     /\ job[j].ttl \in Nat /\ job[j].ttl > 0
                     /\ coalesce[job[j].fingerprint].ttl >= job[j].ttl
                     /\ coalesce[job[j].fingerprint].ttl \in Nat
      BY <1>1, StoreAssumption
         DEF StoreInv, StoreTypeOK, KeysWellFormed, JobsWellFormed,
             CoalesceKeyGuardsJob, Live, Exists, LiveStates, JobRecord, Pointer
    <3>2. ~(Live(j) /\ coalesce[job[j].fingerprint].ttl < TerminalTTL)
      BY <3>1
    <3> QED BY <2>1, <3>2 DEF Unsubscribe
  <2>2. CASE \E f \in Fingerprints, k \in Subscribers : CreateOrJoin(f, k)
    BY <1>1, <2>2 DEF CreateOrJoin, Join, Create, RefuseFull
  <2>3. CASE \E j \in Jobs, s \in ReportedStates : Transition(j, s)
    BY <1>1, <2>3 DEF Transition
  <2>4. CASE \E j \in Jobs : Claim(j) \/ Ack(j) \/ Pop(j) \/ Requeue(j)
    BY <1>1, <2>4 DEF Claim, Ack, Pop, Requeue, keyVars
  <2>5. CASE Tick \/ UNCHANGED storeVars
    BY <1>1, <2>5 DEF Tick, storeVars
  <2> QED BY <1>1, <2>1, <2>2, <2>3, <2>4, <2>5 DEF StoreNext
<1>2. StoreInit => lateLeaves = {}
  BY DEF StoreInit
<1>3. StoreInv /\ lateLeaves = {} /\ [StoreNext]_storeVars => (lateLeaves = {})'
  BY <1>1
<1>4. StoreSpec => [](lateLeaves = {})
  BY <1>2, <1>3, StoreInvariant, PTL DEF StoreSpec
<1> QED BY <1>4, QueueUsesStore, PTL

\* The same with nothing to assume of the behaviour, where the shorter expiry
\* time is one tick of the clock.
COROLLARY QueueImplementsLifecycleInOneTick ==
  ASSUME OneProcess, TerminalTTL = 1
  PROVE  Spec => ImplementsLifecycle
BY QueueImplementsLifecycle, NobodyLeavesLate, PTL
=============================================================================
