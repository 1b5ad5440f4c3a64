----------------------------- MODULE Executors -----------------------------
(***************************************************************************)
(* The executors of apps/worker, each as the steps it may take next by the *)
(* state it last reported.  Which of them it takes depends on the payload, *)
(* the catalog and the sources it contacts, and is left open here.         *)
(***************************************************************************)
EXTENDS JobStates

ProgramStages == {"start"} \cup (LiveStates \ {"queued"})

Report(to) == [check |-> FALSE, to |-> to]

CheckThenReport(to) == [check |-> TRUE, to |-> to]

\* An unsupported kind of job, or an executor that is not configured.
Refuse == [check |-> FALSE, to |-> "error"]

Return == [check |-> FALSE, to |-> "return"]

\* resolution.Executor.Execute.  A second source is announced as the backup
\* source; every source is preceded by a look at the cancellation flag.
ResolutionProgram ==
  [stage \in ProgramStages |->
     CASE stage = "start" ->
            {CheckThenReport("checking-cache"), Report("failed"), Refuse}
       [] stage = "checking-cache" ->
            {CheckThenReport("checking-preferred-source"), Report("failed")}
       [] stage = "checking-preferred-source" ->
            {CheckThenReport("checking-backup-source")}
            \cup {CheckThenReport(s) : s \in {"verified", "failed", "blocked"}}
       [] stage = "checking-backup-source" ->
            UNION {{Report(s), CheckThenReport(s)} :
                     s \in {"verified", "failed", "blocked"}}
       [] OTHER -> {}]

\* LegacyResolver.Execute: one call to the legacy engine.
LegacyProgram ==
  [stage \in ProgramStages |->
     CASE stage = "start" ->
            {CheckThenReport("checking-cache"), Report("failed"), Refuse}
       [] stage = "checking-cache" ->
            {CheckThenReport("checking-preferred-source")}
       [] stage = "checking-preferred-source" ->
            {Report("failed"), Report("verified")}
       [] OTHER -> {}]

\* jobs.DevelopmentExecutor.Execute: no source is contacted.
DevelopmentProgram ==
  [stage \in ProgramStages |->
     CASE stage = "start" -> {Report("checking-cache"), Refuse}
       [] stage = "checking-cache" ->
            {CheckThenReport("checking-preferred-source")}
       [] stage = "checking-preferred-source" -> {CheckThenReport("partial")}
       [] OTHER -> {}]

\* An executor that may return at any time with the job unfinished: the
\* Executor interface does not forbid it and process provides for it.
EarlyReturnProgram ==
  [stage \in ProgramStages |->
     CASE stage = "start" -> {Report("checking-cache"), Return}
       [] stage = "checking-cache" -> {Report("partial"), Return}
       [] OTHER -> {}]
=============================================================================
