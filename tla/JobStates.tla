----------------------------- MODULE JobStates -----------------------------
(***************************************************************************)
(* The states of a job and the transition graph of packages/jobqueue.      *)
(* The operators are constant: the store, the executors and the abstract   *)
(* life cycle share them.                                                  *)
(***************************************************************************)

\* State.Terminal: a job in one of these states is finished.
TerminalStates == {"verified", "partial", "blocked", "failed", "cancelled"}

\* The non-terminal states; a job starts in "queued".
LiveStates == {"queued", "checking-cache", "searching",
               "checking-preferred-source", "checking-backup-source",
               "browser-fallback"}

\* State.Valid
States == LiveStates \cup TerminalStates

\* allowedTransition: the states Store.Transition accepts from each state.
AllowedNext ==
  [s \in States |->
     CASE s = "queued" ->
            {"checking-cache", "searching", "failed", "cancelled"}
       [] s = "checking-cache" ->
            {"searching", "checking-preferred-source", "partial", "failed",
             "cancelled"}
       [] s = "searching" ->
            {"checking-preferred-source", "checking-backup-source",
             "browser-fallback", "partial", "failed", "cancelled"}
       [] s = "checking-preferred-source" ->
            {"checking-backup-source", "browser-fallback"} \cup TerminalStates
       [] s = "checking-backup-source" ->
            {"browser-fallback"} \cup TerminalStates
       [] s = "browser-fallback" -> TerminalStates
       [] OTHER -> {}]
=============================================================================
