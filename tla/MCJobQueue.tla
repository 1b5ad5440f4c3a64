----------------------------- MODULE MCJobQueue -----------------------------
(* The job queue on small instances: the constants that are functions.     *)
EXTENDS JobQueue, TLC

Executor == INSTANCE Executors

ResolutionProgram == Executor!ResolutionProgram
DevelopmentProgram == Executor!DevelopmentProgram
LegacyProgram == Executor!LegacyProgram
EarlyReturnProgram == Executor!EarlyReturnProgram

CONSTANTS r1, r2, w1, w2

\* The deployment: one process with two goroutines.
OneRunner == [w \in {w1, w2} |-> r1]

\* One process with one goroutine.
OneWorker == [w \in {w1} |-> r1]

\* Two processes over one Redis, one goroutine each.
TwoRunners == [w \in {w1, w2} |-> IF w = w1 THEN r1 ELSE r2]

\* Jobs, fingerprints and idempotency keys are interchangeable.
Symmetry ==
  Permutations(Jobs) \cup Permutations(Fingerprints)
  \cup Permutations(Subscribers)
=============================================================================
