----------------------------- MODULE MCJobStore -----------------------------
(* The store with any caller, on small instances.                          *)
EXTENDS JobStore

\* Any caller may requeue any job, so the lists are bounded here: long enough
\* for a full queue, and states one entry longer are still checked.
ListBound == Len(queue) <= MaxQueued /\ Len(processing) <= 1
=============================================================================
