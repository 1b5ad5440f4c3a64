---------------------------- MODULE JobLifecycle ----------------------------
(***************************************************************************)
(* What the job queue promises, with no queue in it: requests of the same  *)
(* fingerprint share one live job, a job moves along the transition graph  *)
(* to one final state, it is cancelled when its last subscriber leaves it, *)
(* and it is forgotten when it expires.                                    *)
(***************************************************************************)
EXTENDS JobStates

CONSTANTS Jobs, Fingerprints, Subscribers, Null

VARIABLES state, fingerprint, subscribers

vars == <<state, fingerprint, subscribers>>

IsLive(j) == state[j] \in LiveStates

Init ==
  /\ state = [j \in Jobs |-> "absent"]
  /\ fingerprint = [j \in Jobs |-> Null]
  /\ subscribers = [j \in Jobs |-> {}]

\* The first request for a fingerprint with no live job starts one.
Submit(j, f, k) ==
  /\ state[j] = "absent"
  /\ \A i \in Jobs : IsLive(i) => fingerprint[i] # f
  /\ state' = [state EXCEPT ![j] = "queued"]
  /\ fingerprint' = [fingerprint EXCEPT ![j] = f]
  /\ subscribers' = [subscribers EXCEPT ![j] = {k}]

\* Any further request joins it.
Join(j, k) ==
  /\ IsLive(j)
  /\ subscribers' = [subscribers EXCEPT ![j] = @ \cup {k}]
  /\ UNCHANGED <<state, fingerprint>>

\* A subscriber leaves; the last one to leave a live job cancels it.
Leave(j, k) ==
  /\ k \in subscribers[j]
  /\ subscribers' = [subscribers EXCEPT ![j] = @ \ {k}]
  /\ state' = [state EXCEPT ![j] =
                 IF IsLive(j) /\ subscribers[j] = {k} THEN "cancelled" ELSE @]
  /\ UNCHANGED fingerprint

\* A worker moves the job along the graph; only subscribers cancel it.
Advance(j, s) ==
  /\ IsLive(j)
  /\ s \in AllowedNext[state[j]] \ {"cancelled"}
  /\ state' = [state EXCEPT ![j] = s]
  /\ UNCHANGED <<fingerprint, subscribers>>

\* The jobs whose time has run out are forgotten.
Expire(gone) ==
  /\ state' = [j \in Jobs |-> IF j \in gone THEN "absent" ELSE state[j]]
  /\ fingerprint' = [j \in Jobs |-> IF j \in gone THEN Null ELSE fingerprint[j]]
  /\ subscribers' = [j \in Jobs |-> IF j \in gone THEN {} ELSE subscribers[j]]

Next ==
  \/ \E j \in Jobs, k \in Subscribers : Join(j, k) \/ Leave(j, k)
  \/ \E j \in Jobs, k \in Subscribers, f \in Fingerprints : Submit(j, f, k)
  \/ \E j \in Jobs, s \in States : Advance(j, s)
  \/ \E gone \in SUBSET Jobs : Expire(gone)

Spec == Init /\ [][Next]_vars
=============================================================================
