---------------------------- MODULE JobLifecycle ----------------------------
(***************************************************************************)
(* What xlurm promises the owner of one job, whatever daemons come and go: *)
(* an accepted job is queued until it is given devices or cancelled, runs  *)
(* at most once and only on the devices it was given, ends in one final    *)
(* state, and is then remembered until it expires.                         *)
(***************************************************************************)
EXTENDS Naturals

CONSTANTS Device, Final

VARIABLES
  state,     \* "ABSENT", "PENDING", "RUNNING" or a final state
  devices,   \* what the job was given
  accepted,  \* its owner was told the ID
  runs       \* how often it was started

job == <<state, devices, accepted, runs>>

Init == state = "ABSENT" /\ devices = {} /\ accepted = FALSE /\ runs = 0

\* The record is made and its owner told, once for an ID.
Accept ==
  /\ state = "ABSENT" /\ ~accepted
  /\ state' = "PENDING" /\ devices' = {} /\ accepted' = TRUE
  /\ UNCHANGED runs

Grant ==
  /\ state = "PENDING" /\ runs = 0
  /\ state' = "RUNNING" /\ devices' \in SUBSET Device
  /\ UNCHANGED <<accepted, runs>>

Run ==
  /\ state = "RUNNING" /\ runs = 0
  /\ runs' = 1 /\ UNCHANGED <<state, devices, accepted>>

End ==
  /\ \/ state = "RUNNING" /\ state' \in Final
     \/ state = "PENDING" /\ state' = "CANCELLED"
  /\ UNCHANGED <<devices, accepted, runs>>

Expire == state \in Final /\ state' = "ABSENT" /\ devices' = {} /\ UNCHANGED <<accepted, runs>>

Next == Accept \/ Grant \/ Run \/ End \/ Expire

Spec == Init /\ [][Next]_job
=============================================================================
