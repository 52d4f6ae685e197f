------------------------------ MODULE Clients -------------------------------
(***************************************************************************)
(* The scheduler observed by its clients: xqueue, xrun and xcancel show a  *)
(* job's final state, and people act on what they were shown.              *)
(***************************************************************************)
EXTENDS Scheduler

VARIABLE shown   \* observation: the final states clients were shown for a job

clientVars == <<vars, shown>>

ClientTypeOK == TypeOK /\ shown \in [Id -> SUBSET Terminal]

\* Request::Get, or the line of Request::Queue, for a finished job.
Get(i) ==
  /\ daemon = "serve" /\ mem.jobs[i].state \in Terminal
  /\ shown' = [shown EXCEPT ![i] = @ \cup {mem.jobs[i].state}]
  /\ UNCHANGED vars

ClientInit == Init /\ shown = [i \in Id |-> {}]
ClientNext ==
  \/ Next /\ UNCHANGED shown
  \/ \E i \in Id : Get(i)

ClientSpec == ClientInit /\ [][ClientNext]_clientVars
FairClientSpec == ClientSpec /\ Fairness

-----------------------------------------------------------------------------
\* Clients are never shown two different final states of one job.
OneFinalState == \A i \in Id : Cardinality(shown[i]) <= 1

\* Once a client was shown that a job is over, cancelled before it started for
\* instance, no daemon starts it.
NeverStartsOnceShown ==
  [][\A i \in Id : launched'[i] # launched[i] => shown[i] = {}]_clientVars
=============================================================================
