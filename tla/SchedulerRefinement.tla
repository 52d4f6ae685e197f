------------------------ MODULE SchedulerRefinement -------------------------
(***************************************************************************)
(* The scheduler implements the life of every single job, read off         *)
(* state.json and the workers it starts, and keeps its side of the         *)
(* contract with every worker.  Init /\ [][\A i : [Next(i)]_v(i)]_vars is    *)
(* \A i : Spec(i), written as one formula.                                 *)
(***************************************************************************)
EXTENDS Scheduler

Lifecycle(i) ==
  INSTANCE JobLifecycle WITH
    Final <- Terminal,
    state <- disk.jobs[i].state,
    devices <- disk.jobs[i].devices,
    accepted <- acked[i] # {},
    runs <- launched[i]

\* Every job lives the life its owner was promised, across crashes at any point and
\* daemons that adopt each other's jobs.  (With SaveFails it does not: see README.)
ImplementsLifecycle ==
  /\ \A i \in Id : Lifecycle(i)!Init
  /\ [][\A i \in Id : [Lifecycle(i)!Next]_(Lifecycle(i)!job)]_vars

Contract(i) ==
  INSTANCE WorkerContract WITH
    Outcomes <- Terminal,
    worker <- worker[i],
    result <- result[i]

\* The scheduler starts at most one worker per job and deletes a result only after
\* the worker has released its lock.
KeepsContract ==
  /\ \A i \in Id : Contract(i)!Init
  /\ [][\A i \in Id : [Contract(i)!Next]_(Contract(i)!contract)]_vars
=============================================================================
