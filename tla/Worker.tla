------------------------------- MODULE Worker -------------------------------
(***************************************************************************)
(* One job's worker process and the process group of its payload: worker,  *)
(* execute and Drop for Running in executor.rs.  The worker starts with    *)
(* the job's lock, inherited from the daemon, and releases it by exiting.  *)
(* The payload's processes, the clock, the canceller and whoever signals   *)
(* or kills the worker are the environment.                                *)
(***************************************************************************)
EXTENDS FiniteSets

CONSTANTS
  Member,      \* processes of the payload group besides its leader
  TimeLimit,   \* whether the job has a --time-limit
  WorkerKills  \* whether the worker itself may be killed with SIGKILL

ASSUME WorkerAssumption == TimeLimit \in BOOLEAN /\ WorkerKills \in BOOLEAN

VARIABLES
  pc,           \* where the worker is; "exited" and "killed" hold no lock
  leader,       \* the payload's first process
  status,       \* how the leader ended
  group,        \* live members of its process group besides the leader
  doomed,       \* SIGKILL was sent to the group
  termination,  \* Option: why the worker sent SIGTERM
  graceOver,    \* one second has passed since SIGTERM
  overdue,      \* the time limit has passed since the payload started
  interrupted,  \* the worker received SIGTERM or SIGINT
  marker,       \* {id}.cancel exists
  outcome,      \* Option: what execute returned
  result        \* Option: {id}.result

payload == <<leader, status, group>>
signals == <<doomed, termination>>
clock == <<graceOver, overdue>>
requests == <<interrupted, marker>>
vars == <<pc, payload, signals, clock, requests, outcome, result>>

Final == {"COMPLETED", "FAILED", "CANCELLED", "TIMED_OUT"}

TypeOK ==
  /\ pc \in {"unborn", "boot", "check", "spawn", "wait", "look", "drop", "reap", "write", "done",
             "exited", "killed"}
  /\ leader \in {"none", "running", "zombie", "reaped"}
  /\ status \in {"unset", "success", "failure"}
  /\ group \subseteq Member
  /\ {doomed, graceOver, overdue, interrupted, marker} \subseteq BOOLEAN
  /\ termination \in SUBSET {"CANCELLED", "TIMED_OUT"}
  /\ outcome \in SUBSET Final /\ result \in SUBSET Final

Init ==
  /\ pc = "unborn"
  /\ leader = "none" /\ status = "unset" /\ group = {}
  /\ doomed = FALSE /\ termination = {}
  /\ graceOver = FALSE /\ overdue = FALSE
  /\ interrupted = FALSE /\ marker = FALSE
  /\ outcome = {} /\ result = {}

-----------------------------------------------------------------------------
(***************************************************************************)
(* The worker.                                                             *)
(***************************************************************************)
\* ProcessExecutor::start spawns the process.
Start ==
  /\ pc = "unborn" /\ pc' = "boot"
  /\ UNCHANGED <<payload, signals, clock, requests, outcome, result>>

Return(s) == pc' = "write" /\ outcome' = {s}

\* worker, and the checks of execute: ready, no readable description (an error that
\* leaves no result), or an account or command error that execute reports.
Boot ==
  /\ pc = "boot"
  /\ \/ pc' = "check" /\ UNCHANGED outcome
     \/ pc' = "exited" /\ UNCHANGED outcome
     \/ Return("FAILED")
  /\ UNCHANGED <<payload, signals, clock, requests, result>>

\* Mutant of Check: cancellation is only looked for while the payload runs.
Mut_CheckLater ==
  /\ pc = "check" /\ pc' = "spawn"
  /\ UNCHANGED <<payload, signals, clock, requests, outcome, result>>

\* "Cancellation may have arrived before this worker finished starting."
Check ==
  /\ pc = "check"
  /\ IF marker THEN Return("CANCELLED") ELSE pc' = "spawn" /\ UNCHANGED outcome
  /\ UNCHANGED <<payload, signals, clock, requests, result>>

Spawn ==
  /\ pc = "spawn"
  /\ \/ leader' = "running" /\ pc' = "wait" /\ UNCHANGED outcome
     \/ Return("FAILED") /\ UNCHANGED leader
  /\ UNCHANGED <<status, group, signals, clock, requests, result>>

\* try_wait of the loop: the leader is reaped, still runs, or cannot be waited for.
Wait ==
  /\ pc = "wait"
  /\ \/ leader = "zombie" /\ leader' = "reaped" /\ pc' = "drop" /\ UNCHANGED outcome
     \/ leader = "running" /\ pc' = "look" /\ UNCHANGED <<leader, outcome>>
     \/ pc' = "drop" /\ outcome' = {"FAILED"} /\ UNCHANGED leader
  /\ UNCHANGED <<status, group, signals, clock, requests, result>>

\* Mutant of Reason: a cancellation is recorded as a time-out.
Mut_ReasonSwapped == IF marker \/ overdue THEN {"TIMED_OUT"} ELSE {}

Reason ==
  IF marker \/ interrupted THEN {"CANCELLED"}
  ELSE IF overdue THEN {"TIMED_OUT"} ELSE {}

\* Mutant of Look: SIGKILL at once.
Mut_KillAtOnce ==
  /\ pc = "look" /\ pc' = "wait"
  /\ termination' = IF termination = {} THEN Reason ELSE termination
  /\ doomed' = (doomed \/ termination' # {})
  /\ UNCHANGED <<payload, clock, requests, outcome, result>>

\* Mutant of Look: SIGTERM only.
Mut_TermOnly ==
  /\ pc = "look" /\ pc' = "wait"
  /\ termination' = IF termination = {} THEN Reason ELSE termination
  /\ UNCHANGED <<payload, doomed, clock, requests, outcome, result>>

\* The rest of the loop: SIGTERM on the first reason, SIGKILL a second later.
Look ==
  /\ pc = "look" /\ pc' = "wait"
  /\ termination' = IF termination = {} THEN Reason ELSE termination
  /\ doomed' = (doomed \/ (termination # {} /\ graceOver))
  /\ UNCHANGED <<payload, clock, requests, outcome, result>>

\* Mutant of Drop: the leader's end is taken for the end of its group.
Mut_DropNoKill ==
  /\ pc = "drop" /\ pc' = "reap"
  /\ UNCHANGED <<payload, signals, clock, requests, outcome, result>>

\* drop(running), on the error path too: SIGKILL to whatever is left of the group.
Drop ==
  /\ pc = "drop" /\ pc' = "reap"
  /\ doomed' = TRUE
  /\ UNCHANGED <<payload, termination, clock, requests, outcome, result>>

Verdict ==
  IF outcome # {} THEN outcome
  ELSE IF termination # {} THEN termination
  ELSE IF status = "success" THEN {"COMPLETED"} ELSE {"FAILED"}

\* Mutant of Reap: only the leader is waited for.
Mut_ReapLeader ==
  /\ pc = "reap" /\ pc' = "write"
  /\ leader # "running"
  /\ leader' = "reaped"
  /\ outcome' = Verdict
  /\ UNCHANGED <<status, group, signals, clock, requests, result>>

\* wait for the leader, then waitpid(-pgid) until no child is left in the group.
Reap ==
  /\ pc = "reap" /\ pc' = "write"
  /\ leader # "running" /\ group = {}
  /\ leader' = "reaped"
  /\ outcome' = Verdict
  /\ UNCHANGED <<status, group, signals, clock, requests, result>>

\* Mutant of WriteResult: the result may still change after the lock is free.
Mut_WriteAfterExit ==
  /\ pc \in {"write", "exited"} /\ outcome # {} /\ pc' = IF pc = "write" THEN "done" ELSE pc
  /\ result' \in {outcome, {}}
  /\ UNCHANGED <<payload, signals, clock, requests, outcome>>

WriteResult ==
  /\ pc = "write" /\ pc' = "done"
  /\ result' \in {outcome, {}}   \* the write may fail
  /\ UNCHANGED <<payload, signals, clock, requests, outcome>>

Exit ==
  /\ pc = "done" /\ pc' = "exited"
  /\ UNCHANGED <<payload, signals, clock, requests, outcome, result>>

-----------------------------------------------------------------------------
(***************************************************************************)
(* The environment.                                                        *)
(***************************************************************************)
Fork(m) ==
  /\ leader = "running" \/ group # {}
  /\ ~doomed
  /\ group' = group \cup {m}
  /\ UNCHANGED <<pc, leader, status, signals, clock, requests, outcome, result>>

MemberEnds(m) ==
  /\ m \in group /\ group' = group \ {m}
  /\ UNCHANGED <<pc, leader, status, signals, clock, requests, outcome, result>>

LeaderEnds(s) ==
  /\ leader = "running" /\ leader' = "zombie"
  /\ status' = s
  /\ doomed => s = "failure"
  /\ UNCHANGED <<pc, group, signals, clock, requests, outcome, result>>

\* executor.cancel: the daemon only cancels jobs that it has started.
Cancel ==
  /\ pc # "unborn" /\ marker' = TRUE
  /\ UNCHANGED <<pc, payload, signals, clock, interrupted, outcome, result>>

\* A signal before install_signals has run kills the worker (KillWorker).
Interrupt ==
  /\ pc \notin {"unborn", "boot", "exited", "killed"} /\ interrupted' = TRUE
  /\ UNCHANGED <<pc, payload, signals, clock, marker, outcome, result>>

LimitPasses ==
  /\ TimeLimit /\ pc \in {"wait", "look"} /\ overdue' = TRUE
  /\ UNCHANGED <<pc, payload, signals, graceOver, requests, outcome, result>>

GracePasses ==
  /\ termination # {} /\ ~graceOver /\ graceOver' = TRUE
  /\ UNCHANGED <<pc, payload, signals, overdue, requests, outcome, result>>

\* The worker gets SIGKILL.  PR_SET_PDEATHSIG takes the leader with it, not the group.
KillWorker ==
  /\ WorkerKills /\ pc \notin {"unborn", "exited", "killed"}
  /\ pc' = "killed"
  /\ IF leader = "running" THEN leader' = "zombie" /\ status' = "failure"
                           ELSE UNCHANGED <<leader, status>>
  /\ UNCHANGED <<group, signals, clock, requests, outcome, result>>

-----------------------------------------------------------------------------
WorkerStep ==
  Boot \/ Check \/ Spawn \/ Wait \/ Look \/ Drop \/ Reap \/ WriteResult \/ Exit

Ends == (\E s \in {"success", "failure"} : LeaderEnds(s)) \/ \E m \in Member : MemberEnds(m)

Next ==
  \/ Start
  \/ WorkerStep
  \/ \E m \in Member : Fork(m)
  \/ Ends
  \/ Cancel \/ Interrupt \/ LimitPasses \/ GracePasses \/ KillWorker

Spec == Init /\ [][Next]_vars

\* The worker is scheduled, time passes, and a process that was sent SIGKILL dies.
\* The payload need not end by itself, and may ignore SIGTERM.
Fairness ==
  /\ WF_vars(WorkerStep) /\ WF_vars(GracePasses) /\ WF_vars(doomed /\ Ends)

FairSpec == Spec /\ Fairness

-----------------------------------------------------------------------------
Released == pc \in {"exited", "killed"}
Quiet == leader # "running" /\ group = {}

\* The result file and, after an orderly exit, the free lock mean that nothing of the
\* payload's group is left ("do not release allocation until the worker has finished
\* cleanup"), background children of a finished leader included.
QuietWhenReported == (result # {} \/ pc = "exited") => Quiet

\* The recorded state is one the job can have: cancelled and timed-out jobs were asked
\* to stop for that reason, and a completed one ended by itself with success.
OutcomeJustified ==
  /\ "CANCELLED" \in result => marker \/ interrupted
  /\ "TIMED_OUT" \in result => TimeLimit /\ overdue
  /\ "COMPLETED" \in result => status = "success" /\ termination = {}

\* "Cancellation first sends SIGTERM, then SIGKILL after one second": as long as the
\* leader runs, SIGKILL is sent only after the grace period or on an error path.
GraceFirst ==
  [][~doomed /\ doomed' /\ leader = "running" => graceOver \/ outcome = {"FAILED"}]_vars

\* A cancellation that arrives before its worker looks keeps the payload from ever
\* running.
MarkedNeverRuns == [](marker /\ pc \in {"boot", "check"} => [](leader = "none"))

\* A cancelled, interrupted or overdue job releases its lock, even when every process
\* of its group ignores SIGTERM and keeps forking.
StopEnds == (marker \/ interrupted \/ overdue) ~> Released

\* The leader's end is the job's end: children left in the background do not keep the
\* devices ("a parent exiting does not give its background children ownership").
LeaderEndEnds == leader = "zombie" ~> Released

\* The worker implements the contract the scheduler relies on.
Contract ==
  INSTANCE WorkerContract WITH
    Outcomes <- Final,
    worker <- IF pc = "unborn" THEN "none" ELSE IF Released THEN "gone" ELSE "live"
ImplementsContract == Contract!Spec
=============================================================================
