---------------------------- MODULE WorkerProofs ----------------------------
(***************************************************************************)
(* The worker for a payload group of any size: nothing of it is left when  *)
(* its end is reported, the recorded state is one that happened, SIGKILL   *)
(* follows the grace period, and the worker implements WorkerContract.     *)
(***************************************************************************)
EXTENDS Worker, TLAPS

Early == {"unborn", "boot", "check", "spawn"}
Late == {"write", "done", "exited"}

\* No process before the spawn, none after the reaping; a result only then.
Stages ==
  /\ pc \in Early => leader = "none" /\ group = {} /\ termination = {}
  /\ pc \in Late => Quiet
  /\ result # {} => Quiet /\ pc \in {"done", "exited", "killed"}
  /\ pc \in Early \cup {"wait", "look"} => outcome = {}
  /\ pc \in {"write", "done"} => \E s \in Final : outcome = {s}
  /\ pc = "drop" => leader = "reaped" \/ outcome = {"FAILED"}
  /\ pc = "reap" => outcome \in {{}, {"FAILED"}}
  /\ pc = "drop" => outcome \in {{}, {"FAILED"}}

\* The same reasons are behind the signal, the verdict and the record.
Reasons ==
  /\ termination \in {{}, {"CANCELLED"}, {"TIMED_OUT"}}
  /\ "CANCELLED" \in termination \cup outcome => marker \/ interrupted
  /\ "TIMED_OUT" \in termination \cup outcome => overdue
  /\ overdue => TimeLimit
  /\ "COMPLETED" \in outcome =>
       status = "success" /\ termination = {} /\ leader # "running" /\ pc \notin {"drop", "reap"}
  /\ result \in {{}, outcome}

IndInv == TypeOK /\ Stages /\ Reasons

LEMMA TypeInit == Init => TypeOK
BY DEF Init, TypeOK, Final

LEMMA TypeStep == TypeOK /\ [Next]_vars => TypeOK'
<1> SUFFICES ASSUME TypeOK, [Next]_vars PROVE TypeOK'
  OBVIOUS
<1> USE DEF TypeOK, Final, payload, signals, clock, requests
<1>1. CASE Start
  BY <1>1 DEF Start
<1>2. CASE Boot
  BY <1>2 DEF Boot, Return
<1>3. CASE Check
  BY <1>3 DEF Check, Return
<1>4. CASE Spawn
  BY <1>4 DEF Spawn, Return
<1>5. CASE Wait
  BY <1>5 DEF Wait
<1>6. CASE Look
  BY <1>6 DEF Look, Reason
<1>7. CASE Drop
  BY <1>7 DEF Drop
<1>8. CASE Reap
  BY <1>8 DEF Reap, Verdict
<1>9. CASE WriteResult
  BY <1>9 DEF WriteResult
<1>10. CASE Exit
  BY <1>10 DEF Exit
<1>11. ASSUME NEW m \in Member, Fork(m) PROVE TypeOK'
  BY <1>11 DEF Fork
<1>12. ASSUME NEW m \in Member, MemberEnds(m) PROVE TypeOK'
  BY <1>12 DEF MemberEnds
<1>13. ASSUME NEW s \in {"success", "failure"}, LeaderEnds(s) PROVE TypeOK'
  BY <1>13 DEF LeaderEnds
<1>14. CASE Cancel
  BY <1>14 DEF Cancel
<1>15. CASE Interrupt
  BY <1>15 DEF Interrupt
<1>16. CASE LimitPasses
  BY <1>16 DEF LimitPasses
<1>17. CASE GracePasses
  BY <1>17 DEF GracePasses
<1>18. CASE KillWorker
  BY <1>18 DEF KillWorker
<1>19. CASE UNCHANGED vars
  BY <1>19 DEF vars
<1> QED
  BY <1>1, <1>2, <1>3, <1>4, <1>5, <1>6, <1>7, <1>8, <1>9, <1>10, <1>11, <1>12, <1>13, <1>14,
     <1>15, <1>16, <1>17, <1>18, <1>19 DEF Next, WorkerStep, Ends

LEMMA StagesStep == IndInv /\ [Next]_vars => Stages'
<1> SUFFICES ASSUME IndInv, [Next]_vars PROVE Stages'
  OBVIOUS
<1> USE DEF IndInv, Stages, Early, Late, Quiet, payload, signals, clock, requests
<1>1. CASE Start
  BY <1>1 DEF Start
<1>2. CASE Boot
  BY <1>2 DEF Boot, Return, Final
<1>3. CASE Check
  BY <1>3 DEF Check, Return, Final
<1>4. CASE Spawn
  BY <1>4 DEF Spawn, Return, Final
<1>5. CASE Wait
  BY <1>5 DEF Wait
<1>6. CASE Look
  BY <1>6 DEF Look
<1>7. CASE Drop
  BY <1>7 DEF Drop
<1>8. CASE Reap
  BY <1>8 DEF Reap, Verdict, Reasons, Final
<1>9. CASE WriteResult
  BY <1>9 DEF WriteResult
<1>10. CASE Exit
  BY <1>10 DEF Exit
<1>11. ASSUME NEW m \in Member, Fork(m) PROVE Stages'
  BY <1>11 DEF Fork
<1>12. ASSUME NEW m \in Member, MemberEnds(m) PROVE Stages'
  BY <1>12 DEF MemberEnds
<1>13. ASSUME NEW s \in {"success", "failure"}, LeaderEnds(s) PROVE Stages'
  BY <1>13 DEF LeaderEnds
<1>14. CASE Cancel
  BY <1>14 DEF Cancel
<1>15. CASE Interrupt
  BY <1>15 DEF Interrupt
<1>16. CASE LimitPasses
  BY <1>16 DEF LimitPasses
<1>17. CASE GracePasses
  BY <1>17 DEF GracePasses
<1>18. CASE KillWorker
  BY <1>18 DEF KillWorker
<1>19. CASE UNCHANGED vars
  BY <1>19 DEF vars
<1> QED
  BY <1>1, <1>2, <1>3, <1>4, <1>5, <1>6, <1>7, <1>8, <1>9, <1>10, <1>11, <1>12, <1>13, <1>14,
     <1>15, <1>16, <1>17, <1>18, <1>19 DEF Next, WorkerStep, Ends

LEMMA ReasonsStep == IndInv /\ [Next]_vars => Reasons'
<1> SUFFICES ASSUME IndInv, [Next]_vars PROVE Reasons'
  OBVIOUS
<1> USE DEF IndInv, Reasons, payload, signals, clock, requests
<1>1. CASE Start
  BY <1>1 DEF Start
<1>2. CASE Boot
  BY <1>2 DEF Boot, Return, Stages, Early
<1>3. CASE Check
  BY <1>3 DEF Check, Return, Stages, Early
<1>4. CASE Spawn
  BY <1>4 DEF Spawn, Return, Stages, Early
<1>5. CASE Wait
  BY <1>5 DEF Wait, Stages
<1>6. CASE Look
  BY <1>6 DEF Look, Reason, Stages
<1>7. CASE Drop
  BY <1>7 DEF Drop
<1>8. CASE Reap
  BY <1>8 DEF Reap, Verdict, Stages
<1>9. CASE WriteResult
  BY <1>9 DEF WriteResult
<1>10. CASE Exit
  BY <1>10 DEF Exit
<1>11. ASSUME NEW m \in Member, Fork(m) PROVE Reasons'
  BY <1>11 DEF Fork
<1>12. ASSUME NEW m \in Member, MemberEnds(m) PROVE Reasons'
  BY <1>12 DEF MemberEnds
<1>13. ASSUME NEW s \in {"success", "failure"}, LeaderEnds(s) PROVE Reasons'
  BY <1>13 DEF LeaderEnds
<1>14. CASE Cancel
  BY <1>14 DEF Cancel
<1>15. CASE Interrupt
  BY <1>15 DEF Interrupt
<1>16. CASE LimitPasses
  BY <1>16 DEF LimitPasses
<1>17. CASE GracePasses
  BY <1>17 DEF GracePasses
<1>18. CASE KillWorker
  BY <1>18 DEF KillWorker
<1>19. CASE UNCHANGED vars
  BY <1>19 DEF vars
<1> QED
  BY <1>1, <1>2, <1>3, <1>4, <1>5, <1>6, <1>7, <1>8, <1>9, <1>10, <1>11, <1>12, <1>13, <1>14,
     <1>15, <1>16, <1>17, <1>18, <1>19 DEF Next, WorkerStep, Ends

\* Every variable keeps its type, stages and reasons agree, whatever the payload's processes do
\* and wherever the worker of executor.rs:108-270 is interrupted or killed.
THEOREM Invariance == Spec => []IndInv
<1>1. Init => IndInv
  BY TypeInit DEF Init, IndInv, Stages, Reasons, Early, Late
<1>2. IndInv /\ [Next]_vars => IndInv'
  BY TypeStep, StagesStep, ReasonsStep DEF IndInv
<1> QED
  BY <1>1, <1>2, PTL DEF Spec

\* When the result file or a free lock after an orderly exit reports a job's end (executor.rs:77),
\* no process of its group is left, for a group of any size.
THEOREM ReportedIsQuiet == Spec => []QuietWhenReported
<1>1. IndInv => QuietWhenReported
  BY DEF IndInv, Stages, Late, QuietWhenReported
<1> QED
  BY <1>1, Invariance, PTL

\* The recorded state (executor.rs:252-258) is one that happened.
THEOREM RecordedIsJustified == Spec => []OutcomeJustified
<1>1. IndInv => OutcomeJustified
  BY DEF IndInv, Reasons, OutcomeJustified
<1> QED
  BY <1>1, Invariance, PTL

\* SIGKILL reaches a running payload only after the grace period of executor.rs:245, or when the
\* worker cannot wait for it.
THEOREM GraceComesFirst == Spec => GraceFirst
<1> DEFINE G == ~doomed /\ doomed' /\ leader = "running" => graceOver \/ outcome = {"FAILED"}
<1>1. IndInv /\ [Next]_vars => G
  <2> SUFFICES ASSUME IndInv, [Next]_vars, ~doomed, doomed', leader = "running"
               PROVE  graceOver \/ outcome = {"FAILED"}
    OBVIOUS
  <2>1. CASE Look
    BY <2>1 DEF Look
  <2>2. CASE Drop
    BY <2>2 DEF Drop, IndInv, Stages
  <2>3. CASE ~Look /\ ~Drop
    BY <2>3 DEF vars, payload, signals, clock, requests, Next, WorkerStep, Ends, Start, Boot,
      Check, Spawn, Wait, Reap, WriteResult, Exit, Fork, MemberEnds, LeaderEnds, Cancel,
      Interrupt, LimitPasses, GracePasses, KillWorker
  <2> QED
    BY <2>1, <2>2, <2>3
<1>2. IndInv /\ [Next]_vars => [G]_vars
  BY <1>1
<1> QED
  BY <1>2, Invariance, PTL DEF Spec, GraceFirst

\* A worker that sees the marker before its spawn (executor.rs:210) never runs the payload,
\* nor does one whose job is cancelled before it looks.
THEOREM MarkedWorkersIdle == Spec => MarkedNeverRuns
<1> DEFINE P == marker /\ pc \in {"boot", "check"}
           Stopped == marker /\ leader = "none" /\ pc \in {"boot", "check"} \cup Late \cup {"killed"}
<1>1. IndInv /\ P => Stopped
  BY DEF IndInv, Stages, Early
<1>2. Stopped /\ [Next]_vars => Stopped'
  BY DEF vars, payload, signals, clock, requests, Next, WorkerStep, Ends, Start, Boot, Check,
    Spawn, Wait, Look, Drop, Reap, WriteResult, Exit, Fork, MemberEnds, LeaderEnds, Cancel,
    Interrupt, LimitPasses, GracePasses, KillWorker, Return, Late
<1>3. Stopped => leader = "none"
  OBVIOUS
<1> HIDE DEF Stopped
<1> QED
  BY <1>1, <1>2, <1>3, Invariance, PTL DEF Spec, MarkedNeverRuns

\* The worker keeps its side of the contract that Scheduler relies on: at most one result, written
\* while it holds the lock (executor.rs:124), and a lock that is never taken again.
THEOREM WorkerKeepsContract == Spec => ImplementsContract
<1> DEFINE w == IF pc = "unborn" THEN "none" ELSE IF Released THEN "gone" ELSE "live"
<1>1. Init => Contract!Init
  BY DEF Init, Contract!Init
<1>2. IndInv /\ [Next]_vars => [Contract!Next]_(Contract!contract)
  <2> SUFFICES ASSUME IndInv, [Next]_vars
               PROVE  Contract!Next \/ (UNCHANGED w /\ UNCHANGED result)
    BY DEF Contract!contract
  <2> USE DEF Released
  <2>1. CASE Start
    BY <2>1 DEF Start, Contract!Next, Contract!Start
  <2>2. CASE Boot
    BY <2>2 DEF Boot, Return, Contract!Next, Contract!Exit
  <2>3. CASE WriteResult
    <3>1. result = {} /\ \E s \in Final : outcome = {s}
      BY <2>3 DEF WriteResult, IndInv, Stages
    <3> QED
      BY <2>3, <3>1 DEF WriteResult, Contract!Next, Contract!Report
  <2>4. CASE Exit
    BY <2>4 DEF Exit, Contract!Next, Contract!Exit
  <2>5. CASE KillWorker
    BY <2>5 DEF KillWorker, Contract!Next, Contract!Exit
  <2>6. CASE ~(Start \/ Boot \/ WriteResult \/ Exit \/ KillWorker)
    BY <2>6 DEF vars, payload, signals, clock, requests, Next, WorkerStep, Ends, Check, Spawn,
      Wait, Look, Drop, Reap, Fork, MemberEnds, LeaderEnds, Cancel, Interrupt, LimitPasses,
      GracePasses, Return
  <2> QED
    BY <2>1, <2>2, <2>3, <2>4, <2>5, <2>6
<1> QED
  BY <1>1, <1>2, Invariance, PTL DEF Spec, ImplementsContract, Contract!Spec
=============================================================================
