---------------------------- MODULE FollowProofs ----------------------------
(***************************************************************************)
(* xrun's result is complete, however far the payload is ahead of it and   *)
(* however many chunks a round prints.                                     *)
(***************************************************************************)
EXTENDS Follow, TLAPS

Over == {"ended", "expired"}

\* What the last Get said stays true; once it said that the job has ended nothing becomes due,
\* so an empty answer means that everything due is printed.
Settled ==
    /\ ended => job \in Over
    /\ ended /\ drained => due = 0 \/ removed
    /\ pc \notin {"drain", "decide"} /\ exit = "task" => ended /\ drained
    /\ exit = "task" => pc = "exited"

IndInv == TypeOK /\ Settled

LEMMA TypeInit == Init => TypeOK
<1>1. Init => FlagsOK
  BY Zenon DEF Init, FlagsOK
<1>2. Init => CountsOK
  BY FollowAssumption DEF Init, CountsOK
<1> QED
  BY <1>1, <1>2 DEF TypeOK

LEMMA FlagsStep == FlagsOK /\ [Next]_vars => FlagsOK'
<1> SUFFICES ASSUME FlagsOK, [Next]_vars PROVE FlagsOK'
  OBVIOUS
<1> USE DEF FlagsOK
<1>1. CASE Start
  BY <1>1, Zenon DEF Start, followVars
<1>2. CASE Write
  BY <1>2, Zenon DEF Write, followVars
<1>3. CASE WorkerEnds
  BY <1>3, Zenon DEF WorkerEnds, followVars
<1>4. CASE WorkerLost
  BY <1>4, Zenon DEF WorkerLost, followVars
<1>5. CASE Collect
  BY <1>5, Zenon DEF Collect, followVars
<1>6. CASE Down
  BY <1>6, Zenon DEF Down, followVars
<1>7. CASE Up
  BY <1>7, Zenon DEF Up, followVars
<1>8. CASE RemoveLog
  BY <1>8, Zenon DEF RemoveLog, followVars
<1>9. CASE Expire
  BY <1>9, Zenon DEF Expire, followVars
<1>10. CASE Interrupt
  BY <1>10, Zenon DEF Interrupt, followVars, jobVars
<1>11. CASE SkipCancel
  BY <1>11, Zenon DEF SkipCancel, jobVars
<1>12. CASE Cancel
  BY <1>12, Zenon DEF Cancel, Fail
<1>13. CASE Get
  BY <1>13, Zenon DEF Get, Fail, jobVars
<1>14. CASE PrintChunk
  BY <1>14, Zenon DEF PrintChunk, Fail
<1>15. CASE Enough
  BY <1>15, Zenon DEF Enough, jobVars
<1>16. CASE Decide
  BY <1>16, Zenon DEF Decide, jobVars
<1>17. CASE UNCHANGED vars
  BY <1>17, Zenon DEF vars, followVars, jobVars
<1> QED
  BY <1>1, <1>2, <1>3, <1>4, <1>5, <1>6, <1>7, <1>8, <1>9, <1>10, <1>11, <1>12, <1>13, <1>14, <1>15, <1>16, <1>17 DEF Next, Follow

LEMMA CountsStep == CountsOK /\ [Next]_vars => CountsOK'
<1> SUFFICES ASSUME CountsOK, [Next]_vars PROVE CountsOK'
  OBVIOUS
<1> USE FollowAssumption DEF CountsOK
<1>1. CASE Start
  BY <1>1 DEF Start, followVars
<1>2. CASE Write
  BY <1>2 DEF Write, followVars
<1>3. CASE WorkerEnds
  BY <1>3 DEF WorkerEnds, followVars
<1>4. CASE WorkerLost
  BY <1>4 DEF WorkerLost, followVars
<1>5. CASE Collect
  BY <1>5 DEF Collect, followVars
<1>6. CASE Down
  BY <1>6 DEF Down, followVars
<1>7. CASE Up
  BY <1>7 DEF Up, followVars
<1>8. CASE RemoveLog
  BY <1>8 DEF RemoveLog, followVars
<1>9. CASE Expire
  BY <1>9 DEF Expire, followVars
<1>10. CASE Interrupt
  BY <1>10 DEF Interrupt, followVars, jobVars
<1>11. CASE SkipCancel
  BY <1>11 DEF SkipCancel, jobVars
<1>12. CASE Cancel
  BY <1>12 DEF Cancel, Fail
<1>13. CASE Get
  BY <1>13 DEF Get, Fail, jobVars
<1>14. CASE PrintChunk
  BY <1>14 DEF PrintChunk, Fail
<1>15. CASE Enough
  BY <1>15 DEF Enough, jobVars
<1>16. CASE Decide
  BY <1>16 DEF Decide, jobVars
<1>17. CASE UNCHANGED vars
  BY <1>17 DEF vars, followVars, jobVars
<1> QED
  BY <1>1, <1>2, <1>3, <1>4, <1>5, <1>6, <1>7, <1>8, <1>9, <1>10, <1>11, <1>12, <1>13, <1>14, <1>15, <1>16, <1>17 DEF Next, Follow

LEMMA SettledStep == IndInv /\ [Next]_vars => Settled'
<1> SUFFICES ASSUME TypeOK, Settled, [Next]_vars PROVE Settled'
  BY DEF IndInv
<1> USE DEF TypeOK, FlagsOK, CountsOK, Settled, Over
<1>1. CASE Start
  BY <1>1 DEF Start, followVars
<1>2. CASE Write
  BY <1>2 DEF Write, followVars
<1>3. CASE WorkerEnds \/ WorkerLost
  BY <1>3 DEF WorkerEnds, WorkerLost, followVars
<1>4. CASE Collect \/ Down \/ Up
  BY <1>4 DEF Collect, Down, Up, followVars
<1>5. CASE RemoveLog \/ Expire
  BY <1>5 DEF RemoveLog, Expire, followVars
<1>6. CASE Interrupt
  BY <1>6 DEF Interrupt, followVars, jobVars
<1>7. CASE SkipCancel \/ Get \/ Enough \/ Decide
  BY <1>7 DEF SkipCancel, Get, Enough, Decide, Fail, jobVars
<1>8. CASE Cancel
  BY <1>8 DEF Cancel, Fail, Answered
<1>9. CASE PrintChunk
  BY <1>9 DEF PrintChunk, Fail
<1>10. CASE UNCHANGED vars
  BY <1>10 DEF vars, followVars, jobVars
<1> QED
  BY <1>1, <1>2, <1>3, <1>4, <1>5, <1>6, <1>7, <1>8, <1>9, <1>10 DEF Next, Follow

\* xrun returns the job's code only after everything the job wrote has been printed (follow,
\* cli.rs:494-538), for any bounds.
THEOREM ResultIsComplete == Spec => []ExitIsComplete
<1>1. Init => IndInv
  BY TypeInit DEF IndInv, Settled, Init
<1>2. IndInv /\ [Next]_vars => IndInv'
  BY FlagsStep, CountsStep, SettledStep DEF IndInv, TypeOK
<1>3. IndInv => ExitIsComplete
  BY DEF IndInv, TypeOK, CountsOK, Settled, ExitIsComplete, Over
<1> QED
  BY <1>1, <1>2, <1>3, PTL DEF Spec

=============================================================================
