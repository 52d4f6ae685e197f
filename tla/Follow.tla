------------------------------- MODULE Follow -------------------------------
(***************************************************************************)
(* xrun in the foreground: follow and print_log_chunk of cli.rs against    *)
(* the daemon's answers to Get, Log and Cancel.                            *)
(*                                                                         *)
(* The job's own life is that of JobLifecycle, its worker keeps            *)
(* WorkerContract: its result counts only when the worker is gone, with    *)
(* the processes of its group.  The log is told apart only by how much of  *)
(* it xrun has not printed, in chunks of one answer (64 KiB at most).      *)
(***************************************************************************)
EXTENDS Naturals

CONSTANTS
    Ahead,      \* chunks that a payload can be ahead of xrun: a bound of the model
    Drain       \* chunks that one round of follow prints at most (16)

ASSUME FollowAssumption == Ahead \in Nat \ {0} /\ Drain \in Nat \ {0}

VARIABLES
    up,         \* whether a daemon answers
    job,        \* what it answers: "pending", "running", "ended", or "expired" (no such job)
    alive,      \* the worker holds its lock
    writing,    \* processes of the job can write to the log
    marked,     \* the cancel file is there
    behind,     \* chunks in the log that xrun has not printed
    due,        \* how many of these were written before the job ended
    removed,    \* the log file was deleted
    signal,     \* INTERRUPTED of xrun
    pc, cancelled, ended, reads, drained,   \* follow: ended is job.result of the last Get
    exit        \* "none", "task" (the exit code of the job) or "error"

jobVars == <<up, job, alive, writing, marked, behind, due, removed>>
followVars == <<pc, cancelled, ended, reads, drained, exit>>
vars == <<jobVars, signal, followVars>>

Init ==
    /\ up = TRUE /\ job = "pending" /\ alive = FALSE /\ writing = FALSE /\ marked = FALSE
    /\ behind = 0 /\ due = 0 /\ removed = FALSE
    /\ signal = FALSE
    /\ pc = "signal" /\ cancelled = FALSE /\ ended = FALSE /\ reads = 0 /\ drained = FALSE
    /\ exit = "none"

-----------------------------------------------------------------------------
(* The job, its worker and the daemon *)

Start ==
    /\ up /\ job = "pending"
    /\ job' = "running" /\ alive' = TRUE /\ writing' = TRUE
    /\ UNCHANGED <<up, marked, behind, due, removed, signal, followVars>>

Write ==
    /\ writing /\ behind < Ahead
    /\ behind' = behind + 1
    /\ due' = IF job = "running" THEN due + 1 ELSE due
    /\ UNCHANGED <<up, job, alive, writing, marked, removed, signal, followVars>>

\* The worker ends and has cleaned its group up.
WorkerEnds ==
    /\ alive /\ alive' = FALSE /\ writing' = FALSE
    /\ UNCHANGED <<up, job, marked, behind, due, removed, signal, followVars>>

\* The worker is killed, or a process has left its group: the log may still grow.
WorkerLost ==
    /\ alive /\ alive' = FALSE
    /\ UNCHANGED <<up, job, writing, marked, behind, due, removed, signal, followVars>>

Collect ==
    /\ up /\ job = "running" /\ ~alive
    /\ job' = "ended"
    /\ UNCHANGED <<up, alive, writing, marked, behind, due, removed, signal, followVars>>

\* The daemon stops or dies; the next one starts.
Down == up /\ up' = FALSE /\ UNCHANGED <<job, alive, writing, marked, behind, due, removed, signal, followVars>>
Up == ~up /\ up' = TRUE /\ UNCHANGED <<job, alive, writing, marked, behind, due, removed, signal, followVars>>

\* cleanup of an old job, or clean between two daemons.
RemoveLog ==
    /\ job = "ended" /\ removed' = TRUE
    /\ UNCHANGED <<up, job, alive, writing, marked, behind, due, signal, followVars>>

\* cleanup forgets the job after its files.
Expire ==
    /\ up /\ job = "ended" /\ removed
    /\ job' = "expired"
    /\ UNCHANGED <<up, alive, writing, marked, behind, due, removed, signal, followVars>>

-----------------------------------------------------------------------------
(* xrun *)

Interrupt == ~signal /\ signal' = TRUE /\ UNCHANGED <<jobVars, followVars>>

Answered == up /\ job # "expired"

\* A request without an answer, or with an error for an answer, ends xrun.
Fail ==
    /\ pc' = "exited" /\ exit' = "error"
    /\ UNCHANGED <<cancelled, ended, reads, drained>>

SkipCancel ==
    /\ pc = "signal" /\ (~signal \/ cancelled) /\ pc' = "get"
    /\ UNCHANGED <<jobVars, signal, cancelled, ended, reads, drained, exit>>

\* The Cancel of Scheduler.  Its save may fail, when the job is cancelled in memory only, and so
\* may the cancel file of a running job.
Cancel ==
    /\ pc = "signal" /\ signal /\ ~cancelled
    /\ \/ /\ Answered
          /\ job' = IF job = "pending" THEN "ended" ELSE job
          /\ \/ /\ marked' = (marked \/ job = "running")
                /\ cancelled' = TRUE /\ pc' = "get"
                /\ UNCHANGED <<ended, reads, drained, exit>>
             \/ Fail /\ UNCHANGED marked
       \/ ~Answered /\ Fail /\ UNCHANGED <<job, marked>>
    /\ UNCHANGED <<up, alive, writing, behind, due, removed, signal>>

Get ==
    /\ pc = "get"
    /\ IF Answered
       THEN /\ pc' = "drain" /\ ended' = (job = "ended") /\ reads' = 0 /\ drained' = FALSE
            /\ UNCHANGED <<cancelled, exit>>
       ELSE Fail
    /\ UNCHANGED <<jobVars, signal>>

\* print_log_chunk.  xrun also fails when nobody reads its output any more.
PrintChunk ==
    /\ pc = "drain" /\ reads < Drain
    /\ \/ /\ Answered /\ ~removed /\ behind > 0
          /\ behind' = behind - 1 /\ due' = IF due > 0 THEN due - 1 ELSE 0
          /\ reads' = reads + 1
          /\ UNCHANGED <<pc, cancelled, ended, drained, exit>>
       \/ /\ Answered /\ (removed \/ behind = 0)
          /\ drained' = TRUE /\ pc' = "decide"
          /\ UNCHANGED <<behind, due, cancelled, ended, reads, exit>>
       \/ /\ Answered => ~removed /\ behind > 0
          /\ Fail /\ UNCHANGED <<behind, due>>
    /\ UNCHANGED <<up, job, alive, writing, marked, removed, signal>>

\* Mutant: a round is not bounded.
Mut_Endless ==
    /\ pc = "drain" /\ reads = Drain /\ reads' = 0
    /\ UNCHANGED <<jobVars, signal, pc, cancelled, ended, drained, exit>>

Enough ==
    /\ pc = "drain" /\ reads = Drain /\ pc' = "decide"
    /\ UNCHANGED <<jobVars, signal, cancelled, ended, reads, drained, exit>>

\* Mutant: the job may have ended since the log was read.
Mut_DecideNow ==
    /\ pc = "decide"
    /\ IF job = "ended" /\ drained
       THEN pc' = "exited" /\ exit' = "task"
       ELSE pc' = "signal" /\ UNCHANGED exit
    /\ UNCHANGED <<jobVars, signal, cancelled, ended, reads, drained>>

Decide ==
    /\ pc = "decide"
    /\ IF ended /\ drained
       THEN pc' = "exited" /\ exit' = "task"
       ELSE pc' = "signal" /\ UNCHANGED exit
    /\ UNCHANGED <<jobVars, signal, cancelled, ended, reads, drained>>

Follow == SkipCancel \/ Cancel \/ Get \/ PrintChunk \/ Enough \/ Decide

Next ==
    \/ Start \/ Write \/ WorkerEnds \/ WorkerLost \/ Collect \/ Down \/ Up \/ RemoveLog \/ Expire
    \/ Interrupt \/ Follow

Spec == Init /\ [][Next]_vars

\* xrun is scheduled, the serving daemon collects results (WorkerContract), and a worker that
\* sees the cancel file ends (StopEnds of Worker).
FairSpec ==
    /\ Spec /\ WF_vars(Follow) /\ WF_vars(Collect) /\ WF_vars(marked /\ WorkerEnds)

-----------------------------------------------------------------------------
(* Properties *)

FlagsOK ==
    /\ up \in BOOLEAN /\ alive \in BOOLEAN /\ writing \in BOOLEAN /\ marked \in BOOLEAN
    /\ removed \in BOOLEAN /\ signal \in BOOLEAN /\ cancelled \in BOOLEAN
    /\ ended \in BOOLEAN /\ drained \in BOOLEAN

CountsOK ==
    /\ job \in {"pending", "running", "ended", "expired"}
    /\ behind \in 0 .. Ahead /\ due \in 0 .. behind
    /\ pc \in {"signal", "get", "drain", "decide", "exited"} /\ reads \in 0 .. Drain
    /\ exit \in {"none", "task", "error"}

TypeOK == FlagsOK /\ CountsOK

\* "Queue, run, stream logs, and return the task exit code" (README.md:24): xrun returns the
\* job's code only when the job has ended and everything written until then has been printed,
\* however writing, ending, collecting and printing are interleaved (unless the log was removed
\* meanwhile).
ExitIsComplete ==
    exit = "task" => job \in {"ended", "expired"} /\ (due = 0 \/ removed)

\* "cancel on Ctrl-C" (README.md:36): an interrupted xrun ends, however much the job prints,
\* provided that the daemon stays and that the job's processes end with its worker.
InterruptEnds == <>[](signal /\ up /\ (alive \/ ~writing)) => <>(exit # "none")

=============================================================================
