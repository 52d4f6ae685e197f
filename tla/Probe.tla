-------------------------------- MODULE Probe --------------------------------
(***************************************************************************)
(* output of device/mod.rs: one vendor utility (nvidia-smi, hy-smi) run    *)
(* under a deadline, and the processes it may leave behind.                *)
(*                                                                         *)
(* The utility leads a process group of its own.  A stray process is one   *)
(* that it started and that has left the group; it holds the utility's     *)
(* output pipes open.  (The others die with the group.)  A stuck utility   *)
(* is in the kernel: SIGKILL ends it only when it returns.  The deadline   *)
(* may pass at any time, and what a utility prints is one step.            *)
(***************************************************************************)
EXTENDS Naturals

VARIABLE probe

NoProbe == [stage |-> "off", leader |-> "none", stray |-> FALSE, text |-> {}, verdict |-> "none"]

Ended == {"ok", "failed", "killed"}

\* The process and the reader threads of its pipes are started, and the deadline is set.
Launch ==
    /\ probe.stage = "off"
    /\ probe' = [NoProbe EXCEPT !.stage = "wait", !.leader = "running"]

(* The utility's own steps. *)

Write(t) ==
    /\ probe.leader = "running" /\ probe.text = {}
    /\ probe' = [probe EXCEPT !.text = {t}]

Fork == probe.leader = "running" /\ probe' = [probe EXCEPT !.stray = TRUE]

Stick == probe.leader = "running" /\ probe' = [probe EXCEPT !.leader = "stuck"]

\* Out of the kernel again, where a SIGKILL sent meanwhile takes effect.
Unstick ==
    /\ probe.leader = "stuck"
    /\ probe' = [probe EXCEPT !.leader = IF probe.stage = "wait" THEN "running" ELSE "killed"]

\* Only a utility that has written its output succeeds.
Finish ==
    /\ probe.leader = "running"
    /\ \/ probe.text # {} /\ probe' = [probe EXCEPT !.leader = "ok"]
       \/ probe' = [probe EXCEPT !.leader = "failed"]

StrayEnds == probe.stray /\ probe' = [probe EXCEPT !.stray = FALSE]

(* The steps of output. *)

\* The waiting loop ends, with a status or at the deadline; either way SIGKILL goes to the
\* whole group.  Only a success keeps what was printed.
Look ==
    /\ probe.stage = "wait"
    /\ probe' = [probe EXCEPT
            !.stage = "reap",
            !.verdict = IF probe.leader \in Ended THEN probe.leader ELSE "timeout",
            !.leader = IF probe.leader = "running" THEN "killed" ELSE @,
            !.text = IF probe.leader = "ok" THEN @ ELSE {}]

\* child.wait()
Reap ==
    /\ probe.stage = "reap" /\ probe.leader \in Ended
    /\ probe' = [probe EXCEPT !.stage = "join", !.leader = "none"]

\* The readers end when nobody holds the pipes any more.
Join ==
    /\ probe.stage = "join" /\ ~probe.stray
    /\ probe' = NoProbe

\* What Join returns: the text, or nothing when the utility failed or was late.
Output == probe.text

Utility == Fork \/ Stick \/ Unstick \/ Finish \/ StrayEnds

Await == Look \/ Reap

=============================================================================
