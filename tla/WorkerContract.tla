--------------------------- MODULE WorkerContract ---------------------------
(***************************************************************************)
(* What the Executor trait and ProcessExecutor (executor.rs) promise about *)
(* one job's worker: it is started at most once, writes at most one result *)
(* and only while it holds the job's lock, and the lock, once released, is *)
(* never taken by a worker again.  Both sides implement this: the          *)
(* scheduler, which starts workers and deletes results, and the worker.    *)
(***************************************************************************)
CONSTANT Outcomes
VARIABLES worker, result
contract == <<worker, result>>

Init == worker = "none" /\ result = {}

Start == worker = "none" /\ worker' = "live" /\ UNCHANGED result

Report == worker = "live" /\ result = {} /\ (\E s \in Outcomes : result' = {s}) /\ UNCHANGED worker

Exit == worker = "live" /\ worker' = "gone" /\ UNCHANGED result

Forget == worker = "gone" /\ result' = {} /\ UNCHANGED worker

Next == Start \/ Report \/ Exit \/ Forget

Spec == Init /\ [][Next]_contract
=============================================================================
