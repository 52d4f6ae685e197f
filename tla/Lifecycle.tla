------------------------------ MODULE Lifecycle ------------------------------
(***************************************************************************)
(* Daemons and administrators on one state directory: serve from           *)
(* daemon.lock to the removal of the socket (daemon.rs), and the commands  *)
(* start, stop, restart and clean (cli.rs).  They meet in the file system  *)
(* only: the lock, the socket's path, and whether state.json records a     *)
(* RUNNING job, of which one stands for all.  A failed request changes     *)
(* nothing and has no action; a stop or restart whose answer is lost is,   *)
(* for the daemon, the signal of Interrupt.                                *)
(***************************************************************************)
EXTENDS FiniteSets

CONSTANTS
  Process,  \* daemon processes, each started at most once
  Admin,    \* administrators, one command at a time each
  Crashes   \* whether daemons and commands may die or fail at any point

ASSUME LifecycleAssumption ==
  /\ Process \cap Admin = {}
  /\ Crashes \in BOOLEAN

VARIABLES
  proc,      \* how far each daemon is
  lock,      \* Option: who holds daemon.lock
  path,      \* Option: the daemon whose listener the socket's path names
  recorded,  \* state.json records a RUNNING job
  live,      \* that job's worker is alive
  admin,     \* how far each administrator's command is
  cmd,       \* that command, or the last one
  child,     \* Option: the daemon that it spawned
  late,      \* its 45 seconds are over
  stuck,     \* the daemons inside a driver call that does not return for now
  doomed,    \* those of them that were sent a SIGKILL
  said,      \* what start, of its own or of restart, reported
  pred,      \* Option: the daemon that accepted its last stop or restart (observation)
  blocker    \* Option: who held the lock when a daemon gave up (observation)

state == <<recorded, live>>
hung == <<stuck, doomed>>
ask == <<cmd, child, late, said, pred>>
vars == <<proc, lock, path, state, admin, ask, blocker, hung>>

Owning == {"locked", "adopted", "bind", "serve", "closing", "unlinked"}
Calling == {"locked", "serve", "unlinked"}
Probing == {"probe", "check", "sweep"}

TypeOK ==
  /\ proc \in [Process -> {"unborn", "boot", "dead"} \cup Owning]
  /\ lock \in SUBSET (Process \cup Admin)
  /\ path \in SUBSET Process
  /\ recorded \in BOOLEAN /\ live \in BOOLEAN
  /\ admin \in [Admin -> {"idle", "begin", "ask", "look", "kill", "reap", "await"} \cup Probing]
  /\ cmd \in [Admin -> {"none", "start", "stop", "restart", "clean"}]
  /\ stuck \in SUBSET {p \in Process : proc[p] \in Calling} /\ doomed \in SUBSET stuck
  /\ child \in [Admin -> SUBSET Process]
  /\ late \in [Admin -> BOOLEAN]
  /\ said \in [Admin -> {"nothing", "success", "failure"}]
  /\ pred \in [Admin -> SUBSET Process]
  /\ blocker \in [Process -> SUBSET (Process \cup Admin)]

Init ==
  /\ proc = [p \in Process |-> "unborn"]
  /\ lock = {} /\ path = {}
  /\ recorded = FALSE /\ live = FALSE
  /\ admin = [a \in Admin |-> "idle"]
  /\ cmd = [a \in Admin |-> "none"]
  /\ stuck = {} /\ doomed = {}
  /\ child = [a \in Admin |-> {}]
  /\ late = [a \in Admin |-> FALSE]
  /\ said = [a \in Admin |-> "nothing"]
  /\ pred = [a \in Admin |-> {}]
  /\ blocker = [p \in Process |-> {}]

Goes(p, from, to) ==
  p \notin stuck /\ proc[p] = from /\ proc' = [proc EXCEPT ![p] = to]
Turns(a, from, to) == admin[a] = from /\ admin' = [admin EXCEPT ![a] = to]

-----------------------------------------------------------------------------
(***************************************************************************)
(* One daemon: serve, and the drop of its locals in reverse order.         *)
(***************************************************************************)
\* `xlurm daemon`, in the foreground.
Foreground(p) ==
  /\ Goes(p, "unborn", "boot")
  /\ UNCHANGED <<lock, path, state, admin, ask, blocker, hung>>

Lock(p) ==
  /\ lock = {} /\ lock' = {p}
  /\ Goes(p, "boot", "locked")
  /\ UNCHANGED <<path, state, admin, ask, blocker, hung>>

\* "xlurm daemon is already running"
Refused(p) ==
  /\ lock # {}
  /\ Goes(p, "boot", "dead")
  /\ blocker' = [blocker EXCEPT ![p] = lock]
  /\ UNCHANGED <<lock, path, state, admin, ask, hung>>

\* The first tick: an adopted job whose worker is gone gets its final state.
Adopt(p) ==
  /\ Goes(p, "locked", "adopted")
  /\ recorded' = (recorded /\ live)
  /\ UNCHANGED <<lock, path, live, admin, ask, blocker, hung>>

RemoveStale(p) ==
  /\ Goes(p, "adopted", "bind")
  /\ path' = {}
  /\ UNCHANGED <<lock, state, admin, ask, blocker, hung>>

Bind(p) ==
  /\ path = {} /\ path' = {p}
  /\ Goes(p, "bind", "serve")
  /\ UNCHANGED <<lock, state, admin, ask, blocker, hung>>

\* Mutant of StartJob: a daemon that has answered a stop ticks once more.
Mut_TickAfterAnswer(p) ==
  /\ proc[p] \in {"adopted", "serve", "closing"} /\ ~recorded
  /\ recorded' = TRUE /\ live' = TRUE
  /\ UNCHANGED <<proc, lock, path, admin, ask, blocker, hung>>

\* tick starts a pending job: the intent is saved, then the worker is forked.  A daemon
\* that dies in between is one whose worker ends at once.
StartJob(p) ==
  /\ p \notin stuck /\ proc[p] \in {"adopted", "serve"} /\ ~recorded
  /\ recorded' = TRUE /\ live' = TRUE
  /\ UNCHANGED <<proc, lock, path, admin, ask, blocker, hung>>

\* tick collects the result of a worker that has released its lock.
Collect(p) ==
  /\ p \notin stuck /\ proc[p] = "serve" /\ recorded /\ ~live
  /\ recorded' = FALSE
  /\ UNCHANGED <<proc, lock, path, live, admin, ask, blocker, hung>>

WorkerEnds ==
  /\ live /\ live' = FALSE
  /\ UNCHANGED <<proc, lock, path, recorded, admin, ask, blocker, hung>>

\* SIGTERM, or an error that serve returns: the loop ends.
Interrupt(p) ==
  /\ Goes(p, "serve", "closing")
  /\ UNCHANGED <<lock, path, state, admin, ask, blocker, hung>>

\* Mutant of Unlink: daemon.lock is released before the socket is removed.
Mut_UnlockFirst(p) ==
  /\ IF lock = {p}
     THEN proc[p] = "closing" /\ lock' = {} /\ UNCHANGED <<proc, path>>
     ELSE Goes(p, "closing", "unlinked") /\ path' = {} /\ UNCHANGED lock
  /\ UNCHANGED <<state, admin, ask, blocker, hung>>

\* Drop of SocketCleanup: whatever the path names by now is removed.
Unlink(p) ==
  /\ Goes(p, "closing", "unlinked")
  /\ path' = {}
  /\ UNCHANGED <<lock, state, admin, ask, blocker, hung>>

\* Drop of _lock, the first local and therefore the last to go.
Release(p) ==
  /\ Goes(p, "unlinked", "dead")
  /\ lock' = lock \ {p}
  /\ UNCHANGED <<path, state, admin, ask, blocker, hung>>

\* SIGKILL or power loss, and before the socket is bound any error: nothing is removed.
Die(p) ==
  /\ Crashes /\ p \notin stuck /\ proc[p] \notin {"unborn", "dead"}
  /\ proc' = [proc EXCEPT ![p] = "dead"]
  /\ lock' = lock \ {p}
  /\ UNCHANGED <<path, state, admin, ask, blocker, hung>>

\* Discovery, a refresh or the shutdown of a library waits for a driver, uninterruptibly: not
\* even SIGKILL ends the daemon before the call returns.
Stick(p) ==
  /\ p \notin stuck /\ proc[p] \in Calling
  /\ stuck' = stuck \cup {p}
  /\ UNCHANGED <<proc, lock, path, state, admin, ask, blocker, doomed>>

Unstick(p) ==
  /\ p \in stuck
  /\ stuck' = stuck \ {p} /\ doomed' = doomed \ {p}
  /\ IF p \in doomed THEN proc' = [proc EXCEPT ![p] = "dead"] /\ lock' = lock \ {p}
                      ELSE UNCHANGED <<proc, lock>>
  /\ UNCHANGED <<path, state, admin, ask, blocker>>

-----------------------------------------------------------------------------
(***************************************************************************)
(* The commands.  request(Info) succeeds only at a daemon that the path    *)
(* leads to and that is in its loop; it may always fail, for instance      *)
(* because the answer takes more than a minute.                            *)
(***************************************************************************)
Begins(a, c, to) ==
  /\ Turns(a, "idle", to)
  /\ cmd' = [cmd EXCEPT ![a] = c]
  /\ child' = [child EXCEPT ![a] = {}]
  /\ late' = [late EXCEPT ![a] = FALSE]
  /\ said' = [said EXCEPT ![a] = "nothing"]

Reports(a, from, verdict) ==
  /\ Turns(a, from, "idle")
  /\ said' = [said EXCEPT ![a] = verdict]

Reachable(q) == path = {q} /\ proc[q] = "serve" /\ q \notin stuck
Answered == \E q \in Process : Reachable(q)

Start(a) ==
  /\ Begins(a, "start", "begin")
  /\ UNCHANGED <<proc, lock, path, state, pred, blocker, hung>>

\* "xlurm is already running", or "xlurm started".
Welcome(a) ==
  /\ Answered
  /\ Reports(a, "begin", "success") \/ Reports(a, "ask", "success")
  /\ UNCHANGED <<proc, lock, path, state, cmd, child, late, pred, blocker, hung>>

Spawn(a, p) ==
  /\ Turns(a, "begin", "ask")
  /\ Goes(p, "unborn", "boot")
  /\ child' = [child EXCEPT ![a] = {p}]
  /\ late' = [late EXCEPT ![a] = FALSE]
  /\ UNCHANGED <<lock, path, state, cmd, said, pred, blocker, hung>>

\* --max-running is 0, the log cannot be opened or the process cannot be created.
SpawnFails(a) ==
  /\ Reports(a, "begin", "failure")
  /\ UNCHANGED <<proc, lock, path, state, cmd, child, late, pred, blocker, hung>>

Unanswered(a) ==
  /\ Turns(a, "ask", "look")
  /\ UNCHANGED <<proc, lock, path, state, ask, blocker, hung>>

ChildDead(a) == \E p \in child[a] : proc[p] = "dead"

\* try_wait and the deadline: "daemon exited", give up, or sleep and ask again.
Look(a) ==
  /\ IF ChildDead(a) THEN Reports(a, "look", "failure")
     ELSE Turns(a, "look", IF late[a] THEN "kill" ELSE "ask") /\ UNCHANGED said
  /\ UNCHANGED <<proc, lock, path, state, cmd, child, late, pred, blocker, hung>>

\* child.kill: a daemon that waits for a driver goes on holding what it holds.
Kill(a) ==
  /\ Turns(a, "kill", "reap")
  /\ proc' = [p \in Process |-> IF p \in child[a] \ stuck THEN "dead" ELSE proc[p]]
  /\ lock' = lock \ (child[a] \ stuck)
  /\ doomed' = doomed \cup (child[a] \cap stuck)
  /\ UNCHANGED <<path, state, ask, blocker, stuck>>

\* Mutant of Reap: the failure is reported without waiting for the child.
Mut_Unreaped(a) ==
  /\ Reports(a, "reap", "failure")
  /\ UNCHANGED <<proc, lock, path, state, cmd, child, late, pred, blocker, hung>>

\* child.wait: "Never leave an unannounced daemon starting after reporting failure."
\* kill and wait fail only for a child that does not exist any more.
Reap(a) ==
  /\ ChildDead(a) /\ Reports(a, "reap", "failure")
  /\ UNCHANGED <<proc, lock, path, state, cmd, child, late, pred, blocker, hung>>

Stop(a, q) ==
  /\ Reachable(q) /\ Goes(q, "serve", "closing")
  /\ Begins(a, "stop", "idle")
  /\ pred' = [pred EXCEPT ![a] = {q}]
  /\ UNCHANGED <<lock, path, state, blocker, hung>>

\* "cannot restart while jobs are running"
Restart(a, q) ==
  /\ Reachable(q) /\ ~recorded /\ Goes(q, "serve", "closing")
  /\ Begins(a, "restart", "await")
  /\ pred' = [pred EXCEPT ![a] = {q}]
  /\ UNCHANGED <<lock, path, state, blocker, hung>>

\* Mutant of Await: restart starts at once.
Mut_NoWait(a) ==
  /\ Turns(a, "await", "begin")
  /\ UNCHANGED <<proc, lock, path, state, ask, blocker, hung>>

\* Mutant of Await: no deadline.
Mut_WaitForever(a) ==
  /\ lock = {} /\ lock' = {a} /\ Turns(a, "await", "probe")
  /\ UNCHANGED <<proc, path, state, ask, blocker, hung>>

\* restart takes the lock to see that it is free, or gives up.
Await(a) ==
  /\ \/ lock = {} /\ lock' = {a} /\ Turns(a, "await", "probe") /\ UNCHANGED said
     \/ lock # {} /\ late[a] /\ Reports(a, "await", "failure") /\ UNCHANGED lock
  /\ UNCHANGED <<proc, path, state, cmd, child, late, pred, blocker, hung>>

\* drop(lock), then start.
Probed(a) ==
  /\ Turns(a, "probe", "begin")
  /\ lock' = lock \ {a}
  /\ UNCHANGED <<proc, path, state, ask, blocker, hung>>

\* Mutant of CleanLock: clean trusts state.json alone.
Mut_CleanUnlocked(a) ==
  /\ Begins(a, "clean", "check")
  /\ UNCHANGED <<proc, lock, path, state, pred, blocker, hung>>

CleanLock(a) ==
  /\ lock = {} /\ lock' = {a}
  /\ Begins(a, "clean", "check")
  /\ UNCHANGED <<proc, path, state, pred, blocker, hung>>

\* "cannot clean logs while jobs are running"
CleanCheck(a) ==
  /\ IF recorded THEN Turns(a, "check", "idle") /\ lock' = lock \ {a}
                 ELSE Turns(a, "check", "sweep") /\ UNCHANGED lock
  /\ UNCHANGED <<proc, path, state, ask, blocker, hung>>

\* The last log is removed.
Swept(a) ==
  /\ Turns(a, "sweep", "idle")
  /\ lock' = lock \ {a}
  /\ UNCHANGED <<proc, path, state, ask, blocker, hung>>

\* A command is interrupted.  A daemon that it spawned has its own session and goes on.
Abandon(a) ==
  /\ Crashes /\ admin[a] # "idle"
  /\ admin' = [admin EXCEPT ![a] = "idle"]
  /\ lock' = lock \ {a}
  /\ UNCHANGED <<proc, path, state, ask, blocker, hung>>

Deadline(a) ==
  /\ admin[a] \in {"await", "ask", "look"} /\ ~late[a]
  /\ late' = [late EXCEPT ![a] = TRUE]
  /\ UNCHANGED <<proc, lock, path, state, admin, cmd, child, said, pred, blocker, hung>>

-----------------------------------------------------------------------------
DaemonStep(p) ==
  \/ Lock(p) \/ Refused(p) \/ Adopt(p) \/ RemoveStale(p) \/ Bind(p)
  \/ StartJob(p) \/ Collect(p) \/ Unlink(p) \/ Release(p)

CommandStep(a) ==
  \/ Welcome(a) \/ (\E p \in Process : Spawn(a, p)) \/ SpawnFails(a)
  \/ Unanswered(a) \/ Look(a) \/ Kill(a) \/ Reap(a)
  \/ Await(a) \/ Probed(a) \/ CleanCheck(a) \/ Swept(a)

Requests(a) ==
  \/ Start(a) \/ CleanLock(a)
  \/ \E q \in Process : Stop(a, q) \/ Restart(a, q)

Next ==
  \/ \E p \in Process : DaemonStep(p) \/ Foreground(p) \/ Interrupt(p) \/ Die(p)
                    \/ Stick(p) \/ Unstick(p)
  \/ \E a \in Admin : CommandStep(a) \/ Requests(a) \/ Deadline(a) \/ Abandon(a)
  \/ WorkerEnds

Spec == Init /\ [][Next]_vars

\* connect waits for as long as the daemon that the path leads to does not accept.
Blocked(a) == admin[a] \in {"begin", "ask"} /\ path \cap stuck # {}

\* Commands are scheduled and their clocks run.  No daemon need make progress.
Fairness ==
  \A a \in Admin : WF_vars(CommandStep(a) /\ ~Blocked(a)) /\ WF_vars(Deadline(a))
FairSpec == Spec /\ Fairness

-----------------------------------------------------------------------------
\* A daemon in its loop can be reached: the socket's path is its own.  Neither an older
\* daemon that is still closing nor one that was refused has removed or replaced it.
SocketReachable == \A p \in Process : proc[p] = "serve" => path = {p}

\* clean removes logs only while no worker can be writing one: not a worker that an
\* earlier daemon left behind, nor one that a daemon starts after the check.
CleanSparesWorkers == (\E a \in Admin : admin[a] = "sweep") => ~live

\* A daemon that has accepted a restart has no worker, and starts none before it is gone.
RestartIsIdle ==
  \A a \in Admin : admin[a] = "await" /\ lock = pred[a] => ~live

\* restart's new daemon is never turned away by the one it replaces.
RestartHandsOver ==
  \A a \in Admin : cmd[a] = "restart" =>
    \A p \in child[a] : blocker[p] \cap pred[a] = {}

\* The same of `stop` followed by `start`, to which restart "is equivalent".
StopHandsOver ==
  \A a \in Admin : cmd[a] = "start" =>
    \A p \in child[a] : blocker[p] \cap pred[a] = {}

\* "Never leave an unannounced daemon starting after reporting failure."
NoUnannouncedDaemon ==
  \A a \in Admin : said[a] = "failure" => \A p \in child[a] : proc[p] = "dead"

\* Unless some daemon waits for a driver now and again for ever, every start, clean and
\* accepted restart ends, whatever the daemons do or leave undone: the loops of start
\* and restart are bounded, and none waits for a lock.  A daemon that hangs in a
\* driver may hang them: connect has no timeout, and neither has child.wait.
CommandsEnd ==
  <>[](stuck = {}) => \A a \in Admin : admin[a] # "idle" ~> admin[a] = "idle"

-----------------------------------------------------------------------------
(***************************************************************************)
(* The inductive invariant.                                                *)
(***************************************************************************)
\* flock: one holder, known by how far it is.
Ownership ==
  /\ \A x, y \in lock : x = y
  /\ \A p \in Process : proc[p] \in Owning <=> lock = {p}
  /\ \A a \in Admin : admin[a] \in Probing <=> lock = {a}

\* What state.json says when nobody may change it.
Recording ==
  /\ live => recorded
  /\ \A a \in Admin : admin[a] = "sweep" => ~recorded
  /\ \A a \in Admin : admin[a] = "await" =>
       \E q \in Process :
         /\ pred[a] = {q}
         /\ proc[q] \in {"closing", "unlinked", "dead"}
         /\ proc[q] # "dead" => ~recorded

\* A restart that has seen the lock free has outlived its predecessor.
Succession ==
  /\ \A p \in Process : blocker[p] # {} => proc[p] = "dead"
  /\ \A a \in Admin :
       /\ cmd[a] = "restart"
       /\ admin[a] \in {"probe", "begin", "ask", "look", "kill", "reap"} \/ child[a] # {}
       => \A q \in pred[a] : proc[q] = "dead"

\* A command in progress has reported nothing, and has a child only after spawning it.
Progress ==
  /\ \A a \in Admin : \A x, y \in child[a] : x = y
  /\ \A a \in Admin : admin[a] # "idle" => said[a] = "nothing"
  /\ \A a \in Admin : admin[a] \in {"await", "probe", "begin"} => child[a] = {}

IndInv ==
  /\ TypeOK
  /\ Ownership
  /\ SocketReachable
  /\ Recording
  /\ Succession
  /\ RestartHandsOver
  /\ Progress
  /\ NoUnannouncedDaemon
=============================================================================
