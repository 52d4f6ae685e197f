-------------------------- MODULE LifecycleProofs ---------------------------
(***************************************************************************)
(* Safety of daemons and commands for any number of both, whether or not   *)
(* they may die: IndInv is preserved, one lemma per conjunct.              *)
(***************************************************************************)
EXTENDS Lifecycle, TLAPS

Phase == {"idle", "begin", "ask", "look", "kill", "reap", "await"} \cup Probing
Command == {"none", "start", "stop", "restart", "clean"}

LEMMA BeginsType ==
  ASSUME TypeOK, NEW a \in Admin, NEW c \in Command, NEW to \in Phase, Begins(a, c, to)
  PROVE  /\ admin' \in [Admin -> Phase]
         /\ cmd' \in [Admin -> Command]
         /\ child' \in [Admin -> SUBSET Process]
         /\ late' \in [Admin -> BOOLEAN]
         /\ said' \in [Admin -> {"nothing", "success", "failure"}]
BY DEF Begins, Turns, TypeOK, Phase, Command

LEMMA TypeStep == TypeOK /\ [Next]_vars => TypeOK'
<1> SUFFICES ASSUME TypeOK, [Next]_vars PROVE TypeOK'
  OBVIOUS
<1> USE LifecycleAssumption DEF TypeOK, Owning, Calling, Probing, Phase, Command, hung
<1>1. ASSUME NEW p \in Process, DaemonStep(p) \/ Foreground(p) \/ Interrupt(p) \/ Die(p)
           \/ Stick(p) \/ Unstick(p)
      PROVE  TypeOK'
  <2>1. CASE Lock(p)
    BY <2>1 DEF Lock, Goes, state, ask
  <2>2. CASE Refused(p)
    BY <2>2 DEF Refused, Goes, state, ask
  <2>3. CASE Adopt(p)
    BY <2>3 DEF Adopt, Goes, state, ask
  <2>4. CASE RemoveStale(p)
    BY <2>4 DEF RemoveStale, Goes, state, ask
  <2>5. CASE Bind(p)
    BY <2>5 DEF Bind, Goes, state, ask
  <2>6. CASE StartJob(p)
    BY <2>6 DEF StartJob, ask
  <2>7. CASE Collect(p)
    BY <2>7 DEF Collect, ask
  <2>8. CASE Unlink(p)
    BY <2>8 DEF Unlink, Goes, state, ask
  <2>9. CASE Release(p)
    BY <2>9 DEF Release, Goes, state, ask
  <2>10. CASE Foreground(p)
    BY <2>10 DEF Foreground, Goes, state, ask
  <2>11. CASE Interrupt(p)
    BY <2>11 DEF Interrupt, Goes, state, ask
  <2>12. CASE Die(p)
    BY <2>12 DEF Die, state, ask
  <2>13. CASE Stick(p)
    BY <2>13 DEF Stick, state, ask
  <2>14. CASE Unstick(p)
    BY <2>14 DEF Unstick, state, ask
  <2> QED
    BY <1>1, <2>1, <2>2, <2>3, <2>4, <2>5, <2>6, <2>7, <2>8, <2>9, <2>10, <2>11, <2>12,
      <2>13, <2>14
      DEF DaemonStep
<1>2. ASSUME NEW a \in Admin, Requests(a) PROVE TypeOK'
  <2>1. CASE Start(a)
    BY <2>1, BeginsType DEF Start, Begins, Turns, state
  <2>2. CASE CleanLock(a)
    BY <2>2, BeginsType DEF CleanLock, Begins, Turns, state
  <2>3. ASSUME NEW q \in Process, Stop(a, q) PROVE TypeOK'
    BY <2>3, BeginsType DEF Stop, Begins, Turns, Reachable, Goes, state
  <2>4. ASSUME NEW q \in Process, Restart(a, q) PROVE TypeOK'
    BY <2>4, BeginsType DEF Restart, Begins, Turns, Reachable, Goes, state
  <2> QED
    BY <1>2, <2>1, <2>2, <2>3, <2>4 DEF Requests
<1>3. ASSUME NEW a \in Admin, CommandStep(a) \/ Deadline(a) \/ Abandon(a) PROVE TypeOK'
  <2>1. CASE Welcome(a)
    BY <2>1 DEF Welcome, Reports, Turns, state
  <2>2. CASE SpawnFails(a)
    BY <2>2 DEF SpawnFails, Reports, Turns, state
  <2>3. CASE Unanswered(a)
    BY <2>3 DEF Unanswered, Turns, state, ask
  <2>4. CASE Look(a)
    BY <2>4 DEF Look, ChildDead, Reports, Turns, state
  <2>5. CASE Kill(a)
    <3>1. admin' \in [Admin -> Phase] /\ UNCHANGED <<path, state, ask, blocker, stuck>>
      BY <2>5 DEF Kill, Turns
    <3>2. proc' \in [Process -> {"unborn", "boot", "dead"} \cup Owning]
      BY <2>5 DEF Kill
    <3>3. lock' \in SUBSET (Process \cup Admin) /\ doomed' \in SUBSET stuck
      BY <2>5 DEF Kill
    <3>4. \A p \in stuck : p \in Process /\ proc'[p] \in Calling
      BY <2>5 DEF Kill
    <3> QED
      BY <3>1, <3>2, <3>3, <3>4 DEF state, ask
  <2>6. CASE Await(a)
    BY <2>6 DEF Await, Reports, Turns, state
  <2>7. CASE Probed(a)
    BY <2>7 DEF Probed, Turns, state, ask
  <2>8. CASE CleanCheck(a)
    BY <2>8 DEF CleanCheck, Turns, state, ask
  <2>9. CASE Swept(a)
    BY <2>9 DEF Swept, Turns, state, ask
  <2>10. CASE Deadline(a)
    BY <2>10 DEF Deadline, state, ask
  <2>11. CASE Abandon(a)
    BY <2>11 DEF Abandon, state, ask
  <2>12. ASSUME NEW p \in Process, Spawn(a, p) PROVE TypeOK'
    BY <2>12 DEF Spawn, Turns, Goes, state
  <2>13. CASE Reap(a)
    BY <2>13 DEF Reap, Reports, Turns, state
  <2> QED
    BY <1>3, <2>1, <2>2, <2>3, <2>4, <2>5, <2>6, <2>7, <2>8, <2>9, <2>10, <2>11, <2>12,
      <2>13
      DEF CommandStep
<1>4. CASE WorkerEnds
  BY <1>4 DEF WorkerEnds, ask
<1>5. CASE UNCHANGED vars
  BY <1>5 DEF vars, state, ask
<1> QED
  BY <1>1, <1>2, <1>3, <1>4, <1>5 DEF Next

LEMMA OwnershipStep == TypeOK /\ Ownership /\ [Next]_vars => Ownership'
<1> SUFFICES ASSUME TypeOK, Ownership, [Next]_vars PROVE Ownership'
  OBVIOUS
<1>a. /\ proc = [p \in Process |-> proc[p]] /\ admin = [a \in Admin |-> admin[a]]
      /\ \A p \in Process, a \in Admin : p # a
  BY LifecycleAssumption DEF TypeOK
<1> USE <1>a DEF Ownership, Owning, Probing
<1>1. ASSUME NEW p \in Process, DaemonStep(p) \/ Foreground(p) \/ Interrupt(p) \/ Die(p)
           \/ Stick(p) \/ Unstick(p)
      PROVE  Ownership'
  <2>1. CASE Lock(p)
    BY <2>1 DEF Lock, Goes, state, ask
  <2>2. CASE Refused(p)
    BY <2>2 DEF Refused, Goes, state, ask
  <2>3. CASE Adopt(p)
    BY <2>3 DEF Adopt, Goes, state, ask
  <2>4. CASE RemoveStale(p)
    BY <2>4 DEF RemoveStale, Goes, state, ask
  <2>5. CASE Bind(p)
    BY <2>5 DEF Bind, Goes, state, ask
  <2>6. CASE StartJob(p)
    BY <2>6 DEF StartJob, ask
  <2>7. CASE Collect(p)
    BY <2>7 DEF Collect, ask
  <2>8. CASE Unlink(p)
    BY <2>8 DEF Unlink, Goes, state, ask
  <2>9. CASE Release(p)
    BY <2>9 DEF Release, Goes, state, ask
  <2>10. CASE Foreground(p)
    BY <2>10 DEF Foreground, Goes, state, ask
  <2>11. CASE Interrupt(p)
    BY <2>11 DEF Interrupt, Goes, state, ask
  <2>12. CASE Die(p)
    BY <2>12 DEF Die, state, ask
  <2>13. CASE Stick(p)
    BY <2>13 DEF Stick, state, ask
  <2>14. CASE Unstick(p)
    BY <2>14 DEF Unstick, state, ask
  <2> QED
    BY <1>1, <2>1, <2>2, <2>3, <2>4, <2>5, <2>6, <2>7, <2>8, <2>9, <2>10, <2>11, <2>12,
      <2>13, <2>14
      DEF DaemonStep
<1>2. ASSUME NEW a \in Admin, Requests(a) PROVE Ownership'
  BY <1>2 DEF Requests, Start, CleanLock, Stop, Restart, Reachable, Begins, Turns, Goes,
    state
<1>3. ASSUME NEW a \in Admin, CommandStep(a) \/ Deadline(a) \/ Abandon(a) PROVE Ownership'
  <2>1. CASE Welcome(a)
    BY <2>1 DEF Welcome, Reports, Turns, state
  <2>2. CASE SpawnFails(a)
    BY <2>2 DEF SpawnFails, Reports, Turns, state
  <2>3. CASE Unanswered(a)
    BY <2>3 DEF Unanswered, Turns, state, ask
  <2>4. CASE Look(a)
    BY <2>4 DEF Look, ChildDead, Reports, Turns, state
  <2>5. CASE Kill(a)
    <3>1. child[a] \subseteq Process
      BY DEF TypeOK
    <3>2. \A b \in Admin : admin'[b] \in Probing <=> admin[b] \in Probing
      BY <2>5 DEF Kill, Reports, Turns
    <3>3. \A p \in Process : proc'[p] = IF p \in child[a] \ stuck THEN "dead" ELSE proc[p]
      BY <2>5 DEF Kill
    <3>4. lock' = lock \ (child[a] \ stuck)
      BY <2>5 DEF Kill
    <3>5. CASE \E p \in child[a] \ stuck : lock = {p}
      <4>1. lock' = {}
        BY <3>4, <3>5
      <4> QED
        BY <3>1, <3>2, <3>3, <3>5, <4>1
    <3>6. CASE ~ \E p \in child[a] \ stuck : lock = {p}
      <4>1. lock' = lock
        BY <3>4, <3>6
      <4> QED
        BY <3>1, <3>2, <3>3, <3>6, <4>1
    <3> QED
      BY <3>5, <3>6
  <2>6. CASE Await(a)
    BY <2>6 DEF Await, Reports, Turns, state
  <2>7. CASE Probed(a)
    BY <2>7 DEF Probed, Turns, state, ask
  <2>8. CASE CleanCheck(a)
    BY <2>8 DEF CleanCheck, Turns, state, ask
  <2>9. CASE Swept(a)
    BY <2>9 DEF Swept, Turns, state, ask
  <2>10. CASE Deadline(a)
    BY <2>10 DEF Deadline, state, ask
  <2>11. CASE Abandon(a)
    BY <2>11 DEF Abandon, state, ask
  <2>12. ASSUME NEW p \in Process, Spawn(a, p) PROVE Ownership'
    BY <2>12 DEF Spawn, Turns, Goes, state
  <2>13. CASE Reap(a)
    BY <2>13 DEF Reap, Reports, Turns, state
  <2> QED
    BY <1>3, <2>1, <2>2, <2>3, <2>4, <2>5, <2>6, <2>7, <2>8, <2>9, <2>10, <2>11, <2>12,
      <2>13
      DEF CommandStep
<1>4. CASE WorkerEnds
  BY <1>4 DEF WorkerEnds, ask
<1>5. CASE UNCHANGED vars
  BY <1>5 DEF vars, state, ask
<1> QED
  BY <1>1, <1>2, <1>3, <1>4, <1>5 DEF Next

LEMMA SocketStep ==
  TypeOK /\ Ownership /\ SocketReachable /\ [Next]_vars => SocketReachable'
<1> SUFFICES ASSUME TypeOK, Ownership, SocketReachable, [Next]_vars,
                    NEW x \in Process, proc'[x] = "serve"
             PROVE  path' = {x}
  BY DEF SocketReachable
<1> USE DEF TypeOK, Ownership, Owning, SocketReachable
<1>1. ASSUME NEW p \in Process, DaemonStep(p) \/ Foreground(p) \/ Interrupt(p) \/ Die(p)
           \/ Stick(p) \/ Unstick(p)
      PROVE  path' = {x}
  BY <1>1 DEF DaemonStep, Lock, Refused, Adopt, RemoveStale, Bind, StartJob, Collect, Unlink,
    Release, Foreground, Interrupt, Die, Stick, Unstick, Goes, state, ask
<1>2. ASSUME NEW a \in Admin, Requests(a) PROVE path' = {x}
  BY <1>2 DEF Requests, Start, CleanLock, Stop, Restart, Reachable, Begins, Turns, Goes, state
<1>3. ASSUME NEW a \in Admin, CommandStep(a) \/ Deadline(a) \/ Abandon(a)
      PROVE  path' = {x}
  BY <1>3 DEF CommandStep, Welcome, Spawn, SpawnFails, Unanswered, Look, ChildDead, Kill, Reap, Await,
    Probed, CleanCheck, Swept, Deadline, Abandon, Reports, Turns, Goes, state, ask
<1>4. CASE WorkerEnds
  BY <1>4 DEF WorkerEnds, ask
<1>5. CASE UNCHANGED vars
  BY <1>5 DEF vars, state, ask
<1> QED
  BY <1>1, <1>2, <1>3, <1>4, <1>5 DEF Next

LEMMA RecordingStep == TypeOK /\ Ownership /\ Recording /\ [Next]_vars => Recording'
<1> SUFFICES ASSUME TypeOK, Ownership, Recording, [Next]_vars PROVE Recording'
  OBVIOUS
<1>a. /\ proc = [p \in Process |-> proc[p]] /\ admin = [a \in Admin |-> admin[a]]
      /\ pred = [a \in Admin |-> pred[a]]
      /\ recorded \in BOOLEAN /\ live \in BOOLEAN
      /\ \A p \in Process, a \in Admin : p # a
  BY LifecycleAssumption DEF TypeOK
<1> USE <1>a DEF Ownership, Recording, Owning, Probing
<1>1. ASSUME NEW p \in Process, DaemonStep(p) \/ Foreground(p) \/ Interrupt(p) \/ Die(p)
           \/ Stick(p) \/ Unstick(p)
      PROVE  Recording'
  <2>1. CASE Lock(p)
    BY <2>1 DEF Lock, Goes, state, ask
  <2>2. CASE Refused(p)
    BY <2>2 DEF Refused, Goes, state, ask
  <2>3. CASE Adopt(p)
    BY <2>3 DEF Adopt, Goes, state, ask
  <2>4. CASE RemoveStale(p)
    BY <2>4 DEF RemoveStale, Goes, state, ask
  <2>5. CASE Bind(p)
    BY <2>5 DEF Bind, Goes, state, ask
  <2>6. CASE StartJob(p)
    BY <2>6 DEF StartJob, ask
  <2>7. CASE Collect(p)
    BY <2>7 DEF Collect, ask
  <2>8. CASE Unlink(p)
    BY <2>8 DEF Unlink, Goes, state, ask
  <2>9. CASE Release(p)
    BY <2>9 DEF Release, Goes, state, ask
  <2>10. CASE Foreground(p)
    BY <2>10 DEF Foreground, Goes, state, ask
  <2>11. CASE Interrupt(p)
    BY <2>11 DEF Interrupt, Goes, state, ask
  <2>12. CASE Die(p)
    <3>1. \A x \in Process : proc'[x] \in {proc[x], "dead"}
      BY <2>12 DEF Die
    <3>2. UNCHANGED <<recorded, live, admin, pred>>
      BY <2>12 DEF Die, state, ask
    <3>3. \A b \in Admin : admin[b] = "await" =>
            \E q \in Process :
              /\ pred[b] = {q}
              /\ proc'[q] \in {"closing", "unlinked", "dead"}
              /\ proc'[q] # "dead" => ~recorded
      BY <3>1
    <3> QED
      BY <3>2, <3>3
  <2>13. CASE Stick(p)
    BY <2>13 DEF Stick, state, ask
  <2>14. CASE Unstick(p)
    <3>1. \A x \in Process : proc'[x] \in {proc[x], "dead"}
      BY <2>14 DEF Unstick
    <3>2. UNCHANGED <<recorded, live, admin, pred>>
      BY <2>14 DEF Unstick, state, ask
    <3>3. \A b \in Admin : admin[b] = "await" =>
            \E q \in Process :
              /\ pred[b] = {q}
              /\ proc'[q] \in {"closing", "unlinked", "dead"}
              /\ proc'[q] # "dead" => ~recorded
      BY <3>1
    <3> QED
      BY <3>2, <3>3
  <2> QED
    BY <1>1, <2>1, <2>2, <2>3, <2>4, <2>5, <2>6, <2>7, <2>8, <2>9, <2>10, <2>11, <2>12,
      <2>13, <2>14
      DEF DaemonStep
<1>2. ASSUME NEW a \in Admin, Requests(a) PROVE Recording'
  <2>1. CASE Start(a)
    BY <2>1 DEF Start, Begins, Turns, state
  <2>2. CASE CleanLock(a)
    BY <2>2 DEF CleanLock, Begins, Turns, state
  <2>3. ASSUME NEW q \in Process, Stop(a, q) PROVE Recording'
    BY <2>3 DEF Stop, Begins, Turns, Reachable, Goes, state
  <2>4. ASSUME NEW q \in Process, Restart(a, q) PROVE Recording'
    BY <2>4 DEF Restart, Begins, Turns, Reachable, Goes, state
  <2> QED
    BY <1>2, <2>1, <2>2, <2>3, <2>4 DEF Requests
<1>3. ASSUME NEW a \in Admin, CommandStep(a) \/ Deadline(a) \/ Abandon(a) PROVE Recording'
  <2>1. CASE Welcome(a)
    BY <2>1 DEF Welcome, Reports, Turns, state
  <2>2. CASE SpawnFails(a)
    BY <2>2 DEF SpawnFails, Reports, Turns, state
  <2>3. CASE Unanswered(a)
    BY <2>3 DEF Unanswered, Turns, state, ask
  <2>4. CASE Look(a)
    <3>1. \A b \in Admin : admin'[b] \in {"sweep", "await"} => admin'[b] = admin[b]
      BY <2>4 DEF Look, Reports, Turns
    <3> QED
      BY <2>4, <3>1 DEF Look, state
  <2>5. CASE Kill(a)
    <3>1. \A x \in Process : proc'[x] \in {proc[x], "dead"}
      BY <2>5 DEF Kill
    <3>2. \A b \in Admin : admin'[b] \in {"sweep", "await"} => admin'[b] = admin[b]
      BY <2>5 DEF Kill, Turns
    <3>3. UNCHANGED <<state, pred>>
      BY <2>5 DEF Kill, ask
    <3> QED
      BY <3>1, <3>2, <3>3 DEF state
  <2>6. CASE Await(a)
    BY <2>6 DEF Await, Reports, Turns, state
  <2>7. CASE Probed(a)
    BY <2>7 DEF Probed, Turns, state, ask
  <2>8. CASE CleanCheck(a)
    BY <2>8 DEF CleanCheck, Turns, state, ask
  <2>9. CASE Swept(a)
    BY <2>9 DEF Swept, Turns, state, ask
  <2>10. CASE Deadline(a)
    BY <2>10 DEF Deadline, state, ask
  <2>11. CASE Abandon(a)
    BY <2>11 DEF Abandon, state, ask
  <2>12. ASSUME NEW p \in Process, Spawn(a, p) PROVE Recording'
    BY <2>12 DEF Spawn, Turns, Goes, state
  <2>13. CASE Reap(a)
    BY <2>13 DEF Reap, Reports, Turns, state
  <2> QED
    BY <1>3, <2>1, <2>2, <2>3, <2>4, <2>5, <2>6, <2>7, <2>8, <2>9, <2>10, <2>11, <2>12,
      <2>13
      DEF CommandStep
<1>4. CASE WorkerEnds
  BY <1>4 DEF WorkerEnds, ask
<1>5. CASE UNCHANGED vars
  BY <1>5 DEF vars, state, ask
<1> QED
  BY <1>1, <1>2, <1>3, <1>4, <1>5 DEF Next

LEMMA ProgressStep == TypeOK /\ Progress /\ [Next]_vars => Progress'
<1> DEFINE Kept(b) ==
  /\ \A x, y \in child[b] : x = y
  /\ admin[b] # "idle" => said[b] = "nothing"
  /\ admin[b] \in {"await", "probe", "begin"} => child[b] = {}
<1> SUFFICES ASSUME TypeOK, [Next]_vars, NEW b \in Admin, Kept(b) PROVE Kept(b)'
  BY DEF Progress
<1> USE DEF TypeOK
<1>1. ASSUME NEW p \in Process, DaemonStep(p) \/ Foreground(p) \/ Interrupt(p) \/ Die(p)
           \/ Stick(p) \/ Unstick(p)
      PROVE  Kept(b)'
  BY <1>1 DEF DaemonStep, Lock, Refused, Adopt, RemoveStale, Bind, StartJob, Collect, Unlink,
    Release, Foreground, Interrupt, Die, Stick, Unstick, Goes, state, ask
<1>2. ASSUME NEW a \in Admin, Requests(a) PROVE Kept(b)'
  BY <1>2 DEF Requests, Start, CleanLock, Stop, Restart, Reachable, Begins, Turns, Goes, state
<1>3. ASSUME NEW a \in Admin, CommandStep(a) \/ Deadline(a) \/ Abandon(a)
      PROVE  Kept(b)'
  BY <1>3 DEF CommandStep, Welcome, Spawn, SpawnFails, Unanswered, Look, ChildDead, Kill, Reap, Await,
    Probed, CleanCheck, Swept, Deadline, Abandon, Reports, Turns, Goes, state, ask
<1>4. CASE WorkerEnds
  BY <1>4 DEF WorkerEnds, ask
<1>5. CASE UNCHANGED vars
  BY <1>5 DEF vars, state, ask
<1> QED
  BY <1>1, <1>2, <1>3, <1>4, <1>5 DEF Next

LEMMA DeadStays ==
  ASSUME TypeOK, [Next]_vars, NEW x \in Process, proc[x] = "dead"
  PROVE  proc'[x] = "dead"
<1> USE DEF TypeOK
<1>1. ASSUME NEW p \in Process, DaemonStep(p) \/ Foreground(p) \/ Interrupt(p) \/ Die(p)
           \/ Stick(p) \/ Unstick(p)
      PROVE  proc'[x] = "dead"
  BY <1>1 DEF DaemonStep, Lock, Refused, Adopt, RemoveStale, Bind, StartJob, Collect, Unlink,
    Release, Foreground, Interrupt, Die, Stick, Unstick, Goes, state, ask
<1>2. ASSUME NEW a \in Admin, Requests(a) PROVE proc'[x] = "dead"
  BY <1>2 DEF Requests, Start, CleanLock, Stop, Restart, Reachable, Begins, Turns, Goes, state
<1>3. ASSUME NEW a \in Admin, CommandStep(a) \/ Deadline(a) \/ Abandon(a)
      PROVE  proc'[x] = "dead"
  BY <1>3 DEF CommandStep, Welcome, Spawn, SpawnFails, Unanswered, Look, ChildDead, Kill, Reap, Await,
    Probed, CleanCheck, Swept, Deadline, Abandon, Reports, Turns, Goes, state, ask
<1>4. CASE WorkerEnds
  BY <1>4 DEF WorkerEnds, ask
<1>5. CASE UNCHANGED vars
  BY <1>5 DEF vars, state, ask
<1> QED
  BY <1>1, <1>2, <1>3, <1>4, <1>5 DEF Next

LEMMA BlockerStep ==
  ASSUME TypeOK, [Next]_vars, NEW x \in Process
  PROVE  \/ blocker'[x] = blocker[x]
         \/ proc[x] = "boot" /\ proc'[x] = "dead" /\ blocker'[x] = lock
<1> DEFINE Goal ==
  \/ blocker'[x] = blocker[x]
  \/ proc[x] = "boot" /\ proc'[x] = "dead" /\ blocker'[x] = lock
<1> USE DEF TypeOK
<1>1. ASSUME NEW p \in Process, DaemonStep(p) \/ Foreground(p) \/ Interrupt(p) \/ Die(p)
           \/ Stick(p) \/ Unstick(p)
      PROVE  Goal
  BY <1>1 DEF DaemonStep, Lock, Refused, Adopt, RemoveStale, Bind, StartJob, Collect, Unlink,
    Release, Foreground, Interrupt, Die, Stick, Unstick, Goes, state, ask
<1>2. ASSUME NEW a \in Admin, Requests(a) PROVE Goal
  BY <1>2 DEF Requests, Start, CleanLock, Stop, Restart, Reachable, Begins, Turns, Goes, state
<1>3. ASSUME NEW a \in Admin, CommandStep(a) \/ Deadline(a) \/ Abandon(a)
      PROVE  Goal
  BY <1>3 DEF CommandStep, Welcome, Spawn, SpawnFails, Unanswered, Look, ChildDead, Kill, Reap, Await,
    Probed, CleanCheck, Swept, Deadline, Abandon, Reports, Turns, Goes, state, ask
<1>4. CASE WorkerEnds
  BY <1>4 DEF WorkerEnds, ask
<1>5. CASE UNCHANGED vars
  BY <1>5 DEF vars, state, ask
<1> QED
  BY <1>1, <1>2, <1>3, <1>4, <1>5 DEF Next

\* A command goes on with its child and its predecessor, begins, or has just spawned.
LEMMA CommandChange ==
  ASSUME TypeOK, Progress, [Next]_vars, NEW b \in Admin
  PROVE  \/ pred'[b] = pred[b] /\ cmd'[b] = cmd[b] /\ child'[b] = child[b]
         \/ cmd'[b] = "restart" /\ admin'[b] = "await" /\ child'[b] = {}
         \/ cmd'[b] \in {"start", "stop", "clean"} /\ child'[b] = {}
         \/ /\ pred'[b] = pred[b] /\ cmd'[b] = cmd[b] /\ admin[b] = "begin"
            /\ \E p \in Process : child'[b] = {p} /\ proc[p] = "unborn"
<1> DEFINE Goal ==
  \/ pred'[b] = pred[b] /\ cmd'[b] = cmd[b] /\ child'[b] = child[b]
  \/ cmd'[b] = "restart" /\ admin'[b] = "await" /\ child'[b] = {}
  \/ cmd'[b] \in {"start", "stop", "clean"} /\ child'[b] = {}
  \/ /\ pred'[b] = pred[b] /\ cmd'[b] = cmd[b] /\ admin[b] = "begin"
     /\ \E p \in Process : child'[b] = {p} /\ proc[p] = "unborn"
<1> USE DEF TypeOK, Progress
<1>1. ASSUME NEW p \in Process, DaemonStep(p) \/ Foreground(p) \/ Interrupt(p) \/ Die(p)
           \/ Stick(p) \/ Unstick(p)
      PROVE  Goal
  BY <1>1 DEF DaemonStep, Lock, Refused, Adopt, RemoveStale, Bind, StartJob, Collect, Unlink,
    Release, Foreground, Interrupt, Die, Stick, Unstick, Goes, state, ask
<1>2. ASSUME NEW a \in Admin, Requests(a) PROVE Goal
  BY <1>2 DEF Requests, Start, CleanLock, Stop, Restart, Reachable, Begins, Turns, Goes, state
<1>3. ASSUME NEW a \in Admin, CommandStep(a) \/ Deadline(a) \/ Abandon(a)
      PROVE  Goal
  BY <1>3 DEF CommandStep, Welcome, Spawn, SpawnFails, Unanswered, Look, ChildDead, Kill, Reap, Await,
    Probed, CleanCheck, Swept, Deadline, Abandon, Reports, Turns, Goes, state, ask
<1>4. CASE WorkerEnds
  BY <1>4 DEF WorkerEnds, ask
<1>5. CASE UNCHANGED vars
  BY <1>5 DEF vars, state, ask
<1> QED
  BY <1>1, <1>2, <1>3, <1>4, <1>5 DEF Next

\* A restart that goes past its wait has seen the lock free.
LEMMA WaitEnds ==
  ASSUME TypeOK, [Next]_vars, NEW b \in Admin,
         admin'[b] \in {"probe", "begin", "ask", "look", "kill", "reap"}
  PROVE  \/ admin[b] \in {"probe", "begin", "ask", "look", "kill", "reap"}
         \/ cmd'[b] = "start"
         \/ admin[b] = "await" /\ lock = {}
<1> DEFINE Goal ==
  \/ admin[b] \in {"probe", "begin", "ask", "look", "kill", "reap"}
  \/ cmd'[b] = "start"
  \/ admin[b] = "await" /\ lock = {}
<1> USE DEF TypeOK
<1>1. ASSUME NEW p \in Process, DaemonStep(p) \/ Foreground(p) \/ Interrupt(p) \/ Die(p)
           \/ Stick(p) \/ Unstick(p)
      PROVE  Goal
  BY <1>1 DEF DaemonStep, Lock, Refused, Adopt, RemoveStale, Bind, StartJob, Collect, Unlink,
    Release, Foreground, Interrupt, Die, Stick, Unstick, Goes, state, ask
<1>2. ASSUME NEW a \in Admin, Requests(a) PROVE Goal
  BY <1>2 DEF Requests, Start, CleanLock, Stop, Restart, Reachable, Begins, Turns, Goes, state
<1>3. ASSUME NEW a \in Admin, CommandStep(a) \/ Deadline(a) \/ Abandon(a)
      PROVE  Goal
  BY <1>3 DEF CommandStep, Welcome, Spawn, SpawnFails, Unanswered, Look, ChildDead, Kill, Reap, Await,
    Probed, CleanCheck, Swept, Deadline, Abandon, Reports, Turns, Goes, state, ask
<1>4. CASE WorkerEnds
  BY <1>4 DEF WorkerEnds, ask
<1>5. CASE UNCHANGED vars
  BY <1>5 DEF vars, state, ask
<1> QED
  BY <1>1, <1>2, <1>3, <1>4, <1>5 DEF Next

LEMMA SuccessionStep ==
  TypeOK /\ Ownership /\ Recording /\ Progress /\ Succession /\ [Next]_vars => Succession'
<1> SUFFICES ASSUME TypeOK, Ownership, Recording, Progress, Succession, [Next]_vars
             PROVE  Succession'
  OBVIOUS
<1>1. \A x \in Process : blocker'[x] # {} => proc'[x] = "dead"
  BY BlockerStep, DeadStays DEF Succession
<1>2. ASSUME NEW b \in Admin, cmd'[b] = "restart",
             admin'[b] \in {"probe", "begin", "ask", "look", "kill", "reap"} \/ child'[b] # {},
             NEW q \in pred'[b]
      PROVE  proc'[q] = "dead"
  <2>1. pred'[b] = pred[b] /\ cmd[b] = "restart"
    BY <1>2, CommandChange
  <2>2. q \in Process
    BY <1>2, <2>1 DEF TypeOK
  <2>3. admin[b] \in {"probe", "begin", "ask", "look", "kill", "reap"} \/ child[b] # {}
        \/ (admin[b] = "await" /\ lock = {})
    BY <1>2, CommandChange, WaitEnds
  <2>4. proc[q] = "dead"
    <3>1. CASE admin[b] = "await" /\ lock = {}
      BY <1>2, <2>1, <2>2, <3>1 DEF Recording, Ownership, Owning
    <3> QED
      BY <1>2, <2>1, <2>3, <3>1 DEF Succession
  <2> QED
    BY <2>2, <2>4, DeadStays
<1> QED
  BY <1>1, <1>2 DEF Succession

LEMMA HandOverStep ==
  TypeOK /\ Ownership /\ Progress /\ Succession /\ RestartHandsOver /\ [Next]_vars
    => RestartHandsOver'
<1> SUFFICES ASSUME TypeOK, Ownership, Progress, Succession, RestartHandsOver, [Next]_vars,
                    NEW b \in Admin, cmd'[b] = "restart", NEW x \in child'[b]
             PROVE  blocker'[x] \cap pred'[b] = {}
  BY DEF RestartHandsOver
<1>1. pred'[b] = pred[b] /\ cmd[b] = "restart" /\ pred[b] \subseteq Process
  BY CommandChange DEF TypeOK
<1>2. CASE child'[b] = child[b]
  <2>1. x \in Process /\ blocker[x] \cap pred[b] = {}
    BY <1>1, <1>2 DEF RestartHandsOver, TypeOK
  <2>2. CASE blocker'[x] = blocker[x]
    BY <1>1, <2>1, <2>2
  <2>3. CASE blocker'[x] = lock
    <3>1. \A q \in pred[b] : proc[q] = "dead"
      BY <1>1, <1>2 DEF Succession
    <3>2. \A q \in pred[b] : q \notin lock
      BY <1>1, <3>1 DEF Ownership, Owning
    <3> QED
      BY <1>1, <2>3, <3>2
  <2> QED
    BY <2>1, <2>2, <2>3, BlockerStep
<1>3. CASE admin[b] = "begin" /\ \E p \in Process : child'[b] = {p} /\ proc[p] = "unborn"
  <2>1. x \in Process /\ proc[x] = "unborn"
    BY <1>3
  <2>2. blocker[x] = {} /\ blocker'[x] = blocker[x]
    BY <2>1, BlockerStep DEF Succession
  <2> QED
    BY <2>2
<1> QED
  BY <1>2, <1>3, CommandChange

\* A failure is reported when there is no child or it is dead.
LEMMA FailureStep ==
  ASSUME TypeOK, Progress, [Next]_vars, NEW b \in Admin, said'[b] = "failure"
  PROVE  /\ child'[b] = child[b]
         /\ said[b] = "failure" \/ \A x \in child[b] : proc'[x] = "dead"
<1> DEFINE Goal == /\ child'[b] = child[b]
                   /\ said[b] = "failure" \/ \A x \in child[b] : proc'[x] = "dead"
<1> USE DEF TypeOK, Progress
<1>1. ASSUME NEW p \in Process, DaemonStep(p) \/ Foreground(p) \/ Interrupt(p) \/ Die(p)
           \/ Stick(p) \/ Unstick(p)
      PROVE  Goal
  BY <1>1 DEF DaemonStep, Lock, Refused, Adopt, RemoveStale, Bind, StartJob, Collect, Unlink,
    Release, Foreground, Interrupt, Die, Stick, Unstick, Goes, state, ask
<1>2. ASSUME NEW a \in Admin, Requests(a) PROVE Goal
  BY <1>2 DEF Requests, Start, CleanLock, Stop, Restart, Reachable, Begins, Turns, Goes, state
<1>3. ASSUME NEW a \in Admin, CommandStep(a) \/ Deadline(a) \/ Abandon(a)
      PROVE  Goal
  BY <1>3 DEF CommandStep, Welcome, Spawn, SpawnFails, Unanswered, Look, ChildDead, Kill, Reap, Await,
    Probed, CleanCheck, Swept, Deadline, Abandon, Reports, Turns, Goes, state, ask
<1>4. CASE WorkerEnds
  BY <1>4 DEF WorkerEnds, ask
<1>5. CASE UNCHANGED vars
  BY <1>5 DEF vars, state, ask
<1> QED
  BY <1>1, <1>2, <1>3, <1>4, <1>5 DEF Next

LEMMA AnnouncedStep ==
  TypeOK /\ Progress /\ NoUnannouncedDaemon /\ [Next]_vars => NoUnannouncedDaemon'
<1> SUFFICES ASSUME TypeOK, Progress, NoUnannouncedDaemon, [Next]_vars,
                    NEW b \in Admin, said'[b] = "failure", NEW x \in child'[b]
             PROVE  proc'[x] = "dead"
  BY DEF NoUnannouncedDaemon
<1>1. x \in child[b] /\ x \in Process
  BY FailureStep DEF TypeOK
<1> QED
  BY <1>1, FailureStep, DeadStays DEF NoUnannouncedDaemon

-----------------------------------------------------------------------------
LEMMA InitInv == Init => IndInv
<1> SUFFICES ASSUME Init PROVE IndInv
  OBVIOUS
<1> USE DEF Init
<1>1. TypeOK
  BY LifecycleAssumption DEF TypeOK, Owning, Calling, Probing
<1>2. Ownership
  BY DEF Ownership, Owning, Probing
<1>3. SocketReachable /\ Recording
  BY DEF SocketReachable, Recording
<1>4. Succession /\ RestartHandsOver /\ Progress /\ NoUnannouncedDaemon
  BY DEF Succession, RestartHandsOver, Progress, NoUnannouncedDaemon
<1> QED
  BY <1>1, <1>2, <1>3, <1>4 DEF IndInv

LEMMA NextInv == IndInv /\ [Next]_vars => IndInv'
BY TypeStep, OwnershipStep, SocketStep, RecordingStep, SuccessionStep, HandOverStep,
  ProgressStep, AnnouncedStep DEF IndInv

\* The invariant of daemons, lock, socket and commands holds for any number of each.
THEOREM Invariance == Spec => []IndInv
BY InitInv, NextInv, PTL DEF Spec

\* Every daemon in its loop owns the socket that clients find.
THEOREM SocketIsReachable == Spec => []SocketReachable
<1>1. IndInv => SocketReachable
  BY DEF IndInv
<1> QED
  BY <1>1, Invariance, PTL

\* clean never removes a log while a worker is alive.
THEOREM CleanIsSafe == Spec => []CleanSparesWorkers
<1>1. IndInv => CleanSparesWorkers
  BY DEF IndInv, Recording, CleanSparesWorkers
<1> QED
  BY <1>1, Invariance, PTL

\* A daemon that accepted a restart has no worker until it is gone.
THEOREM RestartFindsNoWorker == Spec => []RestartIsIdle
<1>1. IndInv => RestartIsIdle
  <2> SUFFICES ASSUME IndInv, NEW a \in Admin, admin[a] = "await", lock = pred[a]
               PROVE  ~live
    BY DEF RestartIsIdle
  <2>1. PICK q \in Process : /\ pred[a] = {q}
                             /\ proc[q] # "dead" => ~recorded
    BY DEF IndInv, Recording
  <2>2. lock = {q}
    BY <2>1
  <2>3. proc[q] \in Owning
    BY <2>2 DEF IndInv, Ownership
  <2>4. ~recorded
    BY <2>1, <2>3 DEF Owning
  <2> QED
    BY <2>4 DEF IndInv, Recording
<1> QED
  BY <1>1, Invariance, PTL

\* The daemon that restart starts is never refused because of the one it replaces.
THEOREM RestartSucceeds == Spec => []RestartHandsOver
<1>1. IndInv => RestartHandsOver
  BY DEF IndInv
<1> QED
  BY <1>1, Invariance, PTL

\* A start that reported failure leaves no daemon behind.
THEOREM FailureLeavesNothing == Spec => []NoUnannouncedDaemon
<1>1. IndInv => NoUnannouncedDaemon
  BY DEF IndInv
<1> QED
  BY <1>1, Invariance, PTL
=============================================================================
