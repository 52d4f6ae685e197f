-------------------------- MODULE RefinementProofs --------------------------
(***************************************************************************)
(* The scheduler implements its abstract specifications for any number of  *)
(* jobs and devices: WorkerContract whatever fails, JobLifecycle as long   *)
(* as no write fails and leaves the daemon running, and then clients are   *)
(* never shown two outcomes of one job.                                    *)
(***************************************************************************)
EXTENDS SchedulerRefinement, SchedulerProofs, Clients

\* A job has had a worker exactly if one was launched.
Started == \A i \in Id : launched[i] = 0 <=> worker[i] = "none"

LEMMA StartedStep == IndInv /\ Started /\ [Next]_vars => Started'
<1> SUFFICES ASSUME IndInv, Started, [Next]_vars PROVE Started'
  OBVIOUS
<1>0. TypeOK
  BY DEF IndInv
<1>1. CASE Spawn
  <2>1. cur \in Id /\ launched[cur] = 0
    BY <1>1 DEF Spawn, IndInv, InFlight
  <2> QED
    BY <1>0, <1>1, <2>1 DEF Spawn, Started, TypeOK
<1>2. CASE \E i \in Id : Exit(i)
  <2>1. PICK i \in Id : Exit(i)
    BY <1>2
  <2> QED
    BY <1>0, <2>1 DEF Exit, Started, TypeOK, observed
<1>3. CASE UNCHANGED <<worker, launched>>
  BY <1>3 DEF Started
<1>4. Spawn \/ (\E i \in Id : Exit(i)) \/ UNCHANGED <<worker, launched>>
  BY DEF Next, DaemonStep, Request, Boot, Crash, Stop, Restart, Die, Poll, Skip, Place,
    StartFails, EndTick, Clean, CleanFails, Submit, SubmitFails, CancelPending,
    CancelPendingFails, CancelRunning, Exclude, Include, Refresh, Report, vars, files, observed
<1> QED
  BY <1>1, <1>2, <1>3, <1>4

\* What cleanup deletes belongs to a job whose worker is gone or never was.
LEMMA DeleteStep ==
  ASSUME IndInv, Started, Clean \/ CleanFails, NEW i \in Id
  PROVE  /\ UNCHANGED worker
         /\ result'[i] = result[i] \/ (worker[i] = "gone" /\ result'[i] = {})
<1>0. Up /\ TypeOK /\ UNCHANGED worker
  BY DEF Clean, CleanFails, Up, IndInv
<1>1. PICK jobs \in SUBSET Finished(mem) : Delete(jobs)
  BY DEF Clean, CleanFails
<1>2. i \in Finished(mem) => worker[i] # "live"
  <2> SUFFICES ASSUME i \in Finished(mem), i \in Live PROVE FALSE
    BY DEF Live
  <2>1. mem.jobs[i] = disk.jobs[i] /\ disk.jobs[i].state = "RUNNING"
    BY <1>0, RunningAgree DEF IndInv, LiveIsRecorded
  <2> QED
    BY <2>1 DEF Finished, Terminal
<1>3. worker[i] = "none" => result[i] = {}
  BY <1>0 DEF IndInv, LaunchRecorded, Started, TypeOK
<1>4. worker[i] \in {"none", "live", "gone"}
  BY <1>0 DEF TypeOK
<1>5. result'[i] = IF i \in jobs THEN {} ELSE result[i]
  BY <1>1 DEF Delete
<1> QED
  BY <1>0, <1>1, <1>2, <1>3, <1>4, <1>5

LEMMA ContractStep ==
  ASSUME IndInv, Started, [Next]_vars, NEW i \in Id
  PROVE  [Contract(i)!Next]_(Contract(i)!contract)
<1> SUFFICES Contract(i)!Next \/ (UNCHANGED worker[i] /\ UNCHANGED result[i])
  BY DEF Contract!contract
<1>0. TypeOK
  BY DEF IndInv
<1>1. CASE Spawn
  <2>1. cur \in Id /\ worker[cur] = "none"
    BY <1>1 DEF Spawn, IndInv, InFlight, Started
  <2>2. i = cur => Contract(i)!Start
    BY <1>0, <1>1, <2>1 DEF Spawn, Contract!Start, TypeOK
  <2>3. i # cur => UNCHANGED worker[i] /\ UNCHANGED result[i]
    BY <1>0, <1>1, <2>1 DEF Spawn, TypeOK
  <2> QED
    BY <2>2, <2>3 DEF Contract!Next
<1>2. CASE \E j \in Id : Exit(j)
  <2>1. PICK j \in Id : Exit(j)
    BY <1>2
  <2>2. i = j => Contract(i)!Exit
    BY <1>0, <2>1 DEF Exit, Contract!Exit, TypeOK
  <2>3. i # j => UNCHANGED worker[i] /\ UNCHANGED result[i]
    BY <1>0, <2>1 DEF Exit, TypeOK
  <2> QED
    BY <2>2, <2>3 DEF Contract!Next
<1>3. CASE \E j \in Id : Report(j)
  <2>1. PICK j \in Id : Report(j)
    BY <1>3
  <2>2. i = j => Contract(i)!Report
    BY <1>0, <2>1, SchedulerAssumption DEF Report, Contract!Report, TypeOK
  <2>3. i # j => UNCHANGED worker[i] /\ UNCHANGED result[i]
    BY <1>0, <2>1 DEF Report, TypeOK
  <2> QED
    BY <2>2, <2>3 DEF Contract!Next
<1>4. CASE Clean \/ CleanFails
  BY <1>4, DeleteStep DEF Contract!Next, Contract!Forget
<1>5. CASE UNCHANGED <<worker, result>>
  BY <1>5
<1>6. \/ Spawn \/ (\E j \in Id : Exit(j)) \/ (\E j \in Id : Report(j))
      \/ Clean \/ CleanFails \/ UNCHANGED <<worker, result>>
  BY DEF Next, DaemonStep, Request, Boot, Crash, Stop, Restart, Die, Poll, Skip, Place,
    StartFails, EndTick, Submit, SubmitFails, CancelPending, CancelPendingFails,
    CancelRunning, Exclude, Include, Refresh, vars, files, observed
<1> QED
  BY <1>1, <1>2, <1>3, <1>4, <1>5, <1>6

\* The scheduler keeps its side of the contract with every worker: it starts one per job and
\* deletes a result (cleanup, scheduler.rs:84-124) only after the lock was released, whatever
\* daemons die and writes fail.
THEOREM SchedulerKeepsContract == Spec => KeepsContract
<1> DEFINE Steps == \A i \in Id : [Contract(i)!Next]_(Contract(i)!contract)
<1>1. Init => Started /\ \A i \in Id : Contract(i)!Init
  BY DEF Init, Started, Contract!Init
<1>2. IndInv /\ Started /\ [Next]_vars => [Steps]_vars
  BY ContractStep
<1> QED
  BY <1>1, <1>2, StartedStep, Invariance, PTL DEF Spec, KeepsContract

-----------------------------------------------------------------------------
(***************************************************************************)
(* Without failing writes memory and state.json say the same of every job. *)
(***************************************************************************)
Exact == Up => \A i \in Id : mem.jobs[i] = disk.jobs[i]

LEMMA ExactStep == ~SaveFails /\ IndInv /\ Exact /\ [Next]_vars => Exact'
<1> SUFFICES ASSUME ~SaveFails, IndInv, Exact, [Next]_vars, Up', NEW i \in Id
             PROVE  mem'.jobs[i] = disk'.jobs[i]
  BY DEF Exact
<1>0. TypeOK
  BY DEF IndInv
<1>1. CASE Boot
  BY <1>1 DEF Boot
<1>2. CASE Poll
  <2>1. Ended = {} => mem'.jobs[i] = mem.jobs[i] /\ UNCHANGED disk
    BY <1>0, <1>2, CollectedJobs DEF Poll
  <2> QED
    BY <1>2, <2>1 DEF Poll, Exact, Up
<1>3. CASE Clean
  <2>1. PICK expired \in SUBSET Finished(mem) :
          mem' = Forget(expired) /\ disk' = IF expired = {} THEN disk ELSE mem'
    BY <1>3 DEF Clean
  <2>2. expired = {} => mem'.jobs[i] = mem.jobs[i]
    BY <1>0, <2>1, ForgetJobs DEF TypeOK
  <2> QED
    BY <1>3, <2>1, <2>2 DEF Clean, Exact, Up
<1>4. CASE Place \/ StartFails \/ (\E s \in Submissions : Submit(s)) \/ \E j \in Id : CancelPending(j)
  BY <1>4 DEF Place, StartFails, Submit, CancelPending
<1>5. CASE Up /\ UNCHANGED <<mem, disk>>
  BY <1>5 DEF Exact
<1>6. \/ Boot \/ Poll \/ Clean \/ Place \/ StartFails \/ (\E s \in Submissions : Submit(s))
      \/ (\E j \in Id : CancelPending(j)) \/ (Up /\ UNCHANGED <<mem, disk>>)
      \/ (Up' = Up /\ UNCHANGED <<mem, disk>>)
  BY DEF Up, Next, DaemonStep, Request, Crash, Stop, Restart, Die, Skip, Spawn, EndTick, CleanFails,
    SubmitFails, CancelPendingFails, CancelRunning, Exclude, Include, Refresh, Report, Exit,
    vars, volatile, config, observed
<1> QED
  BY <1>1, <1>2, <1>3, <1>4, <1>5, <1>6

-----------------------------------------------------------------------------
(***************************************************************************)
(* Every step is a step, or nothing, in the life of every job.             *)
(***************************************************************************)
LEMMA LifeStays ==
  ASSUME NEW i \in Id, disk'.jobs[i] = disk.jobs[i], acked'[i] = acked[i], launched'[i] = launched[i]
  PROVE  [Lifecycle(i)!Next]_(Lifecycle(i)!job)
BY DEF Lifecycle!job

LEMMA LifeStep ==
  ASSUME ~SaveFails, IndInv, Exact, [Next]_vars, NEW i \in Id
  PROVE  [Lifecycle(i)!Next]_(Lifecycle(i)!job)
<1> USE DEF Lifecycle!Next
<1>0. TypeOK /\ mem \in Store /\ mem.jobs[i] \in Job
  BY DEF IndInv, TypeOK, Store
<1>1. CASE Poll
  <2>1. Up /\ mem.jobs[i] = disk.jobs[i] /\ UNCHANGED <<acked, launched>>
    BY <1>1 DEF Poll, Up, Exact, observed
  <2>2. CASE Ended # {} /\ i \in Ended
    <3>1. disk'.jobs[i] = [mem.jobs[i] EXCEPT !.state = Outcome(i)]
      BY <1>0, <1>1, <2>2, CollectedJobs DEF Poll
    <3>2. mem.jobs[i].state = "RUNNING" /\ Outcome(i) \in Terminal
      BY <1>0, <2>2, OutcomeType DEF Ended, Running, InState
    <3>3. disk'.jobs[i].state \in Terminal /\ disk'.jobs[i].devices = disk.jobs[i].devices
      BY <1>0, <2>1, <3>1, <3>2 DEF Job
    <3> QED
      BY <2>1, <3>2, <3>3 DEF Lifecycle!End
  <2>3. CASE i \notin Ended
    <3>1. disk'.jobs[i] = disk.jobs[i]
      BY <1>0, <1>1, <2>1, <2>3, CollectedJobs DEF Poll
    <3> QED
      BY <2>1, <3>1, LifeStays
  <2> QED
    BY <2>2, <2>3
<1>2. CASE Place
  <2>1. PICK j \in Heads : \E devices \in Offer(j) :
          mem' = Assigned(j, devices) /\ cur' = j /\ todo' = todo \ {j}
    BY <1>2 DEF Place
  <2>2. PICK devices \in Offer(j) : mem' = Assigned(j, devices)
    BY <2>1
  <2>3. Up /\ disk' = Assigned(j, devices) /\ mem.jobs[i] = disk.jobs[i] /\ UNCHANGED <<acked, launched>>
    BY <1>2, <2>2 DEF Place, Up, Exact, observed
  <2>4. j \in Id /\ mem.jobs[j].state = "PENDING"
    BY <1>0 DEF Heads, TypeOK, IndInv, InFlight
  <2>5. devices \in SUBSET Device
    <3>1. devices \subseteq pool
      BY <2>2, AllocateSound DEF Offer
    <3> QED
      BY <1>0, <3>1 DEF TypeOK
  <2>6. disk'.jobs[i] =
          IF i = j THEN [mem.jobs[j] EXCEPT !.state = "RUNNING", !.devices = devices] ELSE mem.jobs[i]
    BY <1>0, <2>3, <2>4, <2>5, AssignedJobs
  <2>7. CASE i = j
    <3>1. launched[i] = 0 /\ disk.jobs[i].state = "PENDING"
      BY <2>3, <2>4, <2>7, RunningAgree
    <3>2. disk'.jobs[i].state = "RUNNING" /\ disk'.jobs[i].devices = devices
      BY <1>0, <2>6, <2>7 DEF Job
    <3> QED
      BY <2>3, <2>5, <3>1, <3>2 DEF Lifecycle!Grant
  <2>8. CASE i # j
    BY <2>3, <2>6, <2>8, LifeStays
  <2> QED
    BY <2>7, <2>8
<1>3. CASE Spawn
  <2>1. Up /\ cur \in Id /\ mem.jobs[cur].state = "RUNNING" /\ launched[cur] = 0
        /\ mem.jobs[cur] = disk.jobs[cur]
    BY <1>3 DEF Spawn, Up, IndInv, InFlight, Exact
  <2>2. UNCHANGED <<disk, acked>> /\ launched' = [launched EXCEPT ![cur] = @ + 1]
    BY <1>3 DEF Spawn
  <2>3. CASE i = cur
    <3>1. launched'[i] = 1
      BY <1>0, <2>1, <2>2, <2>3 DEF TypeOK
    <3> QED
      BY <2>1, <2>2, <2>3, <3>1 DEF Lifecycle!Run
  <2>4. CASE i # cur
    <3>1. launched'[i] = launched[i]
      BY <1>0, <2>2, <2>4 DEF TypeOK
    <3> QED
      BY <2>2, <3>1, LifeStays
  <2> QED
    BY <2>3, <2>4
<1>4. CASE StartFails
  <2>1. Up /\ disk' = SetState(mem, cur, "FAILED") /\ mem.jobs[i] = disk.jobs[i]
        /\ UNCHANGED <<acked, launched>>
    BY <1>4 DEF StartFails, Up, Exact, observed
  <2>2. cur \in Id /\ mem.jobs[cur].state = "RUNNING"
    BY <1>4 DEF StartFails, IndInv, InFlight
  <2>3. "FAILED" \in States
    BY DEF States, Terminal
  <2>4. disk'.jobs[i] = IF i = cur THEN [mem.jobs[cur] EXCEPT !.state = "FAILED"] ELSE mem.jobs[i]
    BY <1>0, <2>1, <2>2, <2>3, SetStateJobs
  <2>5. CASE i = cur
    <3>1. disk'.jobs[i].state = "FAILED" /\ disk'.jobs[i].devices = disk.jobs[i].devices
      BY <1>0, <2>1, <2>4, <2>5 DEF Job
    <3> QED
      BY <2>1, <2>2, <2>5, <3>1 DEF Lifecycle!End, Terminal
  <2>6. CASE i # cur
    BY <2>1, <2>4, <2>6, LifeStays
  <2> QED
    BY <2>5, <2>6
<1>5. CASE Clean
  <2>1. PICK expired \in SUBSET Finished(mem) :
          mem' = Forget(expired) /\ disk' = IF expired = {} THEN disk ELSE mem'
    BY <1>5 DEF Clean
  <2>2. Up /\ mem.jobs[i] = disk.jobs[i] /\ UNCHANGED <<acked, launched>>
    BY <1>5 DEF Clean, Up, Exact
  <2>3. disk'.jobs[i] = IF i \in expired THEN NoJob ELSE disk.jobs[i]
    <3>1. expired \in SUBSET Id
      BY DEF Finished
    <3>2. Forget(expired).jobs[i] = IF i \in expired THEN NoJob ELSE mem.jobs[i]
      BY <1>0, <3>1, ForgetJobs
    <3> QED
      BY <2>1, <2>2, <3>2
  <2>4. CASE i \in expired
    BY <2>2, <2>3, <2>4 DEF Lifecycle!Expire, Finished, NoJob
  <2>5. CASE i \notin expired
    BY <2>2, <2>3, <2>5, LifeStays
  <2> QED
    BY <2>4, <2>5
<1>6. CASE \E s \in Submissions : Submit(s)
  <2>1. PICK s \in Submissions : Submit(s)
    BY <1>6
  <2>2. Up /\ mem.next_id < MaxId /\ mem.jobs[i] = disk.jobs[i] /\ UNCHANGED launched
        /\ acked \in [Id -> SUBSET Submission]
    BY <1>0, <2>1 DEF Submit, Submittable, Up, Exact, TypeOK
  <2>3. /\ mem.next_id + 1 \in Id
        /\ Submitted(s).next_id = mem.next_id + 1
        /\ Submitted(s).jobs[i] =
             IF i = mem.next_id + 1
             THEN [state |-> "PENDING", spec |-> Pinned(s, pool), devices |-> {}]
             ELSE mem.jobs[i]
    BY <1>0, <2>2, SubmittedJobs
  <2>4. acked' = [acked EXCEPT ![mem.next_id + 1] = @ \cup {Pinned(s, pool)}]
        /\ disk' = Submitted(s)
    BY <2>1, <2>3 DEF Submit
  <2>5. CASE i = mem.next_id + 1
    <3>1. disk.jobs[i].state = "ABSENT" /\ acked[i] = {}
      BY <2>2, <2>5, NextIdFresh
    <3>2. acked'[i] # {}
      BY <2>2, <2>4, <2>5
    <3>3. disk'.jobs[i].state = "PENDING" /\ disk'.jobs[i].devices = {}
      BY <2>3, <2>4, <2>5
    <3> QED
      BY <2>2, <3>1, <3>2, <3>3 DEF Lifecycle!Accept
  <2>6. CASE i # mem.next_id + 1
    <3>1. acked'[i] = acked[i]
      BY <2>2, <2>3, <2>4, <2>6
    <3> QED
      BY <2>2, <2>3, <2>4, <2>6, <3>1, LifeStays
  <2> QED
    BY <2>5, <2>6
<1>7. CASE \E j \in Id : CancelPending(j)
  <2>1. PICK j \in Id : CancelPending(j)
    BY <1>7
  <2>2. Up /\ disk' = SetState(mem, j, "CANCELLED") /\ mem.jobs[j].state = "PENDING"
        /\ mem.jobs[i] = disk.jobs[i] /\ UNCHANGED <<acked, launched>>
    BY <2>1 DEF CancelPending, Up, Exact, observed
  <2>3. "CANCELLED" \in States
    BY DEF States, Terminal
  <2>4. disk'.jobs[i] = IF i = j THEN [mem.jobs[j] EXCEPT !.state = "CANCELLED"] ELSE mem.jobs[i]
    BY <1>0, <2>2, <2>3, SetStateJobs
  <2>5. CASE i = j
    <3>1. disk'.jobs[i].state = "CANCELLED" /\ disk'.jobs[i].devices = disk.jobs[i].devices
      BY <1>0, <2>2, <2>4, <2>5 DEF Job
    <3> QED
      BY <2>2, <2>5, <3>1 DEF Lifecycle!End
  <2>6. CASE i # j
    BY <2>2, <2>4, <2>6, LifeStays
  <2> QED
    BY <2>5, <2>6
<1>8. CASE UNCHANGED <<disk, acked, launched>>
  BY <1>8, LifeStays
<1>9. \/ Poll \/ Place \/ Spawn \/ StartFails \/ Clean \/ (\E s \in Submissions : Submit(s))
      \/ (\E j \in Id : CancelPending(j)) \/ UNCHANGED <<disk, acked, launched>>
  BY DEF Next, DaemonStep, Request, Boot, Crash, Stop, Restart, Die, Skip, EndTick, CleanFails,
    SubmitFails, CancelPendingFails, CancelRunning, Exclude, Include, Refresh, Report, Exit,
    vars, observed
<1> QED
  BY <1>1, <1>2, <1>3, <1>4, <1>5, <1>6, <1>7, <1>8, <1>9

\* As long as no write fails and leaves the daemon running, every job lives the life its owner was
\* promised (submit, tick, cancel and cleanup of scheduler.rs), whatever daemons crash in between.
THEOREM SchedulerImplementsLifecycle ==
  ASSUME ~SaveFails
  PROVE  Spec => ImplementsLifecycle
<1> DEFINE Steps == \A i \in Id : [Lifecycle(i)!Next]_(Lifecycle(i)!job)
<1>1. Init => Exact /\ \A i \in Id : Lifecycle(i)!Init
  BY DEF Init, EmptyStore, NoJob, Exact, Up, Lifecycle!Init
<1>2. IndInv /\ Exact /\ [Next]_vars => Exact'
  BY ExactStep
<1>3. IndInv /\ Exact /\ [Next]_vars => [Steps]_vars
  BY LifeStep
<1> QED
  BY <1>1, <1>2, <1>3, Invariance, PTL DEF Spec, ImplementsLifecycle

-----------------------------------------------------------------------------
(***************************************************************************)
(* What clients were shown.                                                *)
(***************************************************************************)
\* A record belongs to a job whose owner was told its ID, and a final state that was shown is the
\* one in state.json until the record expires.
ShownIsFinal ==
  \A i \in Id :
    /\ disk.jobs[i].state # "ABSENT" => acked[i] # {}
    /\ \A s \in shown[i] : /\ s \in Terminal /\ shown[i] = {s}
                          /\ acked[i] # {} /\ disk.jobs[i].state \in {"ABSENT", s}

ClientInv == shown \in [Id -> SUBSET Terminal] /\ ShownIsFinal

\* A job whose outcome was shown cannot be started, or end, again.
LEMMA ShownStays ==
  ASSUME ~SaveFails, IndInv, Exact, ClientInv, [Next]_vars, UNCHANGED shown
  PROVE  /\ ClientInv'
         /\ \A i \in Id : launched'[i] # launched[i] => shown[i] = {}
<1> SUFFICES ASSUME NEW i \in Id
             PROVE  /\ disk'.jobs[i].state # "ABSENT" => acked'[i] # {}
                    /\ \A s \in shown[i] : acked'[i] # {} /\ disk'.jobs[i].state \in {"ABSENT", s}
                    /\ launched'[i] # launched[i] => shown[i] = {}
  BY DEF ClientInv, ShownIsFinal
<1>1. CASE Lifecycle(i)!Next
  BY <1>1 DEF ClientInv, ShownIsFinal, Lifecycle!Next, Lifecycle!Accept, Lifecycle!Grant,
    Lifecycle!Run, Lifecycle!End, Lifecycle!Expire, Terminal
<1>2. CASE UNCHANGED Lifecycle(i)!job
  BY <1>2 DEF ClientInv, ShownIsFinal, Lifecycle!job
<1> QED
  BY <1>1, <1>2, LifeStep

LEMMA GetStep ==
  ASSUME IndInv, Exact, ClientInv, NEW i \in Id, Get(i)
  PROVE  ClientInv'
<1>1. /\ mem.jobs[i].state \in Terminal /\ mem.jobs[i] = disk.jobs[i]
      /\ UNCHANGED <<disk, acked>>
      /\ shown' = [shown EXCEPT ![i] = @ \cup {mem.jobs[i].state}]
  BY DEF Get, Exact, Up, vars, observed
<1>2. shown[i] \subseteq {mem.jobs[i].state} /\ acked[i] # {}
  BY <1>1 DEF ClientInv, ShownIsFinal, Terminal
<1> QED
  BY <1>1, <1>2 DEF ClientInv, ShownIsFinal

LEMMA ClientStep ==
  ~SaveFails /\ IndInv /\ Exact /\ ClientInv /\ [ClientNext]_clientVars =>
    /\ ClientInv'
    /\ \A i \in Id : launched'[i] # launched[i] => shown[i] = {}
<1> SUFFICES ASSUME ~SaveFails, IndInv, Exact, ClientInv, [ClientNext]_clientVars
             PROVE  /\ ClientInv'
                    /\ \A i \in Id : launched'[i] # launched[i] => shown[i] = {}
  OBVIOUS
<1>1. CASE [Next]_vars /\ UNCHANGED shown
  BY <1>1, ShownStays
<1>2. CASE \E i \in Id : Get(i)
  BY <1>2, GetStep DEF Get, vars, observed
<1> QED
  BY <1>1, <1>2 DEF ClientNext, clientVars

LEMMA ClientInvariance ==
  ASSUME ~SaveFails
  PROVE  ClientSpec => [](IndInv /\ Exact /\ ClientInv)
<1>1. ClientInit => Init /\ Exact /\ ClientInv
  BY DEF ClientInit, Init, EmptyStore, NoJob, Exact, Up, ClientInv, ShownIsFinal
<1>2. [ClientNext]_clientVars => [Next]_vars
  BY DEF ClientNext, Get, clientVars
<1>3. IndInv /\ Exact /\ [Next]_vars => Exact'
  BY ExactStep
<1>4. IndInv /\ Exact /\ ClientInv /\ [ClientNext]_clientVars => ClientInv'
  BY ClientStep
<1> QED
  BY <1>1, <1>2, <1>3, <1>4, Invariance, PTL DEF Spec, ClientSpec

\* xqueue, xrun and xcancel (handle, daemon.rs) never show two different final states of one job,
\* across crashes and restarts, as long as every failing write takes the daemon with it.
THEOREM OneOutcomeIsShown ==
  ASSUME ~SaveFails
  PROVE  ClientSpec => []OneFinalState
<1>1. ClientInv => OneFinalState
  <2> SUFFICES ASSUME ClientInv, NEW i \in Id PROVE Cardinality(shown[i]) <= 1
    BY DEF OneFinalState
  <2>1. shown[i] = {} \/ \E s : shown[i] = {s}
    BY DEF ClientInv, ShownIsFinal
  <2> QED
    BY <2>1, FS_EmptySet, FS_Singleton
<1> QED
  BY <1>1, ClientInvariance, PTL

\* Nor is a job started after a client was shown that it is over (tick, scheduler.rs).
THEOREM ShownJobsStayOver ==
  ASSUME ~SaveFails
  PROVE  ClientSpec => NeverStartsOnceShown
<1> DEFINE Quiet == \A i \in Id : launched'[i] # launched[i] => shown[i] = {}
<1>1. IndInv /\ Exact /\ ClientInv /\ [ClientNext]_clientVars => [Quiet]_clientVars
  BY ClientStep
<1> QED
  BY <1>1, ClientInvariance, PTL DEF ClientSpec, NeverStartsOnceShown
=============================================================================
