----------------------------- MODULE Scheduler ------------------------------
(***************************************************************************)
(* The daemon's scheduler (scheduler.rs, driven by serve in daemon.rs)     *)
(* together with what the Executor trait promises it about the per-job     *)
(* worker processes (executor.rs).                                         *)
(*                                                                         *)
(* The daemon is one thread: boot, then forever requests / device refresh, *)
(* tick, cleanup.  It may die anywhere; what survives is state.json (disk) *)
(* and the files of the jobs directory, and workers keep running.  A step  *)
(* of the model is the code between two points where a crash or a worker   *)
(* can make a difference.  In particular a failed save in tick makes serve *)
(* return, which is a crash before or after the step that saves; a failed  *)
(* save in a request leaves the daemon running and is modelled.            *)
(***************************************************************************)
EXTENDS Allocation

CONSTANTS
  MaxId,        \* u64::MAX, the last job ID
  Submissions,  \* what clients submit
  Limits,       \* the values of --max-running a daemon may be started with
  Inventories,  \* the device sets a starting daemon may discover
  Probes,       \* the sets of devices a probe may report as "idle"
  IdLists,      \* the lists of logical IDs an administrator excludes or includes
  Outcomes,     \* the final states a worker may report
  SaveFails     \* whether a write or unlink may fail and leave the daemon running

Id == 1..MaxId
Terminal == {"COMPLETED", "FAILED", "CANCELLED", "TIMED_OUT"}

ASSUME SchedulerAssumption ==
  /\ MaxId \in Nat
  /\ Submissions \subseteq Submission
  /\ Limits \subseteq Nat \ {0}
  /\ Inventories \subseteq SUBSET Device
  /\ Probes \subseteq SUBSET Device
  /\ IdLists \subseteq SUBSET Nat
  /\ Outcomes \subseteq Terminal
  /\ SaveFails \in BOOLEAN

NoSpec == [count |-> 0, device_ids |-> {}, exclude |-> {}, kind |-> {}]
NoJob == [state |-> "ABSENT", spec |-> NoSpec, devices |-> {}]
Job == [state : {"ABSENT", "PENDING", "RUNNING"} \cup Terminal,
        spec : Submission, devices : SUBSET Device]
Store == [next_id : 0..MaxId, jobs : [Id -> Job]]
EmptyStore == [next_id |-> 0, jobs |-> [i \in Id |-> NoJob]]

VARIABLES
  daemon,    \* where the daemon's thread is
  mem,       \* Scheduler.store
  todo,      \* the rest of `pending` in tick's loop
  cur,       \* the job between its persisted intent and executor.start, or 0
  limit,     \* Scheduler.max_running
  pool,      \* Scheduler.inventory.devices
  idle,      \* the devices whose inventory.status is "idle"
  excluded,  \* Scheduler.excluded_devices
  disk,      \* state.json
  worker,    \* per job: no worker yet, one holding the lock, lock released
  spool,     \* per job: the devices {id}.json tells the worker to use
  result,    \* per job: Option, the state in {id}.result
  marker,    \* the jobs with a {id}.cancel file
  launched,  \* observation: how many workers were ever started for a job
  acked,     \* observation: Option, the submission acknowledged under an ID
  forgotten  \* observation: the jobs whose record expired

volatile == <<mem, todo, cur, limit, pool, idle, excluded>>
config == <<limit, pool, idle, excluded>>
files == <<worker, spool, result, marker>>
observed == <<launched, acked, forgotten>>
vars == <<daemon, volatile, disk, files, observed>>

TypeOK ==
  /\ daemon \in {"down", "boot", "place", "spawn", "tidy", "serve"}
  /\ mem \in Store /\ disk \in Store
  /\ todo \in SUBSET Id /\ cur \in 0..MaxId
  /\ limit \in Nat
  /\ pool \in SUBSET Device /\ idle \in SUBSET Device /\ excluded \in SUBSET Device
  /\ worker \in [Id -> {"none", "live", "gone"}]
  /\ spool \in [Id -> SUBSET Device]
  /\ result \in [Id -> SUBSET Terminal]
  /\ marker \in SUBSET Id
  /\ launched \in [Id -> Nat]
  /\ acked \in [Id -> SUBSET Submission]
  /\ forgotten \in SUBSET Id

InState(store, s) == {i \in Id : store.jobs[i].state = s}
Running == InState(mem, "RUNNING")
Finished(store) == {i \in Id : store.jobs[i].state \in Terminal}
SetState(store, i, s) == [store EXCEPT !.jobs[i].state = s]

\* Mutant of Reserved: trusts the probed status to show our own jobs too.
Mut_ReservedByStatus == excluded \cup (pool \ idle)

\* Mutant of Reserved: finished jobs keep their devices.
Mut_NeverReleased ==
  UNION {mem.jobs[i].devices : i \in Id} \cup excluded \cup (pool \ idle)

Reserved ==
  UNION {mem.jobs[i].devices : i \in Running} \cup excluded \cup (pool \ idle)

Offer(i) == Allocate(mem.jobs[i].spec, pool, Reserved)

Init ==
  /\ daemon = "down"
  /\ mem = EmptyStore /\ todo = {} /\ cur = 0
  /\ limit = 0 /\ pool = {} /\ idle = {} /\ excluded = {}
  /\ disk = EmptyStore
  /\ worker = [i \in Id |-> "none"]
  /\ spool = [i \in Id |-> {}]
  /\ result = [i \in Id |-> {}]
  /\ marker = {}
  /\ launched = [i \in Id |-> 0]
  /\ acked = [i \in Id |-> {}]
  /\ forgotten = {}

-----------------------------------------------------------------------------
(***************************************************************************)
(* Start and end of a daemon.                                              *)
(***************************************************************************)
KnownIds(ids, devices) == ids \subseteq {IdOf[d] : d \in devices}
WithIds(ids, devices) == {d \in devices : IdOf[d] \in ids}

\* serve up to the first tick: state.json is loaded, devices are discovered and
\* the -x list of the command line excluded.
Boot ==
  /\ daemon = "down" /\ daemon' = "boot"
  /\ mem' = disk
  /\ limit' \in Limits
  /\ pool' \in Inventories
  /\ \E seen \in Probes : idle' = seen \cap pool'
  /\ \E ids \in IdLists : KnownIds(ids, pool') /\ excluded' = WithIds(ids, pool')
  /\ UNCHANGED <<todo, cur, disk, files, observed>>

Die ==
  /\ daemon' = "down"
  /\ mem' = EmptyStore /\ todo' = {} /\ cur' = 0
  /\ limit' = 0 /\ pool' = {} /\ idle' = {} /\ excluded' = {}
  /\ UNCHANGED <<disk, files, observed>>

\* Killed, or an error that tick or accept propagates out of serve.
Crash == daemon # "down" /\ Die

\* Request::Stop, SIGTERM or SIGINT.
Stop == daemon = "serve" /\ Die

\* Request::Restart, refused while a job is running.
Restart == daemon = "serve" /\ Running = {} /\ Die

-----------------------------------------------------------------------------
(***************************************************************************)
(* tick: collect the workers that are done, then place pending jobs.       *)
(***************************************************************************)
\* Mutant of Ended: a durable result is taken for the end of the worker.
Mut_ResultIsEnd == {i \in Running : worker[i] # "live" \/ result[i] # {}}

\* Mutant of Ended: a worker that left no result is waited for.
Mut_EndNeedsResult == {i \in Running : worker[i] # "live" /\ result[i] # {}}

\* executor.poll: the job's lock is free.  The jobs are polled one by one; a worker that
\* exits meanwhile commutes with the polls before it, so the scan is one step.
Ended == {i \in Running : worker[i] # "live"}

\* Mutant of Outcome: a job that was asked to stop counts as cancelled.
Mut_OutcomeByMarker(i) ==
  IF i \in marker THEN "CANCELLED"
  ELSE IF result[i] = {} THEN "FAILED" ELSE CHOOSE s \in Terminal : s \in result[i]

Outcome(i) ==
  IF result[i] = {} THEN "FAILED" ELSE CHOOSE s \in Terminal : s \in result[i]

Collected ==
  [mem EXCEPT !.jobs = [i \in Id |->
     IF i \in Ended THEN [mem.jobs[i] EXCEPT !.state = Outcome(i)] ELSE mem.jobs[i]]]

\* Mutant of Poll: outcomes stay in memory until something else is saved.
Mut_PollUnsaved ==
  /\ daemon \in {"boot", "serve"} /\ daemon' = "place"
  /\ mem' = Collected
  /\ todo' = InState(mem, "PENDING")
  /\ UNCHANGED <<cur, config, disk, files, observed>>

Poll ==
  /\ daemon \in {"boot", "serve"} /\ daemon' = "place"
  /\ mem' = Collected
  /\ disk' = IF Ended # {} THEN mem' ELSE disk
  /\ todo' = InState(mem, "PENDING")
  /\ UNCHANGED <<cur, config, files, observed>>

\* Mutant of Before: submission order only.
Mut_Fifo(i, j) == i < j

\* pending.sort_by_key(Reverse(count)), stable.
Before(i, j) ==
  LET count(k) == mem.jobs[k].spec.count
  IN  count(i) > count(j) \/ (count(i) = count(j) /\ i < j)

Heads == {i \in todo : \A j \in todo \ {i} : Before(i, j)}

\* Mutant of Full: off by one.
Mut_FullLate == Cardinality(Running) > limit

Full == Cardinality(Running) >= limit

\* Mutant of Skip: stops at the first job that does not fit.
Mut_Break ==
  /\ daemon = "place" /\ ~Full
  /\ \E i \in Heads : Offer(i) = {} /\ todo' = {}
  /\ UNCHANGED <<daemon, mem, cur, config, disk, files, observed>>

Skip ==
  /\ daemon = "place" /\ ~Full
  /\ \E i \in Heads : Offer(i) = {} /\ todo' = todo \ {i}
  /\ UNCHANGED <<daemon, mem, cur, config, disk, files, observed>>

Assigned(i, devices) ==
  [mem EXCEPT !.jobs[i].state = "RUNNING", !.jobs[i].devices = devices]

\* Mutant of Place: spawns first and leaves the save to the next tick.
Mut_PlaceUnsaved ==
  /\ daemon = "place" /\ ~Full
  /\ \E i \in Heads : \E devices \in Offer(i) :
       mem' = Assigned(i, devices) /\ cur' = i /\ todo' = todo \ {i}
  /\ daemon' = "spawn"
  /\ UNCHANGED <<config, disk, files, observed>>

\* Persist intent before spawning.
Place ==
  /\ daemon = "place" /\ ~Full
  /\ \E i \in Heads : \E devices \in Offer(i) :
       mem' = Assigned(i, devices) /\ cur' = i /\ todo' = todo \ {i}
  /\ disk' = mem'
  /\ daemon' = "spawn"
  /\ UNCHANGED <<config, files, observed>>

\* executor.start succeeds: the description is written and a worker that inherits
\* the job's lock exists.
Spawn ==
  /\ daemon = "spawn" /\ daemon' = "place"
  /\ worker[cur] # "live"
  /\ worker' = [worker EXCEPT ![cur] = "live"]
  /\ spool' = [spool EXCEPT ![cur] = mem.jobs[cur].devices]
  /\ launched' = [launched EXCEPT ![cur] = @ + 1]
  /\ cur' = 0
  /\ UNCHANGED <<mem, todo, config, disk, result, marker, acked, forgotten>>

\* executor.start fails, before or after the description was written.
StartFails ==
  /\ daemon = "spawn" /\ daemon' = "place"
  /\ mem' = SetState(mem, cur, "FAILED")
  /\ disk' = mem'
  /\ spool' \in {spool, [spool EXCEPT ![cur] = mem.jobs[cur].devices]}
  /\ cur' = 0
  /\ UNCHANGED <<todo, config, worker, result, marker, observed>>

EndTick ==
  /\ daemon = "place" /\ daemon' = "tidy"
  /\ todo = {} \/ Full
  /\ todo' = {}
  /\ UNCHANGED <<mem, cur, config, disk, files, observed>>

-----------------------------------------------------------------------------
(***************************************************************************)
(* cleanup, at start-up and once a minute, always after a tick.  Which     *)
(* finished jobs are seven days old is left to the clock.                  *)
(***************************************************************************)
Forget(expired) ==
  [mem EXCEPT !.jobs = [i \in Id |-> IF i \in expired THEN NoJob ELSE mem.jobs[i]]]

Delete(jobs) ==
  /\ result' = [i \in Id |-> IF i \in jobs THEN {} ELSE result[i]]
  /\ spool' = [i \in Id |-> IF i \in jobs THEN {} ELSE spool[i]]
  /\ marker' = marker \ jobs

Clean ==
  /\ daemon = "tidy" /\ daemon' = "serve"
  /\ \E expired \in SUBSET Finished(mem) :
       /\ Delete(expired)
       /\ mem' = Forget(expired)
       /\ disk' = IF expired = {} THEN disk ELSE mem'
       /\ forgotten' = forgotten \cup expired
  /\ UNCHANGED <<todo, cur, config, worker, launched, acked>>

\* The error is only printed: some artifacts are gone, and when all are, the save
\* may have failed before or after its rename.
CleanFails ==
  /\ SaveFails
  /\ daemon = "tidy" /\ daemon' = "serve"
  /\ \E expired \in SUBSET Finished(mem) : \E deleted \in SUBSET expired :
       /\ Delete(deleted)
       /\ \/ UNCHANGED <<disk, forgotten>>
          \/ /\ deleted = expired /\ expired # {}
             /\ disk' = Forget(expired)
             /\ forgotten' = forgotten \cup expired
  /\ UNCHANGED <<mem, todo, cur, config, worker, launched, acked>>

-----------------------------------------------------------------------------
(***************************************************************************)
(* Requests (handle) and the two-second device refresh.                    *)
(***************************************************************************)
Submitted(spec) ==
  LET id == mem.next_id + 1
  IN  [next_id |-> id,
       jobs |-> [mem.jobs EXCEPT ![id] =
                   [state |-> "PENDING", spec |-> Pinned(spec, pool), devices |-> {}]]]

Submittable(spec) ==
  /\ daemon = "serve"
  /\ mem.next_id < MaxId
  /\ Accepts(spec, pool, excluded)

\* Mutant of Submit: answers before the store is saved.
Mut_SubmitUnsaved(spec) ==
  /\ Submittable(spec)
  /\ mem' = Submitted(spec)
  /\ acked' = [acked EXCEPT ![mem'.next_id] = @ \cup {Pinned(spec, pool)}]
  /\ UNCHANGED <<daemon, todo, cur, config, disk, files, launched, forgotten>>

Submit(spec) ==
  /\ Submittable(spec)
  /\ mem' = Submitted(spec)
  /\ disk' = mem'
  /\ acked' = [acked EXCEPT ![mem'.next_id] = @ \cup {Pinned(spec, pool)}]
  /\ UNCHANGED <<daemon, todo, cur, config, files, launched, forgotten>>

\* The client gets an error.  The job is popped from memory but next_id stays.
SubmitFails(spec) ==
  /\ SaveFails
  /\ Submittable(spec)
  /\ mem' = [mem EXCEPT !.next_id = @ + 1]
  /\ disk' \in {disk, Submitted(spec)}
  /\ UNCHANGED <<daemon, todo, cur, config, files, observed>>

\* Mutant of CancelPending: answers before the store is saved.
Mut_CancelUnsaved(i) ==
  /\ daemon = "serve" /\ mem.jobs[i].state = "PENDING"
  /\ mem' = SetState(mem, i, "CANCELLED")
  /\ UNCHANGED <<daemon, todo, cur, config, disk, files, observed>>

\* Mutant of CancelPending: finished jobs are cancelled too.
Mut_CancelFinished(i) ==
  /\ daemon = "serve" /\ mem.jobs[i].state \notin {"ABSENT", "RUNNING"}
  /\ mem' = SetState(mem, i, "CANCELLED")
  /\ disk' = mem'
  /\ UNCHANGED <<daemon, todo, cur, config, files, observed>>

CancelPending(i) ==
  /\ daemon = "serve" /\ mem.jobs[i].state = "PENDING"
  /\ mem' = SetState(mem, i, "CANCELLED")
  /\ disk' = mem'
  /\ UNCHANGED <<daemon, todo, cur, config, files, observed>>

\* The client gets an error, but memory says CANCELLED.
CancelPendingFails(i) ==
  /\ SaveFails
  /\ daemon = "serve" /\ mem.jobs[i].state = "PENDING"
  /\ mem' = SetState(mem, i, "CANCELLED")
  /\ disk' \in {disk, mem'}
  /\ UNCHANGED <<daemon, todo, cur, config, files, observed>>

\* executor.cancel; a failed write leaves the marker behind or nothing at all.
CancelRunning(i) ==
  /\ daemon = "serve" /\ mem.jobs[i].state = "RUNNING"
  /\ marker' = marker \cup {i}
  /\ UNCHANGED <<daemon, volatile, disk, worker, spool, result, observed>>

Exclude(ids) ==
  /\ daemon = "serve"
  /\ KnownIds(ids, pool)
  /\ excluded' = excluded \cup WithIds(ids, pool)
  /\ UNCHANGED <<daemon, mem, todo, cur, limit, pool, idle, disk, files, observed>>

Include(ids) ==
  /\ daemon = "serve"
  /\ KnownIds(ids, pool)
  /\ excluded' = excluded \ WithIds(ids, pool)
  /\ UNCHANGED <<daemon, mem, todo, cur, limit, pool, idle, disk, files, observed>>

Refresh ==
  /\ daemon = "serve"
  /\ \E seen \in Probes : idle' = seen \cap pool
  /\ UNCHANGED <<daemon, mem, todo, cur, limit, pool, excluded, disk, files, observed>>

-----------------------------------------------------------------------------
(***************************************************************************)
(* Workers, as the scheduler sees them (see Worker for their insides).     *)
(***************************************************************************)
\* The payload is gone and {id}.result is written.
Report(i) ==
  /\ worker[i] = "live" /\ result[i] = {}
  /\ \E s \in Outcomes : result' = [result EXCEPT ![i] = {s}]
  /\ UNCHANGED <<daemon, volatile, disk, worker, spool, marker, observed>>

\* The lock is released, with or without a result (worker killed, machine rebooted).
Exit(i) ==
  /\ worker[i] = "live"
  /\ worker' = [worker EXCEPT ![i] = "gone"]
  /\ UNCHANGED <<daemon, volatile, disk, spool, result, marker, observed>>

-----------------------------------------------------------------------------
DaemonStep == Poll \/ Skip \/ Place \/ Spawn \/ StartFails \/ EndTick \/ Clean \/ CleanFails

Request ==
  \/ \E spec \in Submissions : Submit(spec) \/ SubmitFails(spec)
  \/ \E i \in Id : CancelPending(i) \/ CancelPendingFails(i) \/ CancelRunning(i)
  \/ \E ids \in IdLists : Exclude(ids) \/ Include(ids)

Next ==
  \/ Boot \/ Crash \/ Stop \/ Restart
  \/ DaemonStep \/ Request \/ Refresh
  \/ \E i \in Id : Report(i) \/ Exit(i)

Spec == Init /\ [][Next]_vars

-----------------------------------------------------------------------------
Live == {i \in Id : worker[i] = "live"}

\* A job is never started twice, whatever dies between persisting the intent, the
\* spawn and the first poll ("restart never submits a running job twice").
AtMostOnce == \A i \in Id : launched[i] <= 1

\* Two workers that exist at the same time, started by the same or by different
\* daemons, never use the same device ("each device slot is allocated exclusively").
ExclusiveUse == \A i, j \in Live : i # j => spool[i] \cap spool[j] = {}

\* No worker outlives its record: state.json says RUNNING, with the devices the
\* worker really uses, for as long as the worker holds its lock.
LiveIsRecorded ==
  \A i \in Live : disk.jobs[i].state = "RUNNING" /\ spool[i] = disk.jobs[i].devices

\* A submission acknowledged to a client is durable until it expires, under an ID
\* that no other client was or will be given ("job IDs are never reused").
AckDurable ==
  \A i \in Id : \A spec \in acked[i] :
    /\ acked[i] = {spec}
    /\ i \in forgotten \/ (disk.jobs[i].state # "ABSENT" /\ disk.jobs[i].spec = spec)

\* The history never contradicts the worker: a final state on disk is the one in
\* {id}.result for as long as that file exists.
OutcomeTruthful ==
  \A i \in Finished(disk) : result[i] # {} => disk.jobs[i].state \in result[i]

\* "At most 32 tasks run at once, configurable with --max-running."
MaxRunningRespected ==
  daemon \in {"tidy", "serve"} => Cardinality(Running) <= limit

\* On disk a final state is final: the record keeps it until the record expires.
FinalIsFinal ==
  [][\A i \in Finished(disk) : disk'.jobs[i].state \in {disk.jobs[i].state, "ABSENT"}]_vars

\* Among all pending jobs that could be placed now, tick places the one with the
\* largest count, the oldest on a tie, although its loop never looks back.
BiggestFirst ==
  [][cur' # cur /\ cur' # 0 =>
       LET count(i) == mem.jobs[i].spec.count
       IN  \A j \in InState(mem, "PENDING") :
             count(j) > count(cur') \/ (count(j) = count(cur') /\ j < cur') => Offer(j) = {}]_vars

\* A tick ends only at the concurrency limit or with no pending job that fits, also
\* when starts failed on the way and gave their devices back.
WorkConserving ==
  [][daemon = "place" /\ daemon' = "tidy" =>
       Full \/ \A j \in InState(mem, "PENDING") : Offer(j) = {}]_vars

-----------------------------------------------------------------------------
(***************************************************************************)
(* Liveness.  serve loops for ever and handles at most 16 requests between *)
(* two ticks, so while the daemon is up its own steps are weakly fair.  A  *)
(* worker that was asked to stop releases its lock (Worker, StopEnds).     *)
(* Nothing else is fair: clients, probes, crashes and the programs that    *)
(* jobs run are free.                                                      *)
(***************************************************************************)
Up == daemon # "down"

Fairness ==
  /\ WF_vars(DaemonStep)
  /\ \A i \in Id : WF_vars(i \in marker /\ Exit(i))

StaysUp == <>[]Up

Recorded(i, s) == disk.jobs[i].state = s

\* "A subsequent start takes over running tasks": a job recorded RUNNING whose worker
\* is gone, or was never spawned, does not stay RUNNING once a daemon stays up.
OrphansResolved ==
  StaysUp => \A i \in Id :
    Recorded(i, "RUNNING") /\ i \notin Live ~> ~Recorded(i, "RUNNING") \/ i \in Live

\* A cancelled running job ends, also when the daemon that took the request died
\* and another one adopted the worker.
CancelledJobsEnd ==
  StaysUp => \A i \in Id :
    i \in marker /\ Recorded(i, "RUNNING") ~> ~Recorded(i, "RUNNING")

Placeable(i) == mem.jobs[i].state = "PENDING" /\ Offer(i) # {} /\ ~Full

\* No job stays pending while, for good, devices it may use are idle, enabled and
\* unreserved and a slot is free, whatever waits in front of it.  Nothing more is
\* promised: tick reserves nothing for a job that does not fit ("smaller tasks may run
\* while a larger task waits"), so a stream of them may keep its devices busy for ever.
PlaceableJobsStart == StaysUp => \A i \in Id : ~<>[]Placeable(i)

-----------------------------------------------------------------------------
(***************************************************************************)
(* The inductive invariant behind the safety properties.                   *)
(***************************************************************************)
\* While the daemon is up, memory and state.json differ only in a submission whose
\* failed save reached the disk, a cancellation whose failed save did not, and an
\* expired record, with no result left, that only a failed save of cleanup removed.
StoresAgree ==
  Up => /\ disk.next_id <= mem.next_id
        /\ \A i \in Id :
             \/ mem.jobs[i] = disk.jobs[i]
             \/ /\ mem.jobs[i].state = "ABSENT" /\ disk.jobs[i].state = "PENDING"
                /\ acked[i] = {}
             \/ /\ disk.jobs[i].state = "PENDING"
                /\ mem.jobs[i] = [disk.jobs[i] EXCEPT !.state = "CANCELLED"]
             \/ /\ mem.jobs[i].state \in Terminal /\ disk.jobs[i].state = "ABSENT"
                /\ result[i] = {}

\* IDs are handed out in order and next_id is on disk before anything uses its ID.
IdsInOrder ==
  \A i \in Id :
    /\ mem.jobs[i].state # "ABSENT" => i <= mem.next_id
    /\ disk.jobs[i].state # "ABSENT" \/ launched[i] > 0 \/ acked[i] # {} => i <= disk.next_id

\* A worker, a result or a launch exists only for a job that left PENDING on disk.
LaunchRecorded ==
  \A i \in Id :
    /\ disk.jobs[i].state = "PENDING" => launched[i] = 0
    /\ worker[i] = "live" \/ result[i] # {} => launched[i] > 0

InFlight ==
  /\ daemon \notin {"place", "spawn"} => todo = {}
  /\ \A i \in todo : mem.jobs[i].state = "PENDING"
  /\ daemon = "spawn" =>
       cur \in Id /\ mem.jobs[cur].state = "RUNNING" /\ launched[cur] = 0

DevicesDisjoint(store) ==
  \A i, j \in InState(store, "RUNNING") :
    i # j => store.jobs[i].devices \cap store.jobs[j].devices = {}

IndInv ==
  /\ TypeOK
  /\ StoresAgree
  /\ IdsInOrder
  /\ LaunchRecorded
  /\ InFlight
  /\ DevicesDisjoint(mem) /\ DevicesDisjoint(disk)
  /\ AtMostOnce
  /\ LiveIsRecorded
=============================================================================
