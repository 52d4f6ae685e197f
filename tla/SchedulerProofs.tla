-------------------------- MODULE SchedulerProofs ---------------------------
(***************************************************************************)
(* Safety of the scheduler for any number of jobs and devices, any         *)
(* submissions and limits, and whatever writes fail: the invariant IndInv  *)
(* is inductive, and the safety properties follow from it (three of them   *)
(* with a look at how one record of state.json changes, DiskStep).  Then,  *)
(* in the second part, what tick does with its queue.                      *)
(***************************************************************************)
EXTENDS Scheduler, AllocationProofs

States == {"ABSENT", "PENDING", "RUNNING"} \cup Terminal

-----------------------------------------------------------------------------
(***************************************************************************)
(* What the updates of the store do, job by job.                           *)
(***************************************************************************)
LEMMA NoJobType == NoJob \in Job /\ EmptyStore \in Store
BY SchedulerAssumption DEF NoJob, NoSpec, Job, Submission, EmptyStore, Store

LEMMA SetStateJobs ==
  ASSUME NEW store \in Store, NEW i \in Id, NEW s \in States
  PROVE  /\ SetState(store, i, s) \in Store
         /\ SetState(store, i, s).next_id = store.next_id
         /\ \A j \in Id : SetState(store, i, s).jobs[j] =
              IF j = i THEN [store.jobs[i] EXCEPT !.state = s] ELSE store.jobs[j]
BY DEF SetState, Store, Job, States

LEMMA AssignedJobs ==
  ASSUME mem \in Store, NEW i \in Id, NEW devices \in SUBSET Device
  PROVE  /\ Assigned(i, devices) \in Store
         /\ Assigned(i, devices).next_id = mem.next_id
         /\ \A j \in Id : Assigned(i, devices).jobs[j] =
              IF j = i THEN [mem.jobs[i] EXCEPT !.state = "RUNNING", !.devices = devices]
              ELSE mem.jobs[j]
BY DEF Assigned, Store, Job, States

LEMMA ForgetJobs ==
  ASSUME mem \in Store, NEW expired \in SUBSET Id
  PROVE  /\ Forget(expired) \in Store
         /\ Forget(expired).next_id = mem.next_id
         /\ \A j \in Id :
              Forget(expired).jobs[j] = IF j \in expired THEN NoJob ELSE mem.jobs[j]
BY NoJobType DEF Forget, Store

LEMMA OutcomeType ==
  ASSUME TypeOK, NEW i \in Id
  PROVE  Outcome(i) \in Terminal /\ (result[i] # {} => Outcome(i) \in result[i])
BY DEF Outcome, TypeOK, Terminal

LEMMA CollectedJobs ==
  ASSUME TypeOK
  PROVE  /\ Collected \in Store
         /\ Collected.next_id = mem.next_id
         /\ \A j \in Id : Collected.jobs[j] =
              IF j \in Ended THEN [mem.jobs[j] EXCEPT !.state = Outcome(j)] ELSE mem.jobs[j]
<1>1. \A j \in Id : [mem.jobs[j] EXCEPT !.state = Outcome(j)] \in Job
  BY OutcomeType DEF TypeOK, Store, Job
<1> QED
  BY <1>1 DEF TypeOK, Store, Collected

LEMMA PinnedType ==
  ASSUME NEW spec \in Submissions
  PROVE  Pinned(spec, pool) \in Submission
BY SchedulerAssumption DEF Pinned, MatchingKinds, Submission

LEMMA SubmittedJobs ==
  ASSUME mem \in Store, mem.next_id < MaxId, NEW spec \in Submissions
  PROVE  /\ Submitted(spec) \in Store
         /\ mem.next_id + 1 \in Id
         /\ Submitted(spec).next_id = mem.next_id + 1
         /\ \A j \in Id : Submitted(spec).jobs[j] =
              IF j = mem.next_id + 1
              THEN [state |-> "PENDING", spec |-> Pinned(spec, pool), devices |-> {}]
              ELSE mem.jobs[j]
<1>1. mem.next_id + 1 \in Id /\ mem.next_id + 1 \in 0..MaxId
  BY SchedulerAssumption DEF Store, Id
<1>2. [state |-> "PENDING", spec |-> Pinned(spec, pool), devices |-> {}] \in Job
  BY PinnedType DEF Job
<1> QED
  BY <1>1, <1>2 DEF Submitted, Store

-----------------------------------------------------------------------------
(***************************************************************************)
(* IndInv holds initially and every step keeps it, action by action.       *)
(***************************************************************************)
LEMMA InitInv == Init => IndInv
<1> SUFFICES ASSUME Init PROVE IndInv
  OBVIOUS
<1>1. TypeOK
  BY NoJobType, SchedulerAssumption DEF Init, TypeOK
<1>2. \A i \in Id : mem.jobs[i] = NoJob /\ disk.jobs[i] = NoJob
  BY DEF Init, EmptyStore
<1> QED
  BY <1>1, <1>2 DEF Init, IndInv, StoresAgree, Up, IdsInOrder, LaunchRecorded, InFlight,
    DevicesDisjoint, InState, AtMostOnce, LiveIsRecorded, Live, NoJob

\* Steps that leave the stores, the workers and the daemon's place alone.
LEMMA FrameInv ==
  ASSUME IndInv, TypeOK',
         UNCHANGED <<daemon, mem, todo, cur, disk, worker, spool, result, launched, acked>>
  PROVE  IndInv'
BY DEF IndInv, StoresAgree, Up, IdsInOrder, LaunchRecorded, InFlight,
    DevicesDisjoint, InState, AtMostOnce, LiveIsRecorded, Live

LEMMA DeviceInv ==
  ASSUME IndInv, Refresh \/ \E ids \in IdLists : Exclude(ids) \/ Include(ids)
  PROVE  IndInv'
<1>1. TypeOK'
  BY DEF IndInv, TypeOK, Refresh, Exclude, Include, WithIds, volatile, files, observed
<1> QED
  BY <1>1, FrameInv DEF Refresh, Exclude, Include, files, observed

LEMMA CancelRunningInv ==
  ASSUME IndInv, NEW i \in Id, CancelRunning(i)
  PROVE  IndInv'
<1>1. TypeOK'
  BY DEF IndInv, TypeOK, CancelRunning, volatile, observed
<1> QED
  BY <1>1, FrameInv DEF CancelRunning, volatile, observed

LEMMA BootInv ==
  ASSUME IndInv, Boot
  PROVE  IndInv'
<1> USE DEF Boot, files, observed
<1>1. TypeOK'
  BY SchedulerAssumption DEF IndInv, TypeOK, WithIds
<1>2. StoresAgree'
  BY DEF IndInv, TypeOK, StoresAgree, Store
<1>3. IdsInOrder' /\ LaunchRecorded' /\ AtMostOnce' /\ LiveIsRecorded'
  BY DEF IndInv, IdsInOrder, LaunchRecorded, AtMostOnce, LiveIsRecorded, Live
<1>4. InFlight'
  BY DEF IndInv, InFlight
<1> QED
  BY <1>1, <1>2, <1>3, <1>4 DEF IndInv, DevicesDisjoint, InState

LEMMA DieInv ==
  ASSUME IndInv, Crash \/ Stop \/ Restart
  PROVE  IndInv'
<1> USE DEF Crash, Stop, Restart, Die, files, observed
<1>1. TypeOK'
  BY NoJobType, SchedulerAssumption DEF IndInv, TypeOK
<1>2. \A i \in Id : mem'.jobs[i] = NoJob
  BY DEF EmptyStore
<1>3. StoresAgree' /\ InFlight'
  BY DEF StoresAgree, Up, InFlight
<1>4. IdsInOrder' /\ LaunchRecorded' /\ AtMostOnce' /\ LiveIsRecorded'
  BY <1>2 DEF IndInv, IdsInOrder, LaunchRecorded, AtMostOnce, LiveIsRecorded, Live, NoJob
<1>5. DevicesDisjoint(mem)' /\ DevicesDisjoint(disk)'
  BY <1>2 DEF IndInv, DevicesDisjoint, InState, NoJob
<1> QED
  BY <1>1, <1>3, <1>4, <1>5 DEF IndInv

\* What memory says about running and pending jobs is on disk, and nothing on disk
\* runs that memory does not know.
LEMMA RunningAgree ==
  ASSUME IndInv, Up, NEW i \in Id
  PROVE  /\ mem.jobs[i].state \in {"RUNNING", "PENDING"} => mem.jobs[i] = disk.jobs[i]
         /\ disk.jobs[i].state = "RUNNING" => mem.jobs[i] = disk.jobs[i]
         /\ i \in Live => mem.jobs[i] = disk.jobs[i]
         /\ mem.jobs[i].state = "PENDING" => launched[i] = 0
<1>1. mem.jobs[i] \in Job /\ disk.jobs[i] \in Job
  BY DEF IndInv, TypeOK, Store
<1>2. i \in Live => disk.jobs[i].state = "RUNNING"
  BY DEF IndInv, LiveIsRecorded
<1>3. \/ mem.jobs[i] = disk.jobs[i]
      \/ mem.jobs[i].state \in {"ABSENT"} \cup Terminal /\ disk.jobs[i].state # "RUNNING"
  BY <1>1 DEF IndInv, StoresAgree, Job, Terminal
<1> QED
  BY <1>2, <1>3 DEF IndInv, LaunchRecorded, Terminal

LEMMA PollInv ==
  ASSUME IndInv, Poll
  PROVE  IndInv'
<1> USE DEF Poll, config, files, observed
<1>0. Up /\ Up' /\ TypeOK
  BY DEF Up, IndInv
<1>a. /\ mem' \in Store
      /\ mem'.next_id = mem.next_id
      /\ \A j \in Id : mem'.jobs[j] =
           IF j \in Ended THEN [mem.jobs[j] EXCEPT !.state = Outcome(j)] ELSE mem.jobs[j]
  BY <1>0, CollectedJobs
<1>b. \A j \in Ended : /\ mem.jobs[j].state = "RUNNING" /\ j \in Id /\ j \notin Live
                       /\ mem'.jobs[j].state \in Terminal /\ mem.jobs[j] = disk.jobs[j]
  <2> SUFFICES ASSUME NEW j \in Ended
               PROVE  /\ mem.jobs[j].state = "RUNNING" /\ j \in Id /\ j \notin Live
                      /\ mem'.jobs[j].state \in Terminal /\ mem.jobs[j] = disk.jobs[j]
    OBVIOUS
  <2>1. mem.jobs[j].state = "RUNNING" /\ j \in Id /\ j \notin Live
    BY DEF Ended, Running, InState, Live
  <2>2. mem.jobs[j] \in Job
    BY <1>0, <2>1 DEF TypeOK, Store
  <2> QED
    BY <1>0, <1>a, <2>1, <2>2, OutcomeType, RunningAgree DEF Job
<1>c. \A j \in Id : mem'.jobs[j] = mem.jobs[j] \/ j \in Ended
  BY <1>a
<1>1. TypeOK'
  BY <1>0, <1>a DEF TypeOK, InState
<1>2. ASSUME Ended = {} PROVE StoresAgree' /\ IdsInOrder'
  <2>1. (\A j \in Id : mem'.jobs[j] = mem.jobs[j]) /\ UNCHANGED disk
    BY <1>2, <1>c
  <2> QED
    BY <1>0, <1>a, <2>1 DEF IndInv, StoresAgree, IdsInOrder
<1>3. ASSUME Ended # {} PROVE StoresAgree' /\ IdsInOrder'
  <2>1. disk' = mem' /\ disk.next_id <= mem.next_id
    BY <1>0, <1>3 DEF IndInv, StoresAgree
  <2>2. StoresAgree'
    BY <1>0, <1>a, <2>1 DEF StoresAgree, Store
  <2>3. \A j \in Id : mem'.jobs[j].state # "ABSENT" => j <= mem'.next_id
    BY <1>a, <1>b, <1>c DEF IndInv, IdsInOrder
  <2>4. \A j \in Id : launched[j] > 0 \/ acked[j] # {} => j <= mem'.next_id
    BY <1>0, <1>a, <2>1 DEF IndInv, IdsInOrder, TypeOK, Store, Id
  <2> QED
    BY <2>1, <2>2, <2>3, <2>4 DEF IdsInOrder
<1>8. StoresAgree' /\ IdsInOrder'
  BY <1>2, <1>3
<1>4. LaunchRecorded' /\ AtMostOnce'
  BY <1>0, <1>a, <1>b, <1>c, RunningAgree DEF IndInv, LaunchRecorded, AtMostOnce, Terminal
<1>5. LiveIsRecorded'
  BY <1>0, <1>a, <1>b, <1>c, RunningAgree DEF IndInv, LiveIsRecorded, Live
<1>6. InFlight'
  BY <1>b, <1>c DEF InFlight, InState
<1>7. DevicesDisjoint(mem)' /\ DevicesDisjoint(disk)'
  BY <1>0, <1>a, <1>b, <1>c DEF IndInv, DevicesDisjoint, InState, Terminal
<1> QED
  BY <1>1, <1>4, <1>5, <1>6, <1>7, <1>8 DEF IndInv

LEMMA LoopInv ==
  ASSUME IndInv, Skip \/ EndTick
  PROVE  IndInv'
<1> USE DEF Skip, EndTick, config, files, observed
<1>1. TypeOK'
  BY DEF IndInv, TypeOK
<1>2. InFlight'
  BY DEF IndInv, InFlight
<1> QED
  BY <1>1, <1>2 DEF IndInv, StoresAgree, Up, IdsInOrder, LaunchRecorded,
    DevicesDisjoint, InState, AtMostOnce, LiveIsRecorded, Live

LEMMA PlaceInv ==
  ASSUME IndInv, Place
  PROVE  IndInv'
<1> USE DEF Place, config, files, observed
<1>0. Up /\ Up' /\ TypeOK
  BY DEF Up, IndInv
<1>a. PICK i \in Heads : \E devices \in Offer(i) :
        mem' = Assigned(i, devices) /\ cur' = i /\ todo' = todo \ {i}
  OBVIOUS
<1>1. PICK devices \in Offer(i) :
        mem' = Assigned(i, devices) /\ cur' = i /\ todo' = todo \ {i}
  BY <1>a
<1>2. /\ i \in Id /\ i \in todo /\ mem.jobs[i].state = "PENDING"
      /\ mem.jobs[i] = disk.jobs[i] /\ launched[i] = 0 /\ i \notin Live
      /\ i <= mem.next_id
  <2>1. i \in Id /\ i \in todo /\ mem.jobs[i].state = "PENDING"
    BY <1>0, <1>1 DEF Heads, TypeOK, IndInv, InFlight
  <2> QED
    BY <1>0, <2>1, RunningAgree DEF IndInv, LiveIsRecorded, LaunchRecorded, IdsInOrder
<1>3. /\ devices \in SUBSET Device
      /\ \A j \in Running : devices \cap mem.jobs[j].devices = {}
  <2>1. devices \subseteq pool /\ devices \cap Reserved = {}
    BY <1>1, AllocateSound DEF Offer
  <2> QED
    BY <1>0, <2>1 DEF TypeOK, Reserved
<1>4. /\ mem' \in Store /\ disk' = mem'
      /\ mem'.next_id = mem.next_id
      /\ \A j \in Id : mem'.jobs[j] =
           IF j = i THEN [mem.jobs[i] EXCEPT !.state = "RUNNING", !.devices = devices]
           ELSE mem.jobs[j]
  <2>1. mem \in Store
    BY <1>0 DEF TypeOK
  <2> QED
    BY <1>1, <1>2, <1>3, <2>1, AssignedJobs
<1>5. mem.jobs[i] \in Job /\ mem'.jobs[i].state = "RUNNING" /\ mem'.jobs[i].devices = devices
  BY <1>0, <1>2, <1>4 DEF TypeOK, Store, Job
<1>6. \A j \in Id : j # i => mem'.jobs[j] = mem.jobs[j]
  BY <1>4
<1>7. TypeOK'
  BY <1>0, <1>1, <1>2, <1>4 DEF TypeOK, Id
<1>8. StoresAgree'
  BY <1>0, <1>4 DEF StoresAgree, Store
<1>9. IdsInOrder'
  BY <1>0, <1>2, <1>4, <1>6 DEF IndInv, IdsInOrder, StoresAgree, TypeOK, Store, Id
<1>10. LaunchRecorded' /\ AtMostOnce'
  BY <1>0, <1>2, <1>4, <1>5, <1>6, RunningAgree DEF IndInv, LaunchRecorded, AtMostOnce
<1>11. LiveIsRecorded'
  BY <1>0, <1>2, <1>4, <1>6, RunningAgree DEF IndInv, LiveIsRecorded, Live
<1>12. InFlight'
  BY <1>0, <1>1, <1>2, <1>5, <1>6 DEF IndInv, InFlight, TypeOK
<1>13. DevicesDisjoint(mem)' /\ DevicesDisjoint(disk)'
  BY <1>0, <1>2, <1>3, <1>4, <1>5, <1>6 DEF IndInv, DevicesDisjoint, InState, Running
<1> QED
  BY <1>7, <1>8, <1>9, <1>10, <1>11, <1>12, <1>13 DEF IndInv

LEMMA SpawnInv ==
  ASSUME IndInv, Spawn
  PROVE  IndInv'
<1> USE DEF Spawn, config
<1>0. Up /\ Up' /\ TypeOK
  BY DEF Up, IndInv
<1>1. /\ cur \in Id /\ mem.jobs[cur].state = "RUNNING" /\ launched[cur] = 0
      /\ mem.jobs[cur] = disk.jobs[cur]
  BY <1>0, RunningAgree DEF IndInv, InFlight
<1>2. mem.jobs[cur].devices \in SUBSET Device
  BY <1>0, <1>1 DEF TypeOK, Store, Job
<1>3. TypeOK'
  BY <1>0, <1>1, <1>2, SchedulerAssumption DEF TypeOK
<1>4. StoresAgree' /\ DevicesDisjoint(mem)' /\ DevicesDisjoint(disk)' /\ InFlight'
  BY <1>0 DEF IndInv, StoresAgree, DevicesDisjoint, InState, InFlight
<1>5. IdsInOrder'
  BY <1>0, <1>1 DEF IndInv, IdsInOrder, TypeOK
<1>6. LaunchRecorded' /\ AtMostOnce'
  BY <1>0, <1>1 DEF IndInv, LaunchRecorded, AtMostOnce, TypeOK
<1>7. LiveIsRecorded'
  BY <1>0, <1>1 DEF IndInv, LiveIsRecorded, Live, TypeOK
<1> QED
  BY <1>3, <1>4, <1>5, <1>6, <1>7 DEF IndInv

LEMMA StartFailsInv ==
  ASSUME IndInv, StartFails
  PROVE  IndInv'
<1> USE DEF StartFails, config, observed
<1>0. Up /\ Up' /\ TypeOK
  BY DEF Up, IndInv
<1>1. /\ cur \in Id /\ mem.jobs[cur].state = "RUNNING" /\ launched[cur] = 0
      /\ cur \notin Live /\ cur \notin todo
  BY <1>0 DEF IndInv, InFlight, LaunchRecorded, Live
<1>2. /\ mem' \in Store /\ disk' = mem'
      /\ mem'.next_id = mem.next_id
      /\ \A j \in Id : mem'.jobs[j] =
           IF j = cur THEN [mem.jobs[cur] EXCEPT !.state = "FAILED"] ELSE mem.jobs[j]
  <2>1. mem \in Store
    BY <1>0 DEF TypeOK
  <2>2. "FAILED" \in States
    BY DEF States, Terminal
  <2> QED
    BY <1>1, <2>1, <2>2, SetStateJobs
<1>3. mem.jobs[cur] \in Job /\ mem'.jobs[cur].state = "FAILED"
  BY <1>0, <1>1, <1>2 DEF TypeOK, Store, Job
<1>4. \A j \in Id : j # cur => mem'.jobs[j] = mem.jobs[j]
  BY <1>2
<1>5. TypeOK'
  BY <1>0, <1>2, <1>3, SchedulerAssumption DEF TypeOK, Job
<1>6. StoresAgree'
  BY <1>0, <1>2 DEF StoresAgree, Store
<1>7. IdsInOrder'
  BY <1>0, <1>1, <1>2, <1>4 DEF IndInv, IdsInOrder, StoresAgree, TypeOK, Store, Id
<1>8. LaunchRecorded' /\ AtMostOnce'
  BY <1>0, <1>2, <1>3, <1>4, RunningAgree DEF IndInv, LaunchRecorded, AtMostOnce
<1>9. LiveIsRecorded'
  BY <1>0, <1>1, <1>2, <1>4, RunningAgree DEF IndInv, LiveIsRecorded, Live, TypeOK
<1>10. InFlight'
  BY <1>0, <1>1, <1>4 DEF IndInv, InFlight, TypeOK
<1>11. DevicesDisjoint(mem)' /\ DevicesDisjoint(disk)'
  BY <1>0, <1>2, <1>3, <1>4 DEF IndInv, DevicesDisjoint, InState
<1> QED
  BY <1>5, <1>6, <1>7, <1>8, <1>9, <1>10, <1>11 DEF IndInv

LEMMA CleanInv ==
  ASSUME IndInv, Clean \/ CleanFails
  PROVE  IndInv'
<1>0. Up /\ Up' /\ TypeOK
  BY DEF Up, IndInv, Clean, CleanFails
<1>a. PICK expired \in SUBSET Finished(mem) : \E deleted \in SUBSET expired :
        /\ Delete(deleted)
        /\ mem' \in {mem, Forget(expired)}
        /\ \/ disk' = disk /\ (mem' = mem \/ expired = {})
           \/ disk' = Forget(expired) /\ deleted = expired
        /\ forgotten' \in {forgotten, forgotten \cup expired}
  <2>1. CASE Clean
    BY <2>1 DEF Clean
  <2>2. CASE CleanFails
    BY <2>2 DEF CleanFails
  <2> QED
    BY <2>1, <2>2
<1>1. PICK deleted \in SUBSET expired :
        /\ Delete(deleted)
        /\ mem' \in {mem, Forget(expired)}
        /\ \/ disk' = disk /\ (mem' = mem \/ expired = {})
           \/ disk' = Forget(expired) /\ deleted = expired
        /\ forgotten' \in {forgotten, forgotten \cup expired}
  BY <1>a
<1>2. UNCHANGED <<todo, cur, config, worker, launched, acked>> /\ daemon = "tidy" /\ daemon' = "serve"
  BY DEF Clean, CleanFails
<1> USE DEF config
<1>3. /\ expired \subseteq Id
      /\ \A j \in expired : mem.jobs[j].state \in Terminal /\ j \notin Live
  <2>1. \A j \in expired : j \in Id /\ mem.jobs[j].state \in Terminal
    BY DEF Finished
  <2>2. \A j \in expired : j \in Live => mem.jobs[j].state = "RUNNING"
    BY <1>0, <2>1, RunningAgree DEF IndInv, LiveIsRecorded
  <2> QED
    BY <2>1, <2>2 DEF Terminal
<1>4. /\ Forget(expired) \in Store
      /\ Forget(expired).next_id = mem.next_id
      /\ \A j \in Id :
           Forget(expired).jobs[j] = IF j \in expired THEN NoJob ELSE mem.jobs[j]
  <2>1. mem \in Store /\ expired \in SUBSET Id
    BY <1>0, <1>3 DEF TypeOK
  <2> QED
    BY <2>1, ForgetJobs
<1>5. NoJob.state = "ABSENT"
  BY DEF NoJob
<1>6. /\ \A j \in Id : result'[j] = IF j \in deleted THEN {} ELSE result[j]
      /\ \A j \in Id : spool'[j] = IF j \in deleted THEN {} ELSE spool[j]
  BY <1>1 DEF Delete
<1>7. TypeOK'
  BY <1>0, <1>1, <1>2, <1>3, <1>4 DEF TypeOK, Delete
<1>8. StoresAgree'
  BY <1>0, <1>1, <1>2, <1>3, <1>4, <1>5, <1>6 DEF IndInv, TypeOK, StoresAgree, Store
<1>9. IdsInOrder'
  BY <1>0, <1>1, <1>2, <1>3, <1>4, <1>5 DEF IndInv, TypeOK, StoresAgree, IdsInOrder, Store, Id
<1>10. LaunchRecorded' /\ AtMostOnce'
  BY <1>0, <1>1, <1>2, <1>3, <1>4, <1>5, <1>6, RunningAgree DEF IndInv, LaunchRecorded, AtMostOnce
<1>11. LiveIsRecorded'
  BY <1>0, <1>1, <1>2, <1>3, <1>4, <1>6, RunningAgree DEF IndInv, LiveIsRecorded, Live
<1>12. InFlight'
  BY <1>0, <1>1, <1>2 DEF IndInv, InFlight
<1>13. DevicesDisjoint(mem)' /\ DevicesDisjoint(disk)'
  BY <1>0, <1>1, <1>4, <1>5 DEF IndInv, DevicesDisjoint, InState
<1> QED
  BY <1>7, <1>8, <1>9, <1>10, <1>11, <1>12, <1>13 DEF IndInv

\* The next ID is unused: nothing on disk or in memory, launched or acknowledged.
LEMMA NextIdFresh ==
  ASSUME IndInv, Up, NEW id \in Id, id = mem.next_id + 1
  PROVE  /\ mem.jobs[id].state = "ABSENT" /\ disk.jobs[id].state = "ABSENT"
         /\ launched[id] = 0 /\ acked[id] = {}
<1>1. mem.next_id \in Nat /\ disk.next_id \in Nat /\ launched[id] \in Nat
  BY DEF IndInv, TypeOK, Store
<1>2. ~(id <= mem.next_id) /\ ~(id <= disk.next_id)
  BY <1>1 DEF IndInv, StoresAgree
<1> QED
  BY <1>1, <1>2 DEF IndInv, IdsInOrder

LEMMA SubmitInv ==
  ASSUME IndInv, NEW spec \in Submissions, Submit(spec) \/ SubmitFails(spec)
  PROVE  IndInv'
<1> DEFINE id == mem.next_id + 1
<1> DEFINE new == [state |-> "PENDING", spec |-> Pinned(spec, pool), devices |-> {}]
<1>0. Up /\ Up' /\ TypeOK /\ mem.next_id < MaxId /\ daemon = "serve"
  BY DEF Up, IndInv, Submit, SubmitFails, Submittable
<1>1. mem \in Store /\ disk \in Store /\ mem.next_id \in Nat /\ disk.next_id <= mem.next_id
  BY <1>0 DEF IndInv, StoresAgree, TypeOK, Store
<1>2. /\ Submitted(spec) \in Store
      /\ id \in Id
      /\ Submitted(spec).next_id = id
      /\ \A j \in Id : Submitted(spec).jobs[j] = IF j = id THEN new ELSE mem.jobs[j]
  BY <1>0, <1>1, SubmittedJobs
<1>3. /\ mem.jobs[id].state = "ABSENT" /\ disk.jobs[id].state = "ABSENT"
      /\ launched[id] = 0 /\ acked[id] = {} /\ id \notin Live
  BY <1>0, <1>2, NextIdFresh DEF IndInv, LaunchRecorded, Live
<1>4. UNCHANGED <<daemon, todo, cur, limit, pool, idle, excluded, worker, spool, result,
                  marker, launched, forgotten>>
  BY DEF Submit, SubmitFails, config, files, observed
<1>5. /\ mem' \in Store /\ mem'.next_id = id
      /\ disk' = disk \/ disk' = Submitted(spec)
      /\ acked' \in [Id -> SUBSET Submission]
      /\ \A j \in Id : j # id => mem'.jobs[j] = mem.jobs[j] /\ acked'[j] = acked[j]
      /\ \/ disk' = Submitted(spec) /\ mem'.jobs[id] = new
         \/ mem'.jobs[id] = mem.jobs[id] /\ acked' = acked
  <2>1. CASE Submit(spec)
    <3>1. Pinned(spec, pool) \in Submission
      BY PinnedType
    <3>2. mem' = Submitted(spec) /\ disk' = Submitted(spec)
          /\ acked' = [acked EXCEPT ![id] = @ \cup {Pinned(spec, pool)}]
      BY <1>2, <2>1 DEF Submit
    <3>3. /\ acked' \in [Id -> SUBSET Submission]
          /\ \A j \in Id : j # id => acked'[j] = acked[j]
      BY <1>0, <1>2, <3>1, <3>2 DEF TypeOK
    <3> QED
      BY <1>2, <3>2, <3>3
  <2>2. CASE SubmitFails(spec)
    <3>1. id \in 0..MaxId
      BY <1>2, SchedulerAssumption DEF Id
    <3>2. mem' = [mem EXCEPT !.next_id = id] /\ disk' \in {disk, Submitted(spec)} /\ acked' = acked
      BY <2>2 DEF SubmitFails, observed
    <3> HIDE DEF id
    <3>3. mem' \in Store /\ mem'.next_id = id /\ mem'.jobs = mem.jobs
      BY <1>1, <3>1, <3>2 DEF Store
    <3> QED
      BY <1>0, <3>2, <3>3 DEF TypeOK
  <2> QED
    BY <2>1, <2>2
<1>6. new.state = "PENDING" /\ id = mem.next_id + 1
  OBVIOUS
<1> HIDE DEF id, new
<1>7. TypeOK'
  BY <1>0, <1>2, <1>4, <1>5 DEF TypeOK
<1>8. StoresAgree'
  <2>1. disk'.next_id <= mem'.next_id
    BY <1>1, <1>2, <1>5, <1>6 DEF Store
  <2>2. \A j \in Id : j # id => disk'.jobs[j] = disk.jobs[j] \/ disk'.jobs[j] = mem.jobs[j]
    BY <1>2, <1>5
  <2>3. disk'.jobs[id] = disk.jobs[id] \/ disk'.jobs[id] = new
    BY <1>2, <1>5
  <2>4. \A j \in Id : j # id =>
          \/ mem'.jobs[j] = disk'.jobs[j]
          \/ /\ mem'.jobs[j].state = "ABSENT" /\ disk'.jobs[j].state = "PENDING"
             /\ acked'[j] = {}
          \/ /\ disk'.jobs[j].state = "PENDING"
             /\ mem'.jobs[j] = [disk'.jobs[j] EXCEPT !.state = "CANCELLED"]
          \/ /\ mem'.jobs[j].state \in Terminal /\ disk'.jobs[j].state = "ABSENT"
             /\ result'[j] = {}
    BY <1>0, <1>4, <1>5, <2>2 DEF IndInv, StoresAgree
  <2>5. \/ mem'.jobs[id] = disk'.jobs[id]
        \/ /\ mem'.jobs[id].state = "ABSENT" /\ disk'.jobs[id].state = "PENDING"
           /\ acked'[id] = {}
    <3>1. mem.jobs[id] = disk.jobs[id]
      BY <1>0, <1>2, <1>3 DEF IndInv, StoresAgree, Terminal
    <3> QED
      BY <1>2, <1>3, <1>5, <1>6, <2>3, <3>1
  <2> QED
    BY <1>0, <1>3, <1>4, <1>5, <1>6, <2>1, <2>4, <2>5 DEF StoresAgree
<1>9. \A j \in Id : j # id =>
        /\ mem'.jobs[j] = mem.jobs[j] /\ acked'[j] = acked[j]
        /\ disk'.jobs[j] = disk.jobs[j] \/ disk'.jobs[j] = mem.jobs[j]
  BY <1>2, <1>5
<1>10. /\ mem'.jobs[id] \in {new, mem.jobs[id]}
       /\ disk'.jobs[id] \in {new, disk.jobs[id]}
  BY <1>2, <1>5
<1>11. IdsInOrder'
  <2>1. mem.next_id <= mem'.next_id /\ disk.next_id <= disk'.next_id
    BY <1>1, <1>2, <1>5, <1>6 DEF Store
  <2>2. \A j \in Id : j # id => (mem'.jobs[j].state # "ABSENT" => j <= mem'.next_id)
    BY <1>1, <1>5, <1>6, <1>9 DEF IndInv, IdsInOrder, Id
  <2>3. disk' = disk \/ disk'.next_id = id
    BY <1>2, <1>5
  <2>4. ASSUME NEW j \in Id, j # id,
               disk'.jobs[j].state # "ABSENT" \/ launched'[j] > 0 \/ acked'[j] # {}
        PROVE  j <= disk'.next_id
    <3>1. j <= disk.next_id \/ j <= mem.next_id
      BY <1>4, <1>9, <2>4 DEF IndInv, IdsInOrder
    <3>2. CASE disk' = disk
      BY <1>4, <1>9, <2>4, <3>2 DEF IndInv, IdsInOrder
    <3>3. CASE disk'.next_id = id
      BY <1>1, <1>6, <3>1, <3>3 DEF Store, Id
    <3> QED
      BY <2>3, <3>2, <3>3
  <2>5. mem'.jobs[id].state # "ABSENT" => id <= mem'.next_id
    BY <1>1, <1>2, <1>5, <1>6 DEF Id
  <2>6. disk'.jobs[id].state # "ABSENT" \/ launched'[id] > 0 \/ acked'[id] # {}
          => id <= disk'.next_id
    <3>1. CASE disk'.next_id = id
      BY <1>2, <3>1 DEF Id
    <3>2. CASE disk' = disk /\ acked' = acked
      BY <1>3, <1>4, <3>2
    <3> QED
      BY <1>2, <1>5, <3>1, <3>2
  <2> QED
    BY <2>2, <2>4, <2>5, <2>6 DEF IdsInOrder
<1>12. LaunchRecorded' /\ AtMostOnce'
  BY <1>0, <1>3, <1>4, <1>9, <1>10, RunningAgree DEF IndInv, LaunchRecorded, AtMostOnce
<1>13. LiveIsRecorded'
  BY <1>0, <1>3, <1>4, <1>9, RunningAgree DEF IndInv, LiveIsRecorded, Live
<1>14. InFlight'
  BY <1>0, <1>4 DEF IndInv, InFlight
<1>15. DevicesDisjoint(mem)' /\ DevicesDisjoint(disk)'
  BY <1>0, <1>3, <1>6, <1>9, <1>10, RunningAgree DEF IndInv, DevicesDisjoint, InState
<1> QED
  BY <1>7, <1>8, <1>11, <1>12, <1>13, <1>14, <1>15 DEF IndInv

LEMMA CancelPendingInv ==
  ASSUME IndInv, NEW i \in Id, CancelPending(i) \/ CancelPendingFails(i)
  PROVE  IndInv'
<1> USE DEF CancelPending, CancelPendingFails, config, files, observed
<1>0. Up /\ Up' /\ TypeOK /\ daemon = "serve" /\ mem.jobs[i].state = "PENDING"
  BY DEF Up, IndInv
<1>1. /\ mem' \in Store /\ disk' \in {disk, mem'}
      /\ mem'.next_id = mem.next_id
      /\ \A j \in Id : mem'.jobs[j] =
           IF j = i THEN [mem.jobs[i] EXCEPT !.state = "CANCELLED"] ELSE mem.jobs[j]
  <2>1. mem \in Store
    BY <1>0 DEF TypeOK
  <2>2. "CANCELLED" \in States
    BY DEF States, Terminal
  <2> QED
    BY <2>1, <2>2, SetStateJobs
<1>2. mem.jobs[i] = disk.jobs[i] /\ launched[i] = 0 /\ i \notin Live
  BY <1>0, RunningAgree DEF IndInv, LaunchRecorded, Live
<1>3. mem.jobs[i] \in Job /\ mem'.jobs[i].state = "CANCELLED"
  BY <1>0, <1>1 DEF TypeOK, Store, Job
<1>4. \A j \in Id : j # i => mem'.jobs[j] = mem.jobs[j]
  BY <1>1
<1>5. TypeOK'
  BY <1>0, <1>1 DEF TypeOK
<1>6. StoresAgree'
  BY <1>0, <1>1, <1>2, <1>3, <1>4 DEF IndInv, TypeOK, StoresAgree, Store
<1>7. IdsInOrder'
  <2>1. mem.next_id \in Nat /\ disk.next_id \in Nat /\ disk.next_id <= mem.next_id
    BY <1>0 DEF IndInv, StoresAgree, TypeOK, Store
  <2>2. \A j \in Id : mem'.jobs[j].state = "ABSENT" <=> mem.jobs[j].state = "ABSENT"
    BY <1>0, <1>3, <1>4
  <2>3. CASE disk' = disk
    BY <1>1, <2>2, <2>3 DEF IndInv, IdsInOrder
  <2>4. CASE disk' = mem'
    BY <1>1, <2>1, <2>2, <2>4 DEF IndInv, IdsInOrder, Id
  <2> QED
    BY <1>1, <2>3, <2>4
<1>8. LaunchRecorded' /\ AtMostOnce'
  BY <1>0, <1>1, <1>3, <1>4, RunningAgree DEF IndInv, LaunchRecorded, AtMostOnce
<1>9. LiveIsRecorded'
  BY <1>0, <1>1, <1>2, <1>4, RunningAgree DEF IndInv, LiveIsRecorded, Live
<1>10. InFlight'
  BY <1>0, <1>4 DEF IndInv, InFlight
<1>11. DevicesDisjoint(mem)' /\ DevicesDisjoint(disk)'
  BY <1>0, <1>1, <1>3, <1>4 DEF IndInv, DevicesDisjoint, InState
<1> QED
  BY <1>5, <1>6, <1>7, <1>8, <1>9, <1>10, <1>11 DEF IndInv

LEMMA WorkerInv ==
  ASSUME IndInv, NEW i \in Id, Report(i) \/ Exit(i)
  PROVE  IndInv'
<1> USE DEF Report, Exit, volatile, observed
<1>1. TypeOK'
  BY SchedulerAssumption DEF IndInv, TypeOK
<1>2. LaunchRecorded' /\ LiveIsRecorded'
  BY DEF IndInv, TypeOK, LaunchRecorded, LiveIsRecorded, Live
<1>3. StoresAgree'
  BY DEF IndInv, TypeOK, StoresAgree, Up, LiveIsRecorded, Live
<1> QED
  BY <1>1, <1>2, <1>3 DEF IndInv, IdsInOrder, InFlight, DevicesDisjoint, InState, AtMostOnce

LEMMA NextInv == IndInv /\ [Next]_vars => IndInv'
<1> SUFFICES ASSUME IndInv, [Next]_vars PROVE IndInv'
  OBVIOUS
<1>1. CASE Boot
  BY <1>1, BootInv
<1>2. CASE Crash \/ Stop \/ Restart
  BY <1>2, DieInv
<1>3. CASE DaemonStep
  BY <1>3, PollInv, LoopInv, PlaceInv, SpawnInv, StartFailsInv, CleanInv DEF DaemonStep
<1>4. CASE Request
  BY <1>4, SubmitInv, CancelPendingInv, CancelRunningInv, DeviceInv DEF Request
<1>5. CASE Refresh
  BY <1>5, DeviceInv
<1>6. CASE \E i \in Id : Report(i) \/ Exit(i)
  BY <1>6, WorkerInv
<1>7. CASE UNCHANGED vars
  BY <1>7, FrameInv DEF vars, volatile, files, observed, IndInv, TypeOK
<1> QED
  BY <1>1, <1>2, <1>3, <1>4, <1>5, <1>6, <1>7 DEF Next

-----------------------------------------------------------------------------
(***************************************************************************)
(* The safety properties of the specification.                             *)
(***************************************************************************)
\* The invariant of the scheduler: every variable has its type, and memory, state.json,
\* the workers and the devices agree as IndInv says, whatever fails or dies.
THEOREM Invariance == Spec => []IndInv
BY InitInv, NextInv, PTL DEF Spec

\* No job is started twice, for any crash between the persisted intent, the spawn and
\* the first poll of the next daemon (tick in scheduler.rs, poll in executor.rs).
THEOREM StartsAtMostOnce == Spec => []AtMostOnce
BY Invariance, PTL DEF IndInv

\* Every worker alive is recorded RUNNING on disk with the devices it uses.
THEOREM WorkersAreRecorded == Spec => []LiveIsRecorded
BY Invariance, PTL DEF IndInv

LEMMA RecordedIsExclusive == LiveIsRecorded /\ DevicesDisjoint(disk) => ExclusiveUse
BY DEF LiveIsRecorded, DevicesDisjoint, ExclusiveUse, Live, InState

\* No two workers alive share a device, across any number of daemons, inventories that
\* differ between them and probes that report anything.
THEOREM DevicesAreExclusive == Spec => []ExclusiveUse
<1>1. IndInv => ExclusiveUse
  BY RecordedIsExclusive DEF IndInv
<1> QED
  BY <1>1, Invariance, PTL

-----------------------------------------------------------------------------
(***************************************************************************)
(* How a record on disk changes, for the properties of the history.        *)
(***************************************************************************)
\* One way or another a record written differs from the one before: a worker ended, a
\* pending job was placed or cancelled, a start failed, the record expired, it is new,
\* or the write brings what memory already said.
RecordStep(i) ==
  LET new == disk'.jobs[i]
  IN  \/ /\ i \in Ended
         /\ new.state \in Terminal /\ new.spec = mem.jobs[i].spec
         /\ result[i] # {} => new.state \in result[i]
      \/ /\ mem.jobs[i].state = "PENDING"
         /\ new.state \in {"RUNNING", "CANCELLED"} /\ new.spec = mem.jobs[i].spec
      \/ /\ mem.jobs[i].state = "RUNNING" /\ launched[i] = 0
         /\ new.state = "FAILED" /\ new.spec = mem.jobs[i].spec
      \/ new.state = "ABSENT" /\ i \in forgotten'
      \/ i = mem.next_id + 1 /\ new.state = "PENDING"
      \/ new = mem.jobs[i]

LEMMA DiskStep ==
  ASSUME IndInv, Next, NEW i \in Id, disk'.jobs[i] # disk.jobs[i]
  PROVE  Up /\ UNCHANGED worker /\ RecordStep(i)
<1> USE DEF config, files, observed, volatile
<1>0. TypeOK /\ mem \in Store /\ mem.jobs[i] \in Job
  BY DEF IndInv, TypeOK, Store
<1>1. CASE Poll
  <2>1. Up /\ UNCHANGED worker /\ disk' = Collected
    BY <1>1 DEF Poll, Up
  <2>2. disk'.jobs[i] = IF i \in Ended THEN [mem.jobs[i] EXCEPT !.state = Outcome(i)]
                        ELSE mem.jobs[i]
    BY <1>0, <2>1, CollectedJobs
  <2>3. CASE i \in Ended
    BY <1>0, <2>1, <2>2, <2>3, OutcomeType DEF RecordStep, Job
  <2> QED
    BY <2>1, <2>2, <2>3 DEF RecordStep
<1>2. CASE Place
  <2>1. PICK j \in Heads : \E devices \in Offer(j) :
          mem' = Assigned(j, devices) /\ cur' = j /\ todo' = todo \ {j}
    BY <1>2 DEF Place
  <2>2. PICK devices \in Offer(j) :
          mem' = Assigned(j, devices) /\ cur' = j /\ todo' = todo \ {j}
    BY <2>1
  <2>3. Up /\ UNCHANGED worker /\ disk' = Assigned(j, devices)
    BY <1>2, <2>2 DEF Place, Up
  <2>4. j \in Id /\ mem.jobs[j].state = "PENDING"
    BY <1>0 DEF Heads, TypeOK, IndInv, InFlight
  <2>5. devices \in SUBSET Device
    <3>1. devices \subseteq pool
      BY <2>2, AllocateSound DEF Offer
    <3> QED
      BY <1>0, <3>1 DEF TypeOK
  <2>6. disk'.jobs[i] =
          IF i = j THEN [mem.jobs[i] EXCEPT !.state = "RUNNING", !.devices = devices]
          ELSE mem.jobs[i]
    <3>1. mem \in Store
      BY <1>0
    <3>2. \A k \in Id : Assigned(j, devices).jobs[k] =
            IF k = j THEN [mem.jobs[j] EXCEPT !.state = "RUNNING", !.devices = devices]
            ELSE mem.jobs[k]
      BY <2>4, <2>5, <3>1, AssignedJobs
    <3> QED
      BY <2>3, <3>2
  <2> QED
    BY <1>0, <2>3, <2>4, <2>6 DEF RecordStep, Job
<1>3. CASE StartFails
  <2>1. Up /\ UNCHANGED worker /\ disk' = SetState(mem, cur, "FAILED")
    BY <1>3 DEF StartFails, Up
  <2>2. cur \in Id /\ mem.jobs[cur].state = "RUNNING" /\ launched[cur] = 0
    BY <1>3 DEF StartFails, IndInv, InFlight
  <2>3. "FAILED" \in States
    BY DEF States, Terminal
  <2>4. disk'.jobs[i] =
          IF i = cur THEN [mem.jobs[cur] EXCEPT !.state = "FAILED"] ELSE mem.jobs[i]
    BY <1>0, <2>1, <2>2, <2>3, SetStateJobs
  <2> QED
    BY <1>0, <2>1, <2>2, <2>4 DEF RecordStep, Job
<1>4. CASE Clean \/ CleanFails
  <2>1. PICK expired \in SUBSET Finished(mem) :
          disk' = Forget(expired) /\ forgotten' = forgotten \cup expired
    BY <1>4 DEF Clean, CleanFails
  <2>2. Up /\ UNCHANGED worker
    BY <1>4 DEF Clean, CleanFails, Up
  <2>3. expired \in SUBSET Id
    BY DEF Finished
  <2>4. disk'.jobs[i] = IF i \in expired THEN NoJob ELSE mem.jobs[i]
    BY <1>0, <2>1, <2>3, ForgetJobs
  <2> QED
    BY <2>1, <2>2, <2>4 DEF RecordStep, NoJob
<1>5. CASE \E spec \in Submissions : Submit(spec) \/ SubmitFails(spec)
  <2>1. PICK spec \in Submissions : Submit(spec) \/ SubmitFails(spec)
    BY <1>5
  <2>2. Up /\ UNCHANGED worker /\ disk' = Submitted(spec) /\ mem.next_id < MaxId
    BY <2>1 DEF Submit, SubmitFails, Submittable, Up
  <2>3. disk'.jobs[i] =
          IF i = mem.next_id + 1
          THEN [state |-> "PENDING", spec |-> Pinned(spec, pool), devices |-> {}]
          ELSE mem.jobs[i]
    BY <1>0, <2>2, SubmittedJobs
  <2> QED
    BY <2>2, <2>3 DEF RecordStep
<1>6. CASE \E j \in Id : CancelPending(j) \/ CancelPendingFails(j)
  <2>1. PICK j \in Id : CancelPending(j) \/ CancelPendingFails(j)
    BY <1>6
  <2>2. Up /\ UNCHANGED worker /\ disk' = SetState(mem, j, "CANCELLED")
        /\ mem.jobs[j].state = "PENDING"
    BY <2>1 DEF CancelPending, CancelPendingFails, Up
  <2>3. "CANCELLED" \in States
    BY DEF States, Terminal
  <2>4. disk'.jobs[i] =
          IF i = j THEN [mem.jobs[j] EXCEPT !.state = "CANCELLED"] ELSE mem.jobs[i]
    BY <1>0, <2>2, <2>3, SetStateJobs
  <2> QED
    BY <1>0, <2>2, <2>4 DEF RecordStep, Job
<1>7. \/ Poll \/ Place \/ StartFails \/ Clean \/ CleanFails
      \/ \E spec \in Submissions : Submit(spec) \/ SubmitFails(spec)
      \/ \E j \in Id : CancelPending(j) \/ CancelPendingFails(j)
      \/ UNCHANGED disk
  BY DEF Next, DaemonStep, Request, Boot, Crash, Stop, Restart, Die, Skip, Spawn, EndTick,
    CancelRunning, Exclude, Include, Refresh, Report, Exit
<1> QED
  BY <1>1, <1>2, <1>3, <1>4, <1>5, <1>6, <1>7

\* A final state on disk is in memory too while the daemon is up.
LEMMA FinalAgree ==
  ASSUME IndInv, Up, NEW i \in Finished(disk)
  PROVE  mem.jobs[i] = disk.jobs[i]
BY DEF IndInv, StoresAgree, Finished, Terminal

\* A final state in state.json is never replaced by another one, whatever saves fail
\* and however often the daemon restarts; only the seven-day cleanup ends it.
THEOREM FinalStatesAreFinal == Spec => FinalIsFinal
<1>1. ASSUME IndInv, [Next]_vars, NEW i \in Finished(disk)
      PROVE  disk'.jobs[i].state \in {disk.jobs[i].state, "ABSENT"}
  <2>1. CASE disk'.jobs[i] = disk.jobs[i]
    BY <2>1
  <2>2. CASE disk'.jobs[i] # disk.jobs[i]
    <3>1. i \in Id /\ disk.jobs[i].state \in Terminal
      BY DEF Finished
    <3>2. Next
      BY <1>1, <2>2 DEF vars
    <3>3. Up /\ RecordStep(i)
      BY <1>1, <2>2, <3>1, <3>2, DiskStep
    <3>4. mem.jobs[i] = disk.jobs[i]
      BY <1>1, <3>3, FinalAgree
    <3>5. i # mem.next_id + 1
      <4>1. i = mem.next_id + 1 => mem.jobs[i].state = "ABSENT"
        BY <1>1, <3>1, <3>3, NextIdFresh
      <4> QED
        BY <3>1, <3>4, <4>1 DEF Terminal
    <3> QED
      BY <3>1, <3>3, <3>4, <3>5 DEF RecordStep, Ended, Running, InState, Terminal
  <2> QED
    BY <2>1, <2>2
<1>2. IndInv /\ [Next]_vars =>
        [\A i \in Finished(disk) : disk'.jobs[i].state \in {disk.jobs[i].state, "ABSENT"}]_vars
  BY <1>1
<1> QED
  BY <1>2, Invariance, PTL DEF Spec, FinalIsFinal

\* What the acknowledgements and the final states on disk promise is inductive on top
\* of IndInv.
LEMMA AckStep == IndInv /\ AckDurable /\ [Next]_vars => AckDurable'
<1> SUFFICES ASSUME IndInv, AckDurable, [Next]_vars,
                    NEW i \in Id, NEW spec \in acked'[i]
             PROVE  /\ acked'[i] = {spec}
                    /\ \/ i \in forgotten'
                       \/ disk'.jobs[i].state # "ABSENT" /\ disk'.jobs[i].spec = spec
  BY DEF AckDurable
<1>1. CASE UNCHANGED vars
  BY <1>1 DEF AckDurable, vars, observed
<1>2. CASE Next /\ acked'[i] # acked[i]
  <2>1. PICK s \in Submissions : Submit(s)
    BY <1>2 DEF Next, DaemonStep, Request, Boot, Crash, Stop, Restart, Die, Poll, Skip, Place,
      Spawn, StartFails, EndTick, Clean, CleanFails, SubmitFails, CancelPending,
      CancelPendingFails, CancelRunning, Exclude, Include, Refresh, Report, Exit, observed
  <2>2. Up /\ mem \in Store /\ mem.next_id < MaxId /\ acked \in [Id -> SUBSET Submission]
    BY <2>1 DEF Submit, Submittable, Up, IndInv, TypeOK
  <2>3. /\ mem.next_id + 1 \in Id
        /\ Submitted(s).next_id = mem.next_id + 1
        /\ \A j \in Id : Submitted(s).jobs[j] =
             IF j = mem.next_id + 1
             THEN [state |-> "PENDING", spec |-> Pinned(s, pool), devices |-> {}]
             ELSE mem.jobs[j]
    BY <2>2, SubmittedJobs
  <2>4. acked' = [acked EXCEPT ![mem.next_id + 1] = @ \cup {Pinned(s, pool)}]
        /\ disk' = Submitted(s)
    BY <2>1, <2>3 DEF Submit
  <2>5. i = mem.next_id + 1
    BY <1>2, <2>2, <2>4
  <2>6. acked[i] = {}
    BY <2>2, <2>5, NextIdFresh
  <2> QED
    BY <2>2, <2>3, <2>4, <2>5, <2>6
<1>3. CASE Next /\ acked'[i] = acked[i]
  <2>1. forgotten \subseteq forgotten'
    BY <1>3 DEF Next, DaemonStep, Request, Boot, Crash, Stop, Restart, Die, Poll, Skip, Place,
      Spawn, StartFails, EndTick, Clean, CleanFails, Submit, SubmitFails, CancelPending,
      CancelPendingFails, CancelRunning, Exclude, Include, Refresh, Report, Exit, observed
  <2>2. acked[i] = {spec} /\ (i \in forgotten \/
          (disk.jobs[i].state # "ABSENT" /\ disk.jobs[i].spec = spec))
    BY <1>3 DEF AckDurable
  <2>3. CASE disk'.jobs[i] = disk.jobs[i] \/ i \in forgotten
    BY <1>3, <2>1, <2>2, <2>3
  <2>4. CASE disk'.jobs[i] # disk.jobs[i] /\ i \notin forgotten
    <3>1. Up /\ RecordStep(i)
      BY <1>3, <2>4, DiskStep
    <3>2. mem.jobs[i].state # "ABSENT" /\ mem.jobs[i].spec = spec
      <4>1. mem.jobs[i] \in Job /\ disk.jobs[i] \in Job
        BY DEF IndInv, TypeOK, Store
      <4> QED
        BY <2>2, <2>4, <3>1, <4>1 DEF IndInv, StoresAgree, Job, Terminal
    <3>3. i # mem.next_id + 1
      BY <2>2, <3>1, NextIdFresh
    <3> QED
      BY <1>3, <2>2, <3>1, <3>2, <3>3 DEF RecordStep, Terminal
  <2> QED
    BY <2>3, <2>4
<1> QED
  BY <1>1, <1>2, <1>3

\* A submission acknowledged by Submit stays in state.json, under its own ID and with
\* what was submitted, until cleanup forgets it.
THEOREM AcknowledgedIsDurable == Spec => []AckDurable
<1>1. Init => AckDurable
  BY DEF Init, AckDurable
<1> QED
  BY <1>1, Invariance, AckStep, PTL DEF Spec

LEMMA OutcomeStep == IndInv /\ OutcomeTruthful /\ [Next]_vars => OutcomeTruthful'
<1> SUFFICES ASSUME IndInv, OutcomeTruthful, [Next]_vars,
                    NEW i \in Finished(disk'), result'[i] # {}
             PROVE  disk'.jobs[i].state \in result'[i]
  BY DEF OutcomeTruthful, Finished
<1>0. i \in Id /\ disk'.jobs[i].state \in Terminal
  BY DEF Finished
<1>1. CASE disk'.jobs[i] = disk.jobs[i]
  <2>1. i \in Finished(disk) /\ i \notin Live
    BY <1>0, <1>1 DEF Finished, IndInv, LiveIsRecorded, Terminal
  <2>2. result'[i] = result[i]
    BY <1>0, <2>1 DEF Next, DaemonStep, Request, Boot, Crash, Stop, Restart, Die, Poll, Skip,
      Place, Spawn, StartFails, EndTick, Clean, CleanFails, Delete, Submit, SubmitFails,
      CancelPending, CancelPendingFails, CancelRunning, Exclude, Include, Refresh, Report,
      Exit, vars, files, Live, IndInv, TypeOK
  <2> QED
    BY <1>1, <2>1, <2>2 DEF OutcomeTruthful
<1>2. CASE disk'.jobs[i] # disk.jobs[i]
  <2>1. Next
    BY <1>2 DEF vars
  <2>2. Up /\ RecordStep(i)
    BY <1>0, <1>2, <2>1, DiskStep
  <2>3. result'[i] = result[i]
    BY <1>0, <1>2, <2>1 DEF Next, DaemonStep, Request, Boot, Crash, Stop, Restart, Die, Poll,
      Skip, Place, Spawn, StartFails, EndTick, Clean, CleanFails, Delete, Submit, SubmitFails,
      CancelPending, CancelPendingFails, CancelRunning, Exclude, Include, Refresh, Report,
      Exit, files
  <2>4. mem.jobs[i].state = "PENDING" \/ launched[i] = 0 => result[i] = {}
    BY <1>0, <2>2, RunningAgree DEF IndInv, LaunchRecorded
  <2>5. disk'.jobs[i] = mem.jobs[i] => result[i] = {}
    <3> SUFFICES ASSUME disk'.jobs[i] = mem.jobs[i] PROVE result[i] = {}
      OBVIOUS
    <3>1. disk.jobs[i].state = "PENDING" \/ result[i] = {}
      BY <1>0, <1>2, <2>2 DEF IndInv, StoresAgree, Terminal
    <3>2. disk.jobs[i].state = "PENDING" => result[i] = {}
      BY <1>0 DEF IndInv, LaunchRecorded
    <3> QED
      BY <3>1, <3>2
  <2> QED
    BY <1>0, <2>2, <2>3, <2>4, <2>5 DEF RecordStep, Terminal
<1> QED
  BY <1>1, <1>2

\* What state.json says about a finished job never contradicts {id}.result.
THEOREM HistoryIsTruthful == Spec => []OutcomeTruthful
<1>1. Init => OutcomeTruthful
  BY DEF Init, OutcomeTruthful, Finished, EmptyStore
<1> QED
  BY <1>1, Invariance, OutcomeStep, PTL DEF Spec

-----------------------------------------------------------------------------
(***************************************************************************)
(* What tick (scheduler.rs) does with the queue: its single pass over the  *)
(* sorted queue leaves no pending job that would fit, takes the largest    *)
(* first, and never exceeds a --max-running that stays the same.           *)
(***************************************************************************)
Pending == InState(mem, "PENDING")

\* What is reserved when the devices of job i are not counted.
ReservedBut(i) ==
  UNION {mem.jobs[k].devices : k \in Running \ {i}} \cup excluded \cup (pool \ idle)

\* No pending job that the loop has passed fits, also if the start under way fails and gives its
\* devices back.
PassedOver ==
  /\ daemon = "place" => \A j \in Pending \ todo : Offer(j) = {}
  /\ daemon = "spawn" =>
       \A j \in Pending \ todo : Allocate(mem.jobs[j].spec, pool, ReservedBut(cur)) = {}

LEMMA PollPasses ==
  ASSUME IndInv, Poll
  PROVE  PassedOver'
<1>0. TypeOK
  BY DEF IndInv
<1>1. \A j \in Id : mem'.jobs[j] =
        IF j \in Ended THEN [mem.jobs[j] EXCEPT !.state = Outcome(j)] ELSE mem.jobs[j]
  BY <1>0, CollectedJobs DEF Poll
<1>2. ASSUME NEW j \in Id, mem'.jobs[j].state = "PENDING"
      PROVE  j \in todo'
  <2>1. mem.jobs[j] \in Job
    BY <1>0 DEF TypeOK, Store
  <2>2. j \notin Ended
    BY <1>0, <1>1, <1>2, <2>1, OutcomeType DEF Job, Terminal
  <2> QED
    BY <1>1, <1>2, <2>2 DEF Poll, InState
<1> QED
  BY <1>2 DEF Poll, PassedOver, Pending, InState

LEMMA SkipPasses ==
  ASSUME PassedOver, Skip
  PROVE  PassedOver'
BY DEF PassedOver, Skip, Pending, InState, Offer, Reserved, Running, config

LEMMA PlacePasses ==
  ASSUME IndInv, PassedOver, Place
  PROVE  PassedOver'
<1>0. TypeOK /\ mem \in Store
  BY DEF IndInv, TypeOK
<1>1. PICK i \in Heads : \E devices \in Offer(i) :
        mem' = Assigned(i, devices) /\ cur' = i /\ todo' = todo \ {i}
  BY DEF Place
<1>2. PICK devices \in Offer(i) : mem' = Assigned(i, devices)
  BY <1>1
<1>3. i \in Id /\ mem.jobs[i].state = "PENDING" /\ devices \in SUBSET Device
  <2>1. devices \subseteq pool
    BY <1>2, AllocateSound DEF Offer
  <2> QED
    BY <1>0, <2>1 DEF Heads, TypeOK, IndInv, InFlight
<1>4. \A j \in Id : mem'.jobs[j] =
        IF j = i THEN [mem.jobs[i] EXCEPT !.state = "RUNNING", !.devices = devices] ELSE mem.jobs[j]
  <2>1. \A j \in Id : Assigned(i, devices).jobs[j] =
          IF j = i THEN [mem.jobs[i] EXCEPT !.state = "RUNNING", !.devices = devices] ELSE mem.jobs[j]
    BY <1>0, <1>3, AssignedJobs
  <2> QED
    BY <1>2, <2>1
<1>5. mem'.jobs[i].state = "RUNNING" /\ \A j \in Id \ {i} : mem'.jobs[j] = mem.jobs[j]
  BY <1>0, <1>3, <1>4 DEF Store, Job
<1>6. Pending' = Pending \ {i} /\ Running' = Running \cup {i} /\ i \notin Running
  BY <1>3, <1>5 DEF Pending, Running, InState
<1>7. ReservedBut(cur)' = Reserved
  <2>1. Running' \ {i} = Running
    BY <1>6
  <2>2. \A k \in Running : mem'.jobs[k].devices = mem.jobs[k].devices
    BY <1>5, <1>6 DEF Running, InState
  <2>3. {mem'.jobs[k].devices : k \in Running' \ {i}} = {mem.jobs[k].devices : k \in Running}
    BY <2>1, <2>2
  <2> QED
    BY <1>1, <2>3 DEF ReservedBut, Reserved, Place, config
<1>8. \A j \in Pending' \ todo' :
        Allocate(mem'.jobs[j].spec, pool', ReservedBut(cur)') = {}
  <2> SUFFICES ASSUME NEW j \in Pending' \ todo'
               PROVE  Allocate(mem'.jobs[j].spec, pool', ReservedBut(cur)') = {}
    OBVIOUS
  <2>1. j \in Pending \ todo /\ mem'.jobs[j] = mem.jobs[j]
    BY <1>1, <1>5, <1>6 DEF Pending, InState
  <2>2. Offer(j) = {}
    BY <2>1 DEF PassedOver, Place
  <2> QED
    BY <1>7, <2>1, <2>2 DEF Offer, Place, config
<1> QED
  BY <1>8 DEF PassedOver, Place

\* The devices of the job just started are reserved again: nothing that did not fit does now.
LEMMA SpawnPasses ==
  ASSUME IndInv, PassedOver, Spawn
  PROVE  PassedOver'
<1>0. TypeOK /\ daemon = "spawn" /\ UNCHANGED <<mem, todo, pool, idle, excluded>>
  BY DEF IndInv, Spawn, config
<1>1. ASSUME NEW j \in Pending \ todo PROVE Offer(j) = {}
  <2>1. ReservedBut(cur) \subseteq Reserved
    BY DEF ReservedBut, Reserved
  <2>2. mem.jobs[j].spec \in Submission /\ pool \in SUBSET Device
    BY <1>0 DEF Pending, InState, TypeOK, Store, Job
  <2>3. Allocate(mem.jobs[j].spec, pool, ReservedBut(cur)) = {}
    BY <1>0 DEF PassedOver
  <2> QED
    BY <2>1, <2>2, <2>3, AllocateMonotone DEF Offer
<1>2. daemon' = "place" /\ Pending' = Pending /\ \A j \in Id : Offer(j)' = Offer(j)
  BY <1>0 DEF Spawn, Pending, InState, Offer, Reserved, Running
<1> QED
  BY <1>0, <1>1, <1>2 DEF PassedOver, Pending, InState

\* A start that fails gives back what was taken for it, and nothing else.
LEMMA StartFailsPasses ==
  ASSUME IndInv, PassedOver, StartFails
  PROVE  PassedOver'
<1>0. TypeOK /\ mem \in Store /\ cur \in Id /\ mem.jobs[cur].state = "RUNNING"
  BY DEF IndInv, TypeOK, InFlight, StartFails
<1>1. \A j \in Id : mem'.jobs[j] =
        IF j = cur THEN [mem.jobs[cur] EXCEPT !.state = "FAILED"] ELSE mem.jobs[j]
  <2>1. "FAILED" \in States
    BY DEF States, Terminal
  <2> QED
    BY <1>0, <2>1, SetStateJobs DEF StartFails
<1>2. mem'.jobs[cur].state = "FAILED" /\ \A j \in Id \ {cur} : mem'.jobs[j] = mem.jobs[j]
  BY <1>0, <1>1 DEF Store, Job
<1>3. Pending' = Pending /\ Running' = Running \ {cur}
  BY <1>0, <1>2 DEF Pending, Running, InState
<1>4. Reserved' = ReservedBut(cur)
  <2>1. \A k \in Running \ {cur} : mem'.jobs[k].devices = mem.jobs[k].devices
    BY <1>2 DEF Running, InState
  <2>2. {mem'.jobs[k].devices : k \in Running'} = {mem.jobs[k].devices : k \in Running \ {cur}}
    BY <1>3, <2>1
  <2> QED
    BY <2>2 DEF ReservedBut, Reserved, StartFails, config
<1>5. ASSUME NEW j \in Pending' \ todo' PROVE Offer(j)' = {}
  <2>1. j \in Pending \ todo /\ mem'.jobs[j] = mem.jobs[j]
    BY <1>0, <1>2, <1>3 DEF Pending, InState, StartFails
  <2> QED
    BY <1>4, <2>1 DEF PassedOver, Offer, StartFails, config
<1> QED
  BY <1>5 DEF PassedOver, StartFails

LEMMA PassedOverStep == IndInv /\ PassedOver /\ [Next]_vars => PassedOver'
<1> SUFFICES ASSUME IndInv, PassedOver, [Next]_vars PROVE PassedOver'
  OBVIOUS
<1>1. CASE daemon' \notin {"place", "spawn"}
  BY <1>1 DEF PassedOver
<1>2. CASE UNCHANGED <<daemon, volatile>>
  <2>1. UNCHANGED <<daemon, mem, todo, cur, pool, idle, excluded>>
    BY <1>2 DEF volatile
  <2>2. Pending' = Pending /\ (\A j \in Id : Offer(j)' = Offer(j)) /\ ReservedBut(cur)' = ReservedBut(cur)
    BY <2>1 DEF Pending, InState, Offer, Reserved, ReservedBut, Running
  <2> QED
    BY <2>1, <2>2 DEF PassedOver, Pending, InState
<1>3. \/ Poll \/ Skip \/ Place \/ Spawn \/ StartFails
      \/ daemon' \notin {"place", "spawn"} \/ UNCHANGED <<daemon, volatile>>
  BY DEF Next, DaemonStep, Request, Boot, Crash, Stop, Restart, Die, EndTick, Clean, CleanFails,
    Submit, SubmitFails, Submittable, CancelPending, CancelPendingFails, CancelRunning, Exclude,
    Include, Refresh, Report, Exit, vars
<1> QED
  BY <1>1, <1>2, <1>3, PollPasses, SkipPasses, PlacePasses, SpawnPasses, StartFailsPasses

THEOREM PassedOverInvariance == Spec => []PassedOver
<1>1. Init => PassedOver
  BY DEF Init, PassedOver
<1> QED
  BY <1>1, PassedOverStep, Invariance, PTL DEF Spec

\* A tick ends at the limit or when nothing that waits would fit, although its loop goes over the
\* queue once and starts fail on the way.
THEOREM TicksConserveWork == Spec => WorkConserving
<1> DEFINE Done ==
      daemon = "place" /\ daemon' = "tidy" =>
        Full \/ \A j \in InState(mem, "PENDING") : Offer(j) = {}
<1>1. PassedOver /\ [Next]_vars => [Done]_vars
  <2> SUFFICES ASSUME PassedOver, Next, daemon = "place", daemon' = "tidy"
               PROVE  Full \/ \A j \in InState(mem, "PENDING") : Offer(j) = {}
    OBVIOUS
  <2>1. EndTick
    BY DEF Next, DaemonStep, Request, Boot, Crash, Stop, Restart, Die, Poll, Skip, Place, Spawn,
      StartFails, Clean, CleanFails, Submit, SubmitFails, Submittable, CancelPending,
      CancelPendingFails, CancelRunning, Exclude, Include, Refresh, Report, Exit, vars, volatile
  <2> QED
    BY <2>1 DEF EndTick, PassedOver, Pending
<1> QED
  BY <1>1, PassedOverInvariance, PTL DEF Spec, WorkConserving

\* tick places the largest pending job that fits, the oldest among equals.
THEOREM LargestGoesFirst == Spec => BiggestFirst
<1> DEFINE Right ==
      cur' # cur /\ cur' # 0 =>
        LET count(i) == mem.jobs[i].spec.count
        IN  \A j \in InState(mem, "PENDING") :
              count(j) > count(cur') \/ (count(j) = count(cur') /\ j < cur') => Offer(j) = {}
<1>1. IndInv /\ PassedOver /\ [Next]_vars => [Right]_vars
  <2> SUFFICES ASSUME IndInv, PassedOver, Next, cur' # cur, cur' # 0,
                      NEW j \in InState(mem, "PENDING"),
                      \/ mem.jobs[j].spec.count > mem.jobs[cur'].spec.count
                      \/ mem.jobs[j].spec.count = mem.jobs[cur'].spec.count /\ j < cur'
               PROVE  Offer(j) = {}
    OBVIOUS
  <2>1. Place
    BY DEF Next, DaemonStep, Request, Boot, Crash, Stop, Restart, Die, Poll, Skip, EndTick, Spawn,
      StartFails, Clean, CleanFails, Submit, SubmitFails, Submittable, CancelPending,
      CancelPendingFails, CancelRunning, Exclude, Include, Refresh, Report, Exit, vars, volatile
  <2>2. cur' \in Heads
    BY <2>1 DEF Place
  <2>3. cur' \in Id /\ j \in Id
    BY <2>2 DEF Heads, IndInv, TypeOK, InState
  <2>4. mem.jobs[j].spec.count \in Nat /\ mem.jobs[cur'].spec.count \in Nat
    BY <2>3 DEF IndInv, TypeOK, Store, Job, Submission
  <2>5. cur' # j
    BY <2>3, <2>4 DEF Id
  <2>6. ~Before(cur', j)
    BY <2>3, <2>4, SchedulerAssumption DEF Before, Id
  <2>7. j \notin todo
    BY <2>2, <2>5, <2>6 DEF Heads
  <2> QED
    BY <2>1, <2>7 DEF PassedOver, Pending, Place
<1> QED
  BY <1>1, PassedOverInvariance, Invariance, PTL DEF Spec, BiggestFirst

-----------------------------------------------------------------------------
(***************************************************************************)
(* The concurrency limit, when every daemon is started with the same one.  *)
(***************************************************************************)
Bounded(L) ==
  /\ Up => limit = L
  /\ Cardinality(InState(disk, "RUNNING")) <= L

LEMMA FiniteJobs ==
  ASSUME NEW S \in SUBSET Id
  PROVE  IsFiniteSet(S) /\ Cardinality(S) \in Nat
<1>1. IsFiniteSet(Id)
  BY SchedulerAssumption, FS_Interval DEF Id
<1> QED
  BY <1>1, FS_Subset, FS_CardinalityType

\* Only placing a job makes one more job run.
LEMMA FewerRun ==
  ASSUME IndInv, [Next]_vars, ~Place
  PROVE  InState(disk', "RUNNING") \subseteq InState(disk, "RUNNING")
<1>0. TypeOK /\ mem \in Store
  BY DEF IndInv, TypeOK
<1> SUFFICES ASSUME NEW i \in Id, disk'.jobs[i].state = "RUNNING", disk' # disk
             PROVE  disk.jobs[i].state = "RUNNING"
  BY DEF InState
<1> SUFFICES Up /\ mem.jobs[i].state = "RUNNING"
  BY RunningAgree
<1>1. CASE Poll
  <2>1. disk' = Collected
    BY <1>1 DEF Poll
  <2>2. i \notin Ended
    BY <1>0, <2>1, CollectedJobs, OutcomeType DEF Store, Job, Terminal
  <2> QED
    BY <1>0, <1>1, <2>1, <2>2, CollectedJobs DEF Poll, Up
<1>2. CASE StartFails \/ \E j \in Id : CancelPending(j) \/ CancelPendingFails(j)
  <2>1. PICK j \in Id, s \in {"FAILED", "CANCELLED"} : disk' = SetState(mem, j, s)
    BY <1>2 DEF StartFails, CancelPending, CancelPendingFails, IndInv, InFlight
  <2>2. s \in States
    BY DEF States, Terminal
  <2>3. disk'.jobs[i] = IF i = j THEN [mem.jobs[j] EXCEPT !.state = s] ELSE mem.jobs[i]
    BY <1>0, <2>1, <2>2, SetStateJobs
  <2>4. i # j
    BY <1>0, <2>3 DEF Store, Job
  <2> QED
    BY <1>2, <2>3, <2>4 DEF StartFails, CancelPending, CancelPendingFails, Up
<1>3. CASE Clean \/ CleanFails
  <2>1. PICK expired \in SUBSET Id : disk' = Forget(expired)
    BY <1>3 DEF Clean, CleanFails, Finished
  <2>2. disk'.jobs[i] = IF i \in expired THEN NoJob ELSE mem.jobs[i]
    BY <1>0, <2>1, ForgetJobs
  <2> QED
    BY <1>3, <2>2 DEF NoJob, Clean, CleanFails, Up
<1>4. CASE \E s \in Submissions : Submit(s) \/ SubmitFails(s)
  <2>1. PICK s \in Submissions : disk' = Submitted(s) /\ Submittable(s)
    BY <1>4 DEF Submit, SubmitFails
  <2>2. Up /\ mem.next_id < MaxId
    BY <2>1 DEF Submittable, Up
  <2>3. i # mem.next_id + 1 => Submitted(s).jobs[i] = mem.jobs[i]
    BY <1>0, <2>2, SubmittedJobs
  <2>4. i = mem.next_id + 1 =>
          Submitted(s).jobs[i] = [state |-> "PENDING", spec |-> Pinned(s, pool), devices |-> {}]
    BY <1>0, <2>2, SubmittedJobs
  <2> QED
    BY <2>1, <2>2, <2>3, <2>4
<1>5. \/ Poll \/ StartFails \/ Clean \/ CleanFails
      \/ (\E j \in Id : CancelPending(j) \/ CancelPendingFails(j))
      \/ \E s \in Submissions : Submit(s) \/ SubmitFails(s)
  BY DEF Next, DaemonStep, Request, Boot, Crash, Stop, Restart, Die, Skip, EndTick, Spawn,
    CancelRunning, Exclude, Include, Refresh, Report, Exit, vars
<1> QED
  BY <1>1, <1>2, <1>3, <1>4, <1>5

\* Placing makes the one job that it chose run, and only below the limit.
LEMMA PlaceBounded ==
  ASSUME NEW L \in Nat, IndInv, Bounded(L), Place
  PROVE  Cardinality(InState(disk', "RUNNING")) <= L
<1>0. TypeOK /\ mem \in Store /\ Up
  BY DEF IndInv, TypeOK, Place, Up
<1>1. PICK i \in Heads : \E devices \in Offer(i) :
        mem' = Assigned(i, devices) /\ cur' = i /\ todo' = todo \ {i}
  BY DEF Place
<1>2. PICK devices \in Offer(i) : mem' = Assigned(i, devices)
  BY <1>1
<1>3. i \in Id /\ devices \in SUBSET Device
  <2>1. devices \subseteq pool
    BY <1>2, AllocateSound DEF Offer
  <2> QED
    BY <1>0, <2>1 DEF Heads, TypeOK
<1>4. InState(disk', "RUNNING") \subseteq Running \cup {i}
  <2>1. \A j \in Id : Assigned(i, devices).jobs[j] =
          IF j = i THEN [mem.jobs[i] EXCEPT !.state = "RUNNING", !.devices = devices] ELSE mem.jobs[j]
    BY <1>0, <1>3, AssignedJobs
  <2>2. \A j \in Id \ {i} : disk'.jobs[j] = mem.jobs[j]
    BY <1>2, <2>1 DEF Place
  <2> QED
    BY <2>2 DEF Running, InState
<1>5. Running \in SUBSET Id /\ IsFiniteSet(Running) /\ Cardinality(Running) \in Nat
  BY FiniteJobs DEF Running, InState
<1>6. Cardinality(Running) < L
  BY <1>0, <1>5 DEF Place, Full, Bounded
<1>7. /\ IsFiniteSet(Running \cup {i})
      /\ Cardinality(Running \cup {i}) <= Cardinality(Running) + 1
      /\ Cardinality(Running \cup {i}) \in Nat
  <2>1. Running \cup {i} \in SUBSET Id
    BY <1>3, <1>5
  <2> QED
    BY <1>5, <2>1, FiniteJobs, FS_AddElement
<1>8. Cardinality(InState(disk', "RUNNING")) <= Cardinality(Running \cup {i})
  BY <1>4, <1>7, FS_Subset
<1>9. Cardinality(InState(disk', "RUNNING")) \in Nat
  BY FiniteJobs DEF InState
<1> QED
  BY <1>5, <1>6, <1>7, <1>8, <1>9

LEMMA BoundedStep ==
  ASSUME NEW L \in Nat, Limits \subseteq {L}
  PROVE  IndInv /\ Bounded(L) /\ [Next]_vars => Bounded(L)'
<1> SUFFICES ASSUME IndInv, Bounded(L), [Next]_vars PROVE Bounded(L)'
  OBVIOUS
<1>1. Up' => limit' = L
  <2>1. Boot \/ (Up' => Up /\ limit' = limit)
    BY DEF Up, Next, DaemonStep, Request, Crash, Stop, Restart, Die, Poll, Skip, Place, EndTick, Spawn,
      StartFails, Clean, CleanFails, Submit, SubmitFails, Submittable, CancelPending,
      CancelPendingFails, CancelRunning, Exclude, Include, Refresh, Report, Exit, vars, volatile, config
  <2> QED
    BY <2>1 DEF Boot, Bounded
<1>2. CASE Place
  BY <1>1, <1>2, PlaceBounded DEF Bounded, InState
<1>3. CASE ~Place
  <2>1. InState(disk', "RUNNING") \subseteq InState(disk, "RUNNING")
    BY <1>3, FewerRun
  <2>2. /\ InState(disk, "RUNNING") \in SUBSET Id
        /\ InState(disk', "RUNNING") \in SUBSET Id
    BY DEF InState
  <2>3. Cardinality(InState(disk', "RUNNING")) <= Cardinality(InState(disk, "RUNNING"))
    BY <2>1, <2>2, FiniteJobs, FS_Subset
  <2>4. Cardinality(InState(disk', "RUNNING")) <= L
    BY <2>2, <2>3, FiniteJobs DEF Bounded
  <2> QED
    BY <1>1, <2>4 DEF Bounded, InState
<1> QED
  BY <1>2, <1>3

\* At most --max-running jobs run after a tick (tick, scheduler.rs:203-205), also when a daemon
\* adopts the jobs of one that crashed, as long as the option stays what it was.
THEOREM LimitHolds ==
  ASSUME NEW L \in Nat, Limits \subseteq {L}
  PROVE  Spec => []MaxRunningRespected
<1>1. Init => Bounded(L)
  <2>1. ASSUME Init PROVE InState(disk, "RUNNING") = {}
    BY <2>1 DEF Init, EmptyStore, NoJob, InState
  <2> QED
    BY <2>1, FS_EmptySet DEF Init, Up, Bounded
<1>2. IndInv /\ Bounded(L) /\ [Next]_vars => Bounded(L)'
  BY BoundedStep
<1>3. IndInv /\ Bounded(L) => MaxRunningRespected
  <2> SUFFICES ASSUME IndInv, Bounded(L), Up PROVE Cardinality(Running) <= limit
    BY DEF MaxRunningRespected, Up
  <2>1. Running = InState(disk, "RUNNING")
    BY RunningAgree DEF Running, InState
  <2> QED
    BY <2>1 DEF Bounded
<1> QED
  BY <1>1, <1>2, <1>3, Invariance, PTL DEF Spec
=============================================================================
