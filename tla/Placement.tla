------------------------------ MODULE Placement ------------------------------
(***************************************************************************)
(* Submissions, sent by any client or typed at the command line, against   *)
(* an inventory whose devices are reserved and released meanwhile: what    *)
(* submit and allocate (scheduler.rs) make of them, and which devices the  *)
(* job's payload then sees (executor.rs).  A behaviour poses one           *)
(* submission after another.                                               *)
(***************************************************************************)
EXTENDS Allocation, Environment, FiniteSetsExt

CONSTANTS
  Submissions,  \* what clients may send
  Options       \* what users may type: an option that is not there is {} or <<>>

AtMostOne(S) == \A x, y \in S : x = y

\* A submission has one list of exact IDs at most (an Option); Kind is an enum of a few vendors.
ASSUME PlacementAssumption ==
  /\ Submissions \subseteq Submission
  /\ \A s \in Submissions : AtMostOne(s.device_ids)
  /\ Options \subseteq
       [gpus : SUBSET Nat, device_ids : Seq(Nat), exclude : Seq(Nat), device : SUBSET Kind]
  /\ \A o \in Options : AtMostOne(o.gpus)
  /\ Kind # {} /\ IsFiniteSet(Kind)

\* The cards that a vendor's runtime tells apart differ in their number and their identifier.
ASSUME CardAssumption ==
  /\ Index \in [Device -> Nat]
  /\ \A d, e \in Device :
       KindOf[d] = KindOf[e] /\ d # e => Index[d] # Index[e] /\ Uuid[d] # Uuid[e]

\* typed: the options of a submission that came from the command line.
VARIABLES pool, reserved, spec, typed
vars == <<pool, reserved, spec, typed>>

Nothing == [count |-> 0, device_ids |-> {}, exclude |-> {}, kind |-> {}]

Init ==
  /\ pool \in SUBSET Device
  /\ reserved \in SUBSET pool
  /\ spec = Nothing
  /\ typed = {}

Reserve(d) == d \in pool \ reserved /\ reserved' = reserved \cup {d} /\ UNCHANGED <<pool, spec, typed>>
Release(d) == d \in reserved /\ reserved' = reserved \ {d} /\ UNCHANGED <<pool, spec, typed>>
Ask(s) == spec' = s /\ typed' = {} /\ UNCHANGED <<pool, reserved>>
Type(o) == spec' \in Requested(o) /\ typed' = {o} /\ UNCHANGED <<pool, reserved>>

Next ==
  \/ \E d \in Device : Reserve(d) \/ Release(d)
  \/ \E s \in Submissions : Ask(s)
  \/ \E o \in Options : Type(o)

Spec == Init /\ [][Next]_vars

TypeOK ==
  /\ pool \in SUBSET Device
  /\ reserved \in SUBSET pool
  /\ spec \in Submission /\ AtMostOne(spec.device_ids)
  /\ \A o \in typed : o \in Options /\ spec \in Requested(o)

-----------------------------------------------------------------------------
\* Every answer the documentation allows: the right number of free, not excluded
\* devices of a single wanted vendor.
Legal(s, P, R) ==
  {S \in SUBSET (P \ R) :
     /\ Cardinality(S) = s.count
     /\ \A d \in S : IdOf[d] \notin s.exclude
     /\ \E k \in Kind : Wants(s, k) /\ \A d \in S : KindOf[d] = k}

\* S comes before T: an earlier vendor, or the same one and earlier devices.
Precedes(S, T) ==
  \E d \in S, e \in T :
    \/ Rank[KindOf[d]] < Rank[KindOf[e]]
    \/ KindOf[d] = KindOf[e] /\ d < e /\ d = Min(SymDiff(S, T))

\* Automatic selection (allocate) answers with the first legal set in vendor
\* priority and inventory order, and says None only when no legal set exists.
FirstLegalChoice ==
  spec.device_ids = {} =>
    Allocate(spec, pool, reserved) =
      {S \in Legal(spec, pool, reserved) :
         \A T \in Legal(spec, pool, reserved) : T = S \/ Precedes(S, T)}

\* A submission with exact IDs that submit accepts is given exactly those IDs, one
\* device for each unit of its count and all of one vendor, whatever devices
\* joined or left the inventory and whatever was reserved in the meantime.
ExactIdsHonoured ==
  \A ids \in spec.device_ids, excluded \in {{}, reserved} :
    Accepts(spec, pool, excluded) =>
      \A P \in SUBSET Device : \A S \in Allocate(Pinned(spec, pool), P, reserved) :
        /\ {IdOf[d] : d \in S} = Range(ids)
        /\ Cardinality(S) = spec.count
        /\ S \cap reserved = {}

\* The vendor of an accepted exact request never changes: an inventory of a later
\* daemon that lists the same IDs for another vendor cannot redirect the job.
VendorPinned ==
  Accepts(spec, pool, {}) =>
    \A P \in SUBSET Device, ids \in spec.device_ids :
      \A S \in Allocate(Pinned(spec, pool), P, {}), T \in Allocate(Pinned(spec, pool), pool, {}) :
        {KindOf[d] : d \in S} = {KindOf[d] : d \in T}

\* From the command line to the payload: the devices that a job's own runtime shows it are
\* the ones it was given, and they are what its user typed (all of -i; or -g many, one without
\* -g, and none of -x), on every inventory it may start with and for every vendor whose
\* devices they are.
SeesWhatWasTyped ==
  \A o \in typed :
    Accepts(spec, pool, {}) =>
      \A P \in {pool, Device} : \A S \in Allocate(Pinned(spec, pool), P, reserved) :
        \A k \in {"nvidia", "ascend", "mthreads", "metax", "ppu", "hcu"} :
          LET cards == {d \in Device : \E e \in S : KindOf[d] = KindOf[e]}
              seen == Sees(k, Variables(S, [d \in S |-> k]), cards)
          IN  /\ seen = S
              /\ IF o.device_ids # <<>> THEN {IdOf[d] : d \in seen} = Range(o.device_ids)
                 ELSE /\ Cardinality(seen) = IF o.gpus = {} THEN 1 ELSE CHOOSE g \in o.gpus : TRUE
                      /\ \A d \in seen : IdOf[d] \notin Range(o.exclude)
=============================================================================
