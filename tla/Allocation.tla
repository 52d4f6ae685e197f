----------------------------- MODULE Allocation -----------------------------
(***************************************************************************)
(* Which devices a submission gets, and which submissions are accepted:    *)
(* allocate, matching_kinds and the checks of submit in scheduler.rs.      *)
(*                                                                         *)
(* Devices are numbered in inventory order (the order the vendor backends  *)
(* were discovered in); KindOf and IdOf are their vendor and the logical   *)
(* ID a user types.  A Rust Option is a set with at most one member, so    *)
(* None is {} and Allocate returns a set with at most one set of devices.  *)
(***************************************************************************)
EXTENDS Naturals, FiniteSets, Sequences, Functions

CONSTANTS
  Device,   \* every device any inventory of this host may list
  Kind,     \* the vendors
  Rank,     \* position of a vendor in Kind::PRIORITY
  KindOf,   \* vendor of a device
  IdOf      \* logical ID of a device, unique only within its vendor

ASSUME DeviceAssumption ==
  /\ Device \in SUBSET Nat
  /\ IsFiniteSet(Device)
  /\ KindOf \in [Device -> Kind]
  /\ IdOf \in [Device -> Nat]

\* Kind::PRIORITY is a fixed array without repetitions: every set of vendors has
\* exactly one that comes first in it.
ASSUME PriorityAssumption ==
  /\ Rank \in [Kind -> Nat]
  /\ \A k, l \in Kind : Rank[k] = Rank[l] => k = l
  /\ \A K \in SUBSET Kind : K # {} => \E k \in K : \A l \in K : Rank[k] <= Rank[l]

\* The part of a Submission that placement reads.
Submission ==
  [count      : Nat,
   device_ids : SUBSET Seq(Nat),   \* Option: -i, exact logical IDs
   exclude    : SUBSET Nat,        \* -x, per-job exclusions
   kind       : SUBSET Kind]       \* Option: --device

Wants(spec, k) == spec.kind = {} \/ k \in spec.kind

First(K) == {k \in K : \A l \in K : Rank[k] <= Rank[l]}

\* The first n devices of S in inventory order.
Lowest(S, n) == {d \in S : Cardinality({e \in S : e < d}) < n}

MatchingKinds(spec, pool) ==
  {k \in Kind : /\ Wants(spec, k)
                /\ \E ids \in spec.device_ids : \A i \in Range(ids) :
                     \E d \in pool : KindOf[d] = k /\ IdOf[d] = i}

Named(k, ids, pool) ==
  UNION {Lowest({d \in pool : KindOf[d] = k /\ IdOf[d] = i}, 1) : i \in Range(ids)}

AllocateExact(spec, pool, reserved) ==
  {S \in {Named(k, ids, pool) : k \in First(MatchingKinds(spec, pool)),
                                ids \in spec.device_ids} :
     S \cap reserved = {}}

Free(spec, k, pool, reserved) ==
  {d \in pool : KindOf[d] = k /\ d \notin reserved /\ IdOf[d] \notin spec.exclude}

Fitting(spec, pool, reserved) ==
  {k \in Kind : Wants(spec, k) /\ Cardinality(Free(spec, k, pool, reserved)) >= spec.count}

\* Mutant of AllocateAny: any vendor with room, ignoring Kind::PRIORITY.
Mut_AnyVendor(spec, pool, reserved) ==
  {Lowest(Free(spec, k, pool, reserved), spec.count) : k \in Fitting(spec, pool, reserved)}

AllocateAny(spec, pool, reserved) ==
  {Lowest(Free(spec, k, pool, reserved), spec.count) :
     k \in First(Fitting(spec, pool, reserved))}

Allocate(spec, pool, reserved) ==
  IF spec.device_ids # {} THEN AllocateExact(spec, pool, reserved)
  ELSE IF spec.count = 0 THEN {{}}
  ELSE AllocateAny(spec, pool, reserved)

-----------------------------------------------------------------------------
(***************************************************************************)
(* Admission: the checks of submit, and the vendor it writes into a        *)
(* submission that names exact IDs.                                        *)
(***************************************************************************)

\* Mutant of Pinned: the vendor found at submission time is not stored.
Mut_Unpinned(spec, pool) == spec

Pinned(spec, pool) ==
  IF spec.device_ids = {} THEN spec
  ELSE [spec EXCEPT !.kind = MatchingKinds(spec, pool)]

ExactIdsAccepted(spec, ids, pool, excluded) ==
  /\ ids # <<>>
  /\ spec.count = Len(ids)
  /\ IsInjective(ids)
  /\ spec.exclude = {}
  /\ Cardinality(MatchingKinds(spec, pool)) = 1
  /\ \A d \in pool :
       KindOf[d] \in MatchingKinds(spec, pool) /\ IdOf[d] \in Range(ids) => d \notin excluded

\* Mutant of Accepts: the comparison of count with the list is dropped.
Mut_UncheckedIds(spec, pool, excluded) ==
  Allocate(Pinned(spec, pool), pool, excluded) # {}

Accepts(spec, pool, excluded) ==
  /\ \A ids \in spec.device_ids : ExactIdsAccepted(spec, ids, pool, excluded)
  /\ Allocate(Pinned(spec, pool), pool, excluded) # {}

-----------------------------------------------------------------------------
(***************************************************************************)
(* The command line: the submission that options -g, -i, -x and --device   *)
(* ask for, if the client accepts them.                                    *)
(***************************************************************************)

Requested(o) ==
  LET exact == o.device_ids # <<>>
      counts == IF exact THEN {Len(o.device_ids)} ELSE IF o.gpus = {} THEN {1} ELSE o.gpus
  IN  IF \/ ~IsInjective(o.exclude)
         \/ exact /\ (~IsInjective(o.device_ids) \/ o.exclude # <<>> \/ ~(o.gpus \subseteq counts))
      THEN {}
      ELSE {[count      |-> n,
             device_ids |-> IF exact THEN {o.device_ids} ELSE {},
             exclude    |-> Range(o.exclude),
             kind       |-> o.device] : n \in counts}
=============================================================================
