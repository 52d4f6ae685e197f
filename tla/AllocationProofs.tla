-------------------------- MODULE AllocationProofs --------------------------
(***************************************************************************)
(* What allocate promises for every inventory, vendor order and request.   *)
(***************************************************************************)
EXTENDS Allocation, Environment, FiniteSetTheorems, TLAPS

LEMMA LowestSubset ==
  ASSUME NEW S, NEW n
  PROVE  Lowest(S, n) \subseteq S
BY DEF Lowest

LEMMA FirstSubset ==
  ASSUME NEW K
  PROVE  First(K) \subseteq K
BY DEF First

LEMMA FirstExists ==
  ASSUME NEW K \in SUBSET Kind, K # {}
  PROVE  First(K) # {}
BY PriorityAssumption DEF First

LEMMA NamedSubset ==
  ASSUME NEW k, NEW ids, NEW pool
  PROVE  \A d \in Named(k, ids, pool) : d \in pool /\ KindOf[d] = k
<1> SUFFICES ASSUME NEW d \in Named(k, ids, pool)
             PROVE  d \in pool /\ KindOf[d] = k
  OBVIOUS
<1>1. PICK i \in Range(ids) : d \in Lowest({e \in pool : KindOf[e] = k /\ IdOf[e] = i}, 1)
  BY DEF Named
<1>2. d \in {e \in pool : KindOf[e] = k /\ IdOf[e] = i}
  BY <1>1, LowestSubset
<1> QED
  BY <1>2

\* What allocate hands out (scheduler.rs) lies in the inventory, avoids everything
\* reserved, is of one vendor the job accepts, and avoids the job's own -x list.
THEOREM AllocateSound ==
  ASSUME NEW spec, NEW pool, NEW reserved,
         NEW S \in Allocate(spec, pool, reserved)
  PROVE  /\ S \subseteq pool
         /\ S \cap reserved = {}
         /\ \A d, e \in S : KindOf[d] = KindOf[e]
         /\ \A d \in S : Wants(spec, KindOf[d])
         /\ spec.device_ids = {} => \A d \in S : IdOf[d] \notin spec.exclude
<1>1. CASE spec.device_ids # {}
  <2>1. PICK k \in First(MatchingKinds(spec, pool)), ids \in spec.device_ids :
          S = Named(k, ids, pool) /\ S \cap reserved = {}
    BY <1>1 DEF Allocate, AllocateExact
  <2>2. Wants(spec, k)
    BY <2>1, FirstSubset DEF MatchingKinds
  <2> QED
    BY <1>1, <2>1, <2>2, NamedSubset
<1>2. CASE spec.device_ids = {} /\ spec.count = 0
  BY <1>2 DEF Allocate
<1>3. CASE spec.device_ids = {} /\ spec.count # 0
  <2>1. PICK k \in First(Fitting(spec, pool, reserved)) :
          S = Lowest(Free(spec, k, pool, reserved), spec.count)
    BY <1>3 DEF Allocate, AllocateAny
  <2>2. Wants(spec, k)
    BY <2>1, FirstSubset DEF Fitting
  <2>3. S \subseteq Free(spec, k, pool, reserved)
    BY <2>1, LowestSubset
  <2> QED
    BY <2>2, <2>3 DEF Free
<1> QED
  BY <1>1, <1>2, <1>3

\* Reserving more devices never makes a job placeable: tick may pass over a job for
\* good, because what is reserved never shrinks below what it was at that moment before
\* the tick ends (a start that fails gives back only what was taken for it).
THEOREM AllocateMonotone ==
  ASSUME NEW spec \in Submission, NEW pool \in SUBSET Device,
         NEW reserved, NEW fewer \in SUBSET reserved,
         Allocate(spec, pool, reserved) # {}
  PROVE  Allocate(spec, pool, fewer) # {}
<1>1. CASE spec.device_ids # {}
  BY <1>1 DEF Allocate, AllocateExact
<1>2. CASE spec.device_ids = {} /\ spec.count = 0
  BY <1>2 DEF Allocate
<1>3. CASE spec.device_ids = {} /\ spec.count # 0
  <2>1. PICK k \in Fitting(spec, pool, reserved) : TRUE
    BY <1>3, FirstSubset DEF Allocate, AllocateAny
  <2>2. Free(spec, k, pool, reserved) \subseteq Free(spec, k, pool, fewer)
    BY DEF Free
  <2>3. IsFiniteSet(Free(spec, k, pool, fewer))
    <3>1. Free(spec, k, pool, fewer) \subseteq Device
      BY DEF Free
    <3> QED
      BY <3>1, DeviceAssumption, FS_Subset
  <2>4. /\ Cardinality(Free(spec, k, pool, reserved)) \in Nat
        /\ Cardinality(Free(spec, k, pool, fewer)) \in Nat
        /\ Cardinality(Free(spec, k, pool, reserved)) <= Cardinality(Free(spec, k, pool, fewer))
    BY <2>2, <2>3, FS_Subset, FS_CardinalityType
  <2>5. k \in Fitting(spec, pool, fewer)
    BY <2>1, <2>4 DEF Fitting, Submission
  <2>6. First(Fitting(spec, pool, fewer)) # {}
    BY <2>5, FirstExists DEF Fitting
  <2> QED
    BY <1>3, <2>6 DEF Allocate, AllocateAny
<1> QED
  BY <1>1, <1>2, <1>3

-----------------------------------------------------------------------------
\* A card's place in a view is smaller than the size of the view.
LEMMA PlaceInView ==
  ASSUME NEW view, IsFiniteSet(view), \A d \in view : Index[d] \in Nat, NEW d \in view
  PROVE  Cardinality({e \in view : Index[e] < Index[d]}) \in 0 .. Cardinality(view) - 1
<1> DEFINE lower == {e \in view : Index[e] < Index[d]}
<1>1. lower \in SUBSET view /\ lower # view
  <2>1. d \notin lower
    BY Index[d] \in Nat
  <2> QED
    BY <2>1
<1>2. /\ Cardinality(lower) <= Cardinality(view)
      /\ Cardinality(lower) # Cardinality(view)
      /\ IsFiniteSet(lower)
  BY <1>1, FS_Subset
<1>3. Cardinality(lower) \in Nat /\ Cardinality(view) \in Nat
  BY <1>2, FS_CardinalityType
<1> QED
  BY <1>2, <1>3

\* The environment of executor.rs:169-175 shows a payload's runtime exactly the job's devices
\* among the cards of their vendor, for any number of cards with identifiers of their own.
THEOREM RuntimeSeesItsDevices ==
  ASSUME NEW cards, IsFiniteSet(cards),
         \A d, e \in cards : d # e => Index[d] # Index[e] /\ Uuid[d] # Uuid[e],
         \A d \in cards : Index[d] \in Nat,
         NEW S \in SUBSET cards,
         NEW k \in {"nvidia", "ascend", "mthreads", "metax", "ppu", "hcu"},
         NEW of, \A d \in S : of[d] = k
  PROVE  Sees(k, Variables(S, of), cards) = S
<1>1. /\ OfKind(S, of, k) = S
      /\ \A l : l # k => OfKind(S, of, l) = {}
  BY DEF OfKind
<1> SUFFICES ASSUME NEW env, env = Variables(S, of)
             PROVE  Sees(k, env, cards) = S
  OBVIOUS
<1>2. CASE k = "nvidia"
  <2>1. env.cuda = {Uuid[d] : d \in S}
    BY <1>1, <1>2 DEF Variables, VisibleForCuda, Visible
  <2>2. {d \in cards : Uuid[d] \in {Uuid[x] : x \in S}} = S
    OBVIOUS
  <2> QED
    BY <1>2, <2>1, <2>2 DEF Sees
<1>3. CASE k = "ascend"
  <2>1. env.ascend = {Uuid[d] : d \in S}
    BY <1>1, <1>3 DEF Variables, Visible
  <2> QED
    BY <1>3, <2>1 DEF Sees
<1>4. CASE k = "mthreads"
  <2>1. env.musa = {Index[d] : d \in S} /\ env.mthreads = {Uuid[d] : d \in S}
    BY <1>1, <1>4 DEF Variables, Visible, VisibleIds
  <2> QED
    BY <1>4, <2>1 DEF Sees
<1>5. CASE k = "metax"
  <2>1. env.maca = {Index[d] : d \in S}
    BY <1>1, <1>5 DEF Variables, VisibleIds
  <2>2. env.cuda = IF S # {} THEN {Index[d] : d \in S} ELSE {}
    BY <1>1, <1>5 DEF Variables, VisibleIds, Visible, VisibleForCuda
  <2> QED
    BY <1>5, <2>1, <2>2 DEF Sees
<1>6. CASE k = "ppu"
  <2>1. env.cuda = {Uuid[d] : d \in S}
    BY <1>1, <1>6 DEF Variables, VisibleForCuda, Visible
  <2> QED
    BY <1>6, <2>1 DEF Sees
<1>7. CASE k = "hcu"
  <2>1. /\ env.rocr = {Index[d] : d \in S}
        /\ env.hip = 0 .. Cardinality(S) - 1
    BY <1>1, <1>7 DEF Variables, VisibleIds, HcuRuntimeIds
  <2>2. S # {} => env.cuda = 0 .. Cardinality(S) - 1
    BY <1>1, <1>7 DEF Variables, VisibleForCuda, HcuRuntimeIds
  <2>3. Rocr(env, cards) = S
    BY <2>1 DEF Rocr
  <2>4. IsFiniteSet(S)
    BY FS_Subset
  <2>5. \A d \in S : Cardinality({e \in S : Index[e] < Index[d]}) \in 0 .. Cardinality(S) - 1
    BY <2>4, PlaceInView
  <2>6. \A d \in S : Cardinality({e \in S : Index[e] < Index[d]}) \in env.hip \cap env.cuda
    BY <2>1, <2>2, <2>5
  <2>7. Selects(env.hip \cap env.cuda, S) = S
    BY <2>6 DEF Selects
  <2> QED
    BY <1>7, <2>3, <2>7 DEF Sees
<1> QED
  BY <1>2, <1>3, <1>4, <1>5, <1>6, <1>7
=============================================================================
