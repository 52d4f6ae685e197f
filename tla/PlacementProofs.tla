-------------------------- MODULE PlacementProofs ---------------------------
(***************************************************************************)
(* What a submission gets, for any inventory, any order of the vendors and *)
(* any submission or command line.                                         *)
(***************************************************************************)
EXTENDS Placement, AllocationProofs, FunctionTheorems

-----------------------------------------------------------------------------
(***************************************************************************)
(* Places in a finite set of numbers: take(n) of allocate's iterators is   *)
(* the set of its n smallest members.                                      *)
(***************************************************************************)
Below(S, d) == {e \in S : e < d}

LEMMA FewerBelow ==
  ASSUME NEW S \in SUBSET Nat, IsFiniteSet(S), NEW d \in S
  PROVE  /\ Cardinality(Below(S, d)) \in 0 .. Cardinality(S) - 1
         /\ \A e \in S : d < e => Cardinality(Below(S, d)) < Cardinality(Below(S, e))
<1>1. ASSUME NEW T \in SUBSET S, Below(S, d) \subseteq T, d \in T
      PROVE  Cardinality(Below(S, d)) < Cardinality(T) /\ Cardinality(Below(S, d)) \in Nat
  <2>1. IsFiniteSet(T)
    BY FS_Subset
  <2>2. Below(S, d) \in SUBSET T /\ Below(S, d) # T
    BY <1>1 DEF Below
  <2>3. /\ Cardinality(Below(S, d)) <= Cardinality(T)
        /\ Cardinality(Below(S, d)) # Cardinality(T)
        /\ IsFiniteSet(Below(S, d))
    BY <2>1, <2>2, FS_Subset
  <2>4. Cardinality(Below(S, d)) \in Nat /\ Cardinality(T) \in Nat
    BY <2>1, <2>3, FS_CardinalityType
  <2> QED
    BY <2>3, <2>4
<1>2. Cardinality(Below(S, d)) < Cardinality(S) /\ Cardinality(Below(S, d)) \in Nat
  BY <1>1 DEF Below
<1>3. Cardinality(S) \in Nat
  BY FS_CardinalityType
<1>4. ASSUME NEW e \in S, d < e
      PROVE  Cardinality(Below(S, d)) < Cardinality(Below(S, e))
  <2>1. d \in Nat /\ e \in Nat /\ \A x \in S : x \in Nat /\ (x < d => x < e)
    BY <1>4
  <2>2. Below(S, e) \in SUBSET S /\ Below(S, d) \subseteq Below(S, e) /\ d \in Below(S, e)
    BY <1>4, <2>1 DEF Below
  <2> QED
    BY <1>1, <2>2
<1> QED
  BY <1>2, <1>3, <1>4

LEMMA FirstNumbers ==
  ASSUME NEW n \in Nat
  PROVE  IsFiniteSet(0 .. n - 1) /\ Cardinality(0 .. n - 1) = n
<1>1. 0 \in Int /\ n - 1 \in Int
  OBVIOUS
<1> QED
  BY <1>1, FS_Interval

LEMMA PlacesAreAll ==
  ASSUME NEW S \in SUBSET Nat, IsFiniteSet(S)
  PROVE  /\ \A d, e \in S : Cardinality(Below(S, d)) = Cardinality(Below(S, e)) => d = e
         /\ \A i \in 0 .. Cardinality(S) - 1 : \E d \in S : Cardinality(Below(S, d)) = i
<1> DEFINE r == [d \in S |-> Cardinality(Below(S, d))]
           T == 0 .. Cardinality(S) - 1
<1>1. r \in [S -> T]
  BY FewerBelow
<1>2. ASSUME NEW d \in S, NEW e \in S, r[d] = r[e]
      PROVE  d = e
  <2>1. /\ r[d] \in Int /\ r[e] \in Int
        /\ d < e => r[d] < r[e]
        /\ e < d => r[e] < r[d]
    BY <1>1, FewerBelow
  <2> QED
    BY <1>2, <2>1
<1>3. r \in Injection(S, T)
  BY <1>1, <1>2, Fun_IsInj
<1>4. Cardinality(S) \in Nat
  BY FS_CardinalityType
<1>5. IsFiniteSet(T) /\ Cardinality(T) = Cardinality(S)
  BY <1>4, FirstNumbers
<1>6. r \in Surjection(S, T)
  BY <1>3, <1>5, FS_Injection
<1>7. \A i \in T : \E d \in S : r[d] = i
  BY <1>6 DEF Surjection
<1>8. \A d \in S : r[d] = Cardinality(Below(S, d))
  OBVIOUS
<1> HIDE DEF r
<1> QED
  BY <1>2, <1>7, <1>8

LEMMA SmallestExists ==
  ASSUME NEW S \in SUBSET Nat, IsFiniteSet(S), S # {}
  PROVE  Min(S) \in S /\ \A x \in S : Min(S) <= x
<1>1. 0 \in 0 .. Cardinality(S) - 1
  BY FS_CardinalityType, FS_EmptySet
<1>3. PICK m \in S : Cardinality(Below(S, m)) = 0
  BY <1>1, PlacesAreAll
<1>4. \A x \in S : m <= x
  <2> SUFFICES ASSUME NEW x \in S, x < m PROVE FALSE
    OBVIOUS
  <2>1. Cardinality(Below(S, x)) < Cardinality(Below(S, m)) /\ Cardinality(Below(S, x)) \in Nat
    BY FewerBelow
  <2> QED
    BY <1>3, <2>1
<1> QED
  BY <1>4 DEF Min

\* take(n) takes n, when there are as many.
LEMMA LowestSize ==
  ASSUME NEW S \in SUBSET Nat, IsFiniteSet(S), NEW n \in 0 .. Cardinality(S)
  PROVE  IsFiniteSet(Lowest(S, n)) /\ Cardinality(Lowest(S, n)) = n
<1> DEFINE q == [d \in Lowest(S, n) |-> Cardinality(Below(S, d))]
<1>1. Cardinality(S) \in Nat /\ n \in Nat
  BY FS_CardinalityType
<1>3. Lowest(S, n) = {d \in S : Cardinality(Below(S, d)) < n}
  BY DEF Lowest, Below
<1>4. q \in [Lowest(S, n) -> 0 .. n - 1]
  <2> SUFFICES ASSUME NEW d \in Lowest(S, n) PROVE Cardinality(Below(S, d)) \in 0 .. n - 1
    OBVIOUS
  <2>1. d \in S /\ Cardinality(Below(S, d)) < n
    BY <1>3
  <2>2. Cardinality(Below(S, d)) \in Nat
    BY <2>1, FewerBelow, <1>1
  <2> QED
    BY <1>1, <2>1, <2>2
<1>5. \A d, e \in Lowest(S, n) : q[d] = q[e] => d = e
  BY <1>3, PlacesAreAll
<1>6. \A i \in 0 .. n - 1 : \E d \in Lowest(S, n) : q[d] = i
  <2> SUFFICES ASSUME NEW i \in 0 .. n - 1 PROVE \E d \in Lowest(S, n) : q[d] = i
    OBVIOUS
  <2>1. PICK d \in S : Cardinality(Below(S, d)) = i
    BY <1>1, PlacesAreAll
  <2>2. d \in Lowest(S, n)
    BY <1>1, <1>3, <2>1
  <2> QED
    BY <2>1, <2>2
<1>7. q \in Bijection(Lowest(S, n), 0 .. n - 1)
  BY <1>4, <1>5, <1>6, Fun_IsBij
<1>8. IsFiniteSet(Lowest(S, n))
  BY FS_Subset, LowestSubset
<1>9. Cardinality(0 .. n - 1) = n
  BY <1>1, FirstNumbers
<1> QED
  BY <1>7, <1>8, <1>9, FS_Bijection DEF ExistsBijection

\* Of all sets of n members, the n smallest ones come first in inventory order.
LEMMA LowestIsFirst ==
  ASSUME NEW S \in SUBSET Nat, IsFiniteSet(S), NEW n \in 0 .. Cardinality(S),
         NEW T \in SUBSET S, Cardinality(T) = n, T # Lowest(S, n)
  PROVE  \E d \in Lowest(S, n), e \in T : d < e /\ d = Min(SymDiff(Lowest(S, n), T))
<1> DEFINE L == Lowest(S, n)
           D == SymDiff(L, T)
<1>1. L \in SUBSET S /\ IsFiniteSet(L) /\ IsFiniteSet(T) /\ Cardinality(L) = Cardinality(T)
  BY LowestSubset, LowestSize, FS_Subset
<1>2. ~(L \subseteq T) /\ ~(T \subseteq L)
  BY <1>1, FS_Subset
<1>3. D \in SUBSET S /\ D # {}
  BY <1>1, <1>2 DEF SymDiff
<1>4. IsFiniteSet(D)
  BY <1>3, FS_Subset
<1>5. Min(D) \in D /\ \A x \in D : Min(D) <= x
  BY <1>3, <1>4, SmallestExists
<1>6. Min(D) \in L
  <2> SUFFICES ASSUME Min(D) \in T \ L PROVE FALSE
    BY <1>5 DEF SymDiff
  <2>1. PICK x \in L : x \notin T
    BY <1>2
  <2>a. x \in D
    BY <2>1 DEF SymDiff
  <2>2. Min(D) <= x /\ Min(D) # x
    BY <1>5, <2>1, <2>a
  <2>3. x \in S /\ Min(D) \in S /\ Min(D) < x
    <3> HIDE DEF D
    <3>1. x \in S /\ Min(D) \in S
      BY <1>3, <1>5, <2>a
    <3>2. x \in Nat /\ Min(D) \in Nat
      BY <3>1
    <3> QED
      BY <2>2, <3>1, <3>2
  <2>4. /\ Cardinality(Below(S, Min(D))) < Cardinality(Below(S, x))
        /\ Cardinality(Below(S, Min(D))) \in Nat /\ Cardinality(Below(S, x)) \in Nat
    <3> HIDE DEF D
    <3>1. \A d, e \in S : d < e => Cardinality(Below(S, d)) < Cardinality(Below(S, e))
      BY FewerBelow
    <3>2. \A d \in S : Cardinality(Below(S, d)) \in Nat
      BY FewerBelow, FS_CardinalityType
    <3> QED
      BY <2>3, <3>1, <3>2
  <2>5. Cardinality(Below(S, x)) < n /\ ~(Cardinality(Below(S, Min(D))) < n)
    BY <2>3 DEF Lowest, Below
  <2>6. n \in Nat
    BY FS_CardinalityType
  <2> QED
    BY <2>4, <2>5, <2>6
<1>7. PICK e \in T : e \notin L
  BY <1>2
<1>8. e \in D /\ e # Min(D) /\ e \in Nat /\ Min(D) \in Nat
  BY <1>1, <1>6, <1>7 DEF SymDiff
<1> QED
  BY <1>5, <1>6, <1>7, <1>8
-----------------------------------------------------------------------------
(***************************************************************************)
(* The submissions under way.                                              *)
(***************************************************************************)
LEMMA RequestedType ==
  ASSUME NEW o \in Options, NEW s \in Requested(o)
  PROVE  s \in Submission /\ AtMostOne(s.device_ids)
<1> DEFINE exact == o.device_ids # <<>>
           counts == IF exact THEN {Len(o.device_ids)} ELSE IF o.gpus = {} THEN {1} ELSE o.gpus
<1>1. /\ o.gpus \in SUBSET Nat /\ o.device_ids \in Seq(Nat) /\ o.exclude \in Seq(Nat)
      /\ o.device \in SUBSET Kind
  BY PlacementAssumption
<1>2. PICK n \in counts :
        s = [count |-> n, device_ids |-> IF exact THEN {o.device_ids} ELSE {},
             exclude |-> Range(o.exclude), kind |-> o.device]
  BY DEF Requested
<1>3. n \in Nat
  BY <1>1, <1>2
<1>4. Range(o.exclude) \in SUBSET Nat
  BY <1>1 DEF Range
<1> QED
  BY <1>1, <1>2, <1>3, <1>4 DEF Submission, AtMostOne

\* Every submission is one that its client may send, or the one its options ask for.
THEOREM TypeCorrect == Spec => []TypeOK
<1>1. Init => TypeOK
  BY DEF Init, TypeOK, Nothing, Submission, AtMostOne
<1>2. TypeOK /\ [Next]_vars => TypeOK'
  <2> SUFFICES ASSUME TypeOK, [Next]_vars PROVE TypeOK'
    OBVIOUS
  <2> USE DEF TypeOK
  <2>1. CASE \E d \in Device : Reserve(d) \/ Release(d)
    BY <2>1 DEF Reserve, Release
  <2>2. ASSUME NEW s \in Submissions, Ask(s) PROVE TypeOK'
    BY <2>2, PlacementAssumption DEF Ask
  <2>3. ASSUME NEW o \in Options, Type(o) PROVE TypeOK'
    <3>1. spec' \in Submission /\ AtMostOne(spec'.device_ids)
      BY <2>3, RequestedType DEF Type
    <3> QED
      BY <2>3, <3>1 DEF Type
  <2>4. CASE UNCHANGED vars
    BY <2>4 DEF vars
  <2> QED
    BY <2>1, <2>2, <2>3, <2>4 DEF Next
<1> QED
  BY <1>1, <1>2, PTL DEF Spec

-----------------------------------------------------------------------------
(***************************************************************************)
(* Automatic selection.                                                    *)
(***************************************************************************)
LEMMA FreeIsFinite ==
  ASSUME NEW s, NEW k, NEW P \in SUBSET Device, NEW R
  PROVE  /\ Free(s, k, P, R) \in SUBSET Nat /\ IsFiniteSet(Free(s, k, P, R))
         /\ Cardinality(Free(s, k, P, R)) \in Nat
<1>1. Free(s, k, P, R) \in SUBSET Device
  BY DEF Free
<1> QED
  BY <1>1, DeviceAssumption, FS_Subset, FS_CardinalityType

\* The legal answers other than none at all are those of the vendors that have room.
LEMMA LegalFits ==
  ASSUME NEW s \in Submission, s.count # 0, NEW P \in SUBSET Device, NEW R,
         NEW S \in Legal(s, P, R)
  PROVE  \E k \in Fitting(s, P, R) :
           S \in SUBSET Free(s, k, P, R) /\ Cardinality(S) = s.count /\ \A d \in S : KindOf[d] = k
<1>1. PICK k \in Kind : Wants(s, k) /\ \A d \in S : KindOf[d] = k
  BY DEF Legal
<1>2. S \in SUBSET Free(s, k, P, R) /\ Cardinality(S) = s.count
  BY <1>1 DEF Legal, Free
<1>3. Cardinality(S) <= Cardinality(Free(s, k, P, R))
  BY <1>2, FreeIsFinite, FS_Subset
<1>4. k \in Fitting(s, P, R)
  BY <1>1, <1>2, <1>3 DEF Fitting
<1> QED
  BY <1>1, <1>2, <1>4

LEMMA LowestIsLegal ==
  ASSUME NEW s \in Submission, s.count # 0, NEW P \in SUBSET Device, NEW R,
         NEW k \in Fitting(s, P, R)
  PROVE  LET L == Lowest(Free(s, k, P, R), s.count)
         IN  L \in Legal(s, P, R) /\ L # {} /\ IsFiniteSet(L) /\ \A d \in L : KindOf[d] = k
<1> DEFINE F == Free(s, k, P, R)
           L == Lowest(F, s.count)
<1>1. /\ F \in SUBSET Nat /\ IsFiniteSet(F) /\ Cardinality(F) \in Nat
      /\ k \in Kind /\ Wants(s, k) /\ Cardinality(F) >= s.count
  BY FreeIsFinite DEF Fitting
<1>2. s.count \in 0 .. Cardinality(F)
  BY <1>1 DEF Submission
<1>3. IsFiniteSet(L) /\ Cardinality(L) = s.count /\ L \subseteq F
  BY <1>1, <1>2, LowestSize, LowestSubset
<1>4. L # {}
  BY <1>3, FS_EmptySet
<1>5. \A d \in L : d \in P \ R /\ KindOf[d] = k /\ IdOf[d] \notin s.exclude
  BY <1>3 DEF Free
<1>6. L \in Legal(s, P, R)
  BY <1>1, <1>3, <1>5 DEF Legal
<1> QED
  BY <1>3, <1>4, <1>5, <1>6

\* The first vendor's lowest devices come before every other legal answer.
LEMMA FirstPrecedes ==
  ASSUME NEW s \in Submission, s.count # 0, NEW P \in SUBSET Device, NEW R,
         NEW k \in First(Fitting(s, P, R)),
         NEW T \in Legal(s, P, R), T # Lowest(Free(s, k, P, R), s.count)
  PROVE  Precedes(Lowest(Free(s, k, P, R), s.count), T)
<1> DEFINE L == Lowest(Free(s, k, P, R), s.count)
<1>1. k \in Fitting(s, P, R) /\ k \in Kind /\ s.count \in Nat
  BY DEF First, Fitting, Submission
<1>2. L # {} /\ \A d \in L : KindOf[d] = k
  BY <1>1, LowestIsLegal
<1>3. PICK l \in Fitting(s, P, R) :
        T \in SUBSET Free(s, l, P, R) /\ Cardinality(T) = s.count /\ \A d \in T : KindOf[d] = l
  BY LegalFits
<1>4. l \in Kind /\ Rank[k] <= Rank[l]
  BY <1>3 DEF First, Fitting
<1>5. T # {}
  BY <1>3, FS_EmptySet
<1>6. CASE l = k
  <2>1. s.count \in 0 .. Cardinality(Free(s, k, P, R))
    BY <1>1, FreeIsFinite DEF Fitting
  <2>2. \E d \in L, e \in T : d < e /\ d = Min(SymDiff(L, T))
    BY <1>3, <1>6, <2>1, FreeIsFinite, LowestIsFirst
  <2> QED
    BY <1>2, <1>3, <1>6, <2>2 DEF Precedes
<1>7. CASE l # k
  <2>1. Rank[k] < Rank[l]
    BY <1>1, <1>4, <1>7, PriorityAssumption
  <2>2. PICK d \in L, e \in T : TRUE
    BY <1>2, <1>5
  <2> QED
    BY <1>2, <1>3, <2>1, <2>2 DEF Precedes
<1> QED
  BY <1>6, <1>7

\* Of two legal answers only one can come before the other.
LEMMA PrecedesOneWay ==
  ASSUME NEW s \in Submission, s.count # 0, NEW P \in SUBSET Device, NEW R,
         NEW S \in Legal(s, P, R), NEW T \in Legal(s, P, R), S # T, Precedes(S, T)
  PROVE  ~Precedes(T, S)
<1> SUFFICES ASSUME Precedes(T, S) PROVE FALSE
  OBVIOUS
<1>1. PICK k \in Kind : \A d \in S : KindOf[d] = k
  BY DEF Legal
<1>2. PICK l \in Kind : \A d \in T : KindOf[d] = l
  BY DEF Legal
<1>3. Rank[k] \in Nat /\ Rank[l] \in Nat
  BY PriorityAssumption
<1>4. PICK d \in S, e \in T : Rank[k] < Rank[l] \/ (k = l /\ d = Min(SymDiff(S, T)))
  BY <1>1, <1>2 DEF Precedes
<1>5. PICK x \in T, y \in S : Rank[l] < Rank[k] \/ (l = k /\ x = Min(SymDiff(T, S)))
  BY <1>1, <1>2 DEF Precedes
<1>6. d = Min(SymDiff(S, T)) /\ x = Min(SymDiff(S, T))
  <2>1. SymDiff(T, S) = SymDiff(S, T)
    BY DEF SymDiff
  <2> QED
    BY <1>3, <1>4, <1>5, <2>1
<1>7. SymDiff(S, T) \in SUBSET Device /\ SymDiff(S, T) # {}
  BY DEF SymDiff, Legal
<1>8. Min(SymDiff(S, T)) \in SymDiff(S, T)
  <2>1. IsFiniteSet(SymDiff(S, T)) /\ SymDiff(S, T) \in SUBSET Nat
    BY <1>7, DeviceAssumption, FS_Subset
  <2> QED
    BY <1>7, <2>1, SmallestExists
<1> QED
  BY <1>6, <1>8 DEF SymDiff

\* Automatic selection answers with the first legal set in vendor priority and inventory order,
\* and with None only when there is no legal set: for any inventory, any number of vendors and
\* any automatic submission (allocate, scheduler.rs:374-396).
THEOREM ChoiceIsFirstLegal == Spec => []FirstLegalChoice
<1>1. TypeOK => FirstLegalChoice
  <2> SUFFICES ASSUME TypeOK, spec.device_ids = {}
               PROVE  Allocate(spec, pool, reserved) =
                        {S \in Legal(spec, pool, reserved) :
                           \A T \in Legal(spec, pool, reserved) : T = S \/ Precedes(S, T)}
    BY DEF FirstLegalChoice
  <2> DEFINE legal == Legal(spec, pool, reserved)
             fitting == Fitting(spec, pool, reserved)
             lowest(k) == Lowest(Free(spec, k, pool, reserved), spec.count)
  <2>0. spec \in Submission /\ pool \in SUBSET Device /\ spec.kind \in SUBSET Kind
    BY DEF TypeOK, Submission
  <2>1. CASE spec.count = 0
    <3>1. Allocate(spec, pool, reserved) = {{}}
      BY <2>1 DEF Allocate
    <3>2. \A S \in SUBSET (pool \ reserved) : Cardinality(S) = 0 <=> S = {}
      <4> SUFFICES ASSUME NEW S \in SUBSET (pool \ reserved)
                   PROVE  Cardinality(S) = 0 <=> S = {}
        OBVIOUS
      <4>1. S \in SUBSET Device
        BY <2>0
      <4> QED
        BY <4>1, DeviceAssumption, FS_Subset, FS_EmptySet
    <3>3. \E k \in Kind : Wants(spec, k)
      BY <2>0, PlacementAssumption DEF Wants
    <3>4. legal = {{}}
      BY <2>1, <3>2, <3>3 DEF Legal
    <3> QED
      BY <3>1, <3>4
  <2>2. CASE spec.count # 0 /\ fitting = {}
    <3>1. Allocate(spec, pool, reserved) = {}
      BY <2>2, FirstSubset DEF Allocate, AllocateAny
    <3>2. legal = {}
      BY <2>0, <2>2, LegalFits
    <3> QED
      BY <3>1, <3>2
  <2>3. CASE spec.count # 0 /\ fitting # {}
    <3>1. fitting \in SUBSET Kind
      BY DEF Fitting
    <3>2. PICK k \in First(fitting) : TRUE
      BY <2>3, <3>1, FirstExists
    <3>3. First(fitting) = {k}
      <4>1. \A l \in First(fitting) : l \in Kind /\ Rank[l] <= Rank[k] /\ Rank[k] <= Rank[l]
        BY <3>1, <3>2 DEF First
      <4>2. \A l \in First(fitting) : Rank[l] = Rank[k]
        BY <3>2, <4>1, PriorityAssumption
      <4> QED
        BY <3>2, <4>1, <4>2, PriorityAssumption
    <3>4. Allocate(spec, pool, reserved) = {lowest(k)}
      BY <2>3, <3>3 DEF Allocate, AllocateAny
    <3>5. k \in fitting
      BY <3>2, FirstSubset
    <3>6. lowest(k) \in legal
      BY <2>0, <2>3, <3>5, LowestIsLegal
    <3>7. \A T \in legal : T = lowest(k) \/ Precedes(lowest(k), T)
      BY <2>0, <2>3, <3>2, FirstPrecedes
    <3>8. ASSUME NEW S \in legal, \A T \in legal : T = S \/ Precedes(S, T)
          PROVE  S = lowest(k)
      <4> SUFFICES ASSUME S # lowest(k) PROVE FALSE
        OBVIOUS
      <4>1. Precedes(S, lowest(k)) /\ Precedes(lowest(k), S)
        BY <3>6, <3>7, <3>8
      <4> QED
        BY <2>0, <2>3, <3>6, <4>1, PrecedesOneWay
    <3> HIDE DEF legal, lowest
    <3> QED
      BY <3>4, <3>6, <3>7, <3>8 DEF legal
  <2> QED
    BY <2>1, <2>2, <2>3
<1> QED
  BY <1>1, TypeCorrect, PTL

-----------------------------------------------------------------------------
(***************************************************************************)
(* Exact IDs.                                                              *)
(***************************************************************************)
\* find() of allocate returns one device of a vendor for an ID that the vendor has.
LEMMA NamedOnce ==
  ASSUME NEW P \in SUBSET Device, NEW k, NEW i,
         \E d \in P : KindOf[d] = k /\ IdOf[d] = i
  PROVE  \E d \in P : /\ KindOf[d] = k /\ IdOf[d] = i
                      /\ Lowest({e \in P : KindOf[e] = k /\ IdOf[e] = i}, 1) = {d}
<1> DEFINE S == {e \in P : KindOf[e] = k /\ IdOf[e] = i}
<1>1. S \in SUBSET Nat /\ IsFiniteSet(S) /\ S # {} /\ S \in SUBSET P
  <2>1. S \in SUBSET Device
    OBVIOUS
  <2> QED
    BY <2>1, DeviceAssumption, FS_Subset
<1>2. 1 \in 0 .. Cardinality(S)
  BY <1>1, FS_CardinalityType, FS_EmptySet
<1>3. IsFiniteSet(Lowest(S, 1)) /\ Cardinality(Lowest(S, 1)) = 1
  <2> HIDE DEF S
  <2> QED
    BY <1>1, <1>2, LowestSize
<1>4. PICK d : Lowest(S, 1) = {d}
  BY <1>3, FS_Singleton
<1>5. d \in S
  BY <1>4, LowestSubset
<1> QED
  BY <1>4, <1>5

LEMMA CountNumbers ==
  ASSUME NEW n \in Nat
  PROVE  IsFiniteSet(1 .. n) /\ Cardinality(1 .. n) = n
<1>1. 1 \in Int /\ n \in Int /\ (IF 1 > n THEN 0 ELSE n - 1 + 1) = n
  OBVIOUS
<1> QED
  BY <1>1, FS_Interval

\* The devices of a list of IDs that do not repeat: one for each.
LEMMA NamedAll ==
  ASSUME NEW P \in SUBSET Device, NEW k, NEW ids \in Seq(Nat), IsInjective(ids),
         \A i \in Range(ids) : \E d \in P : KindOf[d] = k /\ IdOf[d] = i
  PROVE  /\ {IdOf[d] : d \in Named(k, ids, P)} = Range(ids)
         /\ Cardinality(Named(k, ids, P)) = Len(ids)
         /\ \A d \in Named(k, ids, P) : KindOf[d] = k
<1> DEFINE N == Named(k, ids, P)
           at(i) == {e \in P : KindOf[e] = k /\ IdOf[e] = i}
<1>1. N = UNION {Lowest(at(i), 1) : i \in Range(ids)}
  BY DEF Named
<1>2. \A i \in Range(ids) : \E d \in P :
        KindOf[d] = k /\ IdOf[d] = i /\ Lowest(at(i), 1) = {d}
  BY NamedOnce
<1>3. \A d \in N : KindOf[d] = k /\ IdOf[d] \in Range(ids) /\ Lowest(at(IdOf[d]), 1) = {d}
  <2> SUFFICES ASSUME NEW d \in N
               PROVE  KindOf[d] = k /\ IdOf[d] \in Range(ids) /\ Lowest(at(IdOf[d]), 1) = {d}
    OBVIOUS
  <2>1. PICK i \in Range(ids) : d \in Lowest(at(i), 1)
    BY <1>1
  <2>2. PICK e \in P : KindOf[e] = k /\ IdOf[e] = i /\ Lowest(at(i), 1) = {e}
    BY <1>2
  <2> HIDE DEF at
  <2> QED
    BY <2>1, <2>2
<1>4. \A i \in Range(ids) : \E d \in N : IdOf[d] = i
  <2> SUFFICES ASSUME NEW i \in Range(ids) PROVE \E d \in N : IdOf[d] = i
    OBVIOUS
  <2>1. PICK d \in P : IdOf[d] = i /\ Lowest(at(i), 1) = {d}
    BY <1>2
  <2>2. d \in N
    BY <1>1, <2>1
  <2> QED
    BY <2>1, <2>2
<1>5. DOMAIN ids = 1 .. Len(ids) /\ Len(ids) \in Nat
  OBVIOUS
<1> DEFINE place == [j \in 1 .. Len(ids) |-> CHOOSE d \in N : IdOf[d] = ids[j]]
<1>6. \A j \in 1 .. Len(ids) : place[j] \in N /\ IdOf[place[j]] = ids[j]
  BY <1>4, <1>5 DEF Range
<1>7. \A j, l \in 1 .. Len(ids) : place[j] = place[l] => j = l
  <2> HIDE DEF place
  <2> QED
    BY <1>5, <1>6 DEF IsInjective
<1>8. \A d \in N : \E j \in 1 .. Len(ids) : place[j] = d
  <2> SUFFICES ASSUME NEW d \in N PROVE \E j \in 1 .. Len(ids) : place[j] = d
    OBVIOUS
  <2>1. PICK j \in 1 .. Len(ids) : IdOf[d] = ids[j]
    BY <1>3, <1>5 DEF Range
  <2>2. IdOf[place[j]] = IdOf[d] /\ place[j] \in N
    BY <1>6, <2>1
  <2> HIDE DEF place, at, N
  <2>3. {place[j]} = {d}
    BY <1>3, <2>2
  <2> QED
    BY <2>3
<1>9. place \in Bijection(1 .. Len(ids), N)
  <2>1. place \in [1 .. Len(ids) -> N]
    BY <1>6
  <2> HIDE DEF place, N
  <2> QED
    BY <1>7, <1>8, <2>1, Fun_IsBij
<1>10. IsFiniteSet(1 .. Len(ids)) /\ Cardinality(1 .. Len(ids)) = Len(ids)
  <2>1. Len(ids) \in Nat
    BY <1>5
  <2> HIDE DEF place, at, N
  <2> QED
    BY <2>1, CountNumbers
<1>11. Cardinality(N) = Len(ids)
  BY <1>9, <1>10, FS_Bijection DEF ExistsBijection
<1> HIDE DEF N, at
<1>12. {IdOf[d] : d \in N} = Range(ids)
  BY <1>3, <1>4
<1> QED
  BY <1>3, <1>11, <1>12 DEF N

\* S is one device for each of ids, of one vendor that t wants, and avoids R.
Exactly(t, ids, R, S) ==
  /\ {IdOf[d] : d \in S} = Range(ids)
  /\ Cardinality(S) = Len(ids)
  /\ S \cap R = {}
  /\ \E k \in Kind : Wants(t, k) /\ \A d \in S : KindOf[d] = k

\* What a list of IDs that do not repeat is answered with, if anything.
LEMMA ExactAnswer ==
  ASSUME NEW t, NEW ids \in Seq(Nat), t.device_ids = {ids}, IsInjective(ids),
         NEW P \in SUBSET Device, NEW R, NEW S \in Allocate(t, P, R)
  PROVE  Exactly(t, ids, R, S)
<1>1. PICK k \in First(MatchingKinds(t, P)) : S = Named(k, ids, P) /\ S \cap R = {}
  BY DEF Allocate, AllocateExact
<1>2. /\ k \in Kind /\ Wants(t, k)
      /\ \A i \in Range(ids) : \E d \in P : KindOf[d] = k /\ IdOf[d] = i
  BY FirstSubset DEF MatchingKinds
<1> QED
  BY <1>1, <1>2, NamedAll DEF Exactly

\* What submit has accepted: the list is the only one, does not repeat, and names one vendor.
LEMMA AcceptedExact ==
  ASSUME NEW s \in Submission, AtMostOne(s.device_ids), NEW ids \in s.device_ids,
         NEW P, NEW R, Accepts(s, P, R)
  PROVE  /\ s.device_ids = {ids} /\ ids \in Seq(Nat) /\ ids # <<>> /\ IsInjective(ids)
         /\ s.count = Len(ids)
         /\ Pinned(s, P).device_ids = {ids}
         /\ \A k, l \in Pinned(s, P).kind : k = l
         /\ Pinned(s, P).kind # {}
<1>1. ids \in Seq(Nat) /\ s.device_ids = {ids}
  BY DEF Submission, AtMostOne
<1>2. ExactIdsAccepted(s, ids, P, R)
  BY DEF Accepts
<1>3. Pinned(s, P) = [s EXCEPT !.kind = MatchingKinds(s, P)]
  BY <1>1 DEF Pinned
<1>4. Pinned(s, P).device_ids = s.device_ids /\ Pinned(s, P).kind = MatchingKinds(s, P)
  BY <1>3 DEF Submission
<1>5. IsFiniteSet(MatchingKinds(s, P))
  <2>1. MatchingKinds(s, P) \in SUBSET Kind
    BY DEF MatchingKinds
  <2> QED
    BY <2>1, PlacementAssumption, FS_Subset
<1>6. PICK k : MatchingKinds(s, P) = {k}
  BY <1>2, <1>5, FS_Singleton DEF ExactIdsAccepted
<1> QED
  BY <1>1, <1>2, <1>4, <1>6 DEF ExactIdsAccepted

\* An accepted submission with exact IDs gets exactly those, one device for each and of one
\* vendor, whatever the inventory has become and whatever else is reserved (submit,
\* scheduler.rs:145-180, and allocate, 360-372).
THEOREM ExactIdsAreHonoured == Spec => []ExactIdsHonoured
<1>1. TypeOK => ExactIdsHonoured
  <2> SUFFICES ASSUME TypeOK, NEW ids \in spec.device_ids, NEW R, Accepts(spec, pool, R),
                      NEW P \in SUBSET Device, NEW S \in Allocate(Pinned(spec, pool), P, reserved)
               PROVE  /\ {IdOf[d] : d \in S} = Range(ids)
                      /\ Cardinality(S) = spec.count
                      /\ S \cap reserved = {}
    BY DEF ExactIdsHonoured
  <2>1. spec \in Submission /\ AtMostOne(spec.device_ids)
    BY DEF TypeOK
  <2>2. /\ ids \in Seq(Nat) /\ IsInjective(ids) /\ spec.count = Len(ids)
        /\ Pinned(spec, pool).device_ids = {ids}
    BY <2>1, AcceptedExact
  <2>3. Exactly(Pinned(spec, pool), ids, reserved, S)
    BY <2>2, ExactAnswer
  <2> QED
    BY <2>2, <2>3 DEF Exactly
<1> QED
  BY <1>1, TypeCorrect, PTL

\* The vendor that submit writes into an accepted exact submission decides for good: a later
\* inventory cannot give the job devices of another one (scheduler.rs:162-171, 361).
THEOREM VendorIsPinned == Spec => []VendorPinned
<1>1. TypeOK => VendorPinned
  <2> SUFFICES ASSUME TypeOK, Accepts(spec, pool, {}), NEW P \in SUBSET Device,
                      NEW ids \in spec.device_ids,
                      NEW S \in Allocate(Pinned(spec, pool), P, {}),
                      NEW T \in Allocate(Pinned(spec, pool), pool, {})
               PROVE  {KindOf[d] : d \in S} = {KindOf[d] : d \in T}
    BY DEF VendorPinned
  <2> DEFINE t == Pinned(spec, pool)
  <2>1. spec \in Submission /\ AtMostOne(spec.device_ids) /\ pool \in SUBSET Device
    BY DEF TypeOK
  <2>2. /\ ids \in Seq(Nat) /\ ids # <<>> /\ IsInjective(ids) /\ t.device_ids = {ids}
        /\ t.kind # {} /\ \A k, l \in t.kind : k = l
    BY <2>1, AcceptedExact
  <2>3. Range(ids) # {}
    <3>1. 1 \in DOMAIN ids
      BY <2>2
    <3> QED
      BY <3>1 DEF Range
  <2> HIDE DEF t
  <2>4. Exactly(t, ids, {}, S) /\ Exactly(t, ids, {}, T)
    <3>1. S \in Allocate(t, P, {}) /\ T \in Allocate(t, pool, {})
      BY DEF t
    <3> QED
      BY <2>1, <2>2, <3>1, ExactAnswer
  <2>5. PICK k \in Kind, l \in Kind :
          Wants(t, k) /\ Wants(t, l) /\ (\A d \in S : KindOf[d] = k) /\ (\A d \in T : KindOf[d] = l)
    BY <2>4 DEF Exactly
  <2>6. S # {} /\ T # {}
    BY <2>3, <2>4 DEF Exactly
  <2>7. k = l
    BY <2>2, <2>5 DEF Wants
  <2> QED
    BY <2>5, <2>6, <2>7
<1> QED
  BY <1>1, TypeCorrect, PTL

-----------------------------------------------------------------------------
(***************************************************************************)
(* From the command line to the payload.                                   *)
(***************************************************************************)
\* An automatic submission is given as many devices as it asks for.
LEMMA AutomaticAnswer ==
  ASSUME NEW t \in Submission, t.device_ids = {}, NEW P \in SUBSET Device, NEW R,
         NEW S \in Allocate(t, P, R)
  PROVE  Cardinality(S) = t.count /\ \A d \in S : IdOf[d] \notin t.exclude
<1>1. CASE t.count = 0
  BY <1>1, FS_EmptySet DEF Allocate
<1>2. CASE t.count # 0
  <2>1. PICK k \in First(Fitting(t, P, R)) : S = Lowest(Free(t, k, P, R), t.count)
    BY <1>2 DEF Allocate, AllocateAny
  <2>2. k \in Fitting(t, P, R)
    BY FirstSubset
  <2>3. S \in Legal(t, P, R)
    BY <1>2, <2>1, <2>2, LowestIsLegal
  <2> QED
    BY <2>3 DEF Legal
<1> QED
  BY <1>1, <1>2

\* The runtime of whichever vendor shows the payload the devices the job was given.
LEMMA GivenIsSeen ==
  ASSUME NEW S \in SUBSET Device, \A d, e \in S : KindOf[d] = KindOf[e],
         NEW k \in {"nvidia", "ascend", "mthreads", "metax", "ppu", "hcu"}
  PROVE  Sees(k, Variables(S, [d \in S |-> k]), {d \in Device : \E e \in S : KindOf[d] = KindOf[e]}) = S
<1> DEFINE cards == {d \in Device : \E e \in S : KindOf[d] = KindOf[e]}
<1>1. cards \in SUBSET Device /\ S \in SUBSET cards /\ IsFiniteSet(cards)
  BY DeviceAssumption, FS_Subset
<1>2. \A d, e \in cards : KindOf[d] = KindOf[e]
  OBVIOUS
<1>3. \A d \in cards : Index[d] \in Nat
  BY CardAssumption
<1>4. \A d, e \in cards : d # e => Index[d] # Index[e] /\ Uuid[d] # Uuid[e]
  BY <1>1, <1>2, CardAssumption
<1>5. \A d \in S : [e \in S |-> k][d] = k
  OBVIOUS
<1> HIDE DEF cards
<1>6. Sees(k, Variables(S, [d \in S |-> k]), cards) = S
  BY <1>1, <1>3, <1>4, <1>5, RuntimeSeesItsDevices
<1> QED
  BY <1>6 DEF cards

\* What a user types is what the job's own runtime shows it, on any inventory it may start
\* with: all IDs of -i, or as many devices as -g says and none of -x, of one vendor, through the
\* environment of executor.rs:165-182.
THEOREM PayloadSeesWhatWasTyped == Spec => []SeesWhatWasTyped
<1>1. TypeOK => SeesWhatWasTyped
  <2> SUFFICES ASSUME TypeOK, NEW o \in typed, Accepts(spec, pool, {}),
                      NEW P \in {pool, Device},
                      NEW S \in Allocate(Pinned(spec, pool), P, reserved),
                      NEW k \in {"nvidia", "ascend", "mthreads", "metax", "ppu", "hcu"}
               PROVE  LET cards == {d \in Device : \E e \in S : KindOf[d] = KindOf[e]}
                          seen == Sees(k, Variables(S, [d \in S |-> k]), cards)
                      IN  /\ seen = S
                          /\ IF o.device_ids # <<>> THEN {IdOf[d] : d \in seen} = Range(o.device_ids)
                             ELSE /\ Cardinality(seen) =
                                       IF o.gpus = {} THEN 1 ELSE CHOOSE g \in o.gpus : TRUE
                                  /\ \A d \in seen : IdOf[d] \notin Range(o.exclude)
    BY DEF SeesWhatWasTyped
  <2>1. /\ spec \in Submission /\ AtMostOne(spec.device_ids) /\ P \in SUBSET Device
        /\ o \in Options /\ spec \in Requested(o)
    BY DEF TypeOK
  <2>2. S \in SUBSET Device /\ \A d, e \in S : KindOf[d] = KindOf[e]
    BY <2>1, AllocateSound
  <2>3. Sees(k, Variables(S, [d \in S |-> k]), {d \in Device : \E e \in S : KindOf[d] = KindOf[e]}) = S
    BY <2>2, GivenIsSeen
  <2>4. CASE o.device_ids # <<>>
    <3>1. o.device_ids \in spec.device_ids
      BY <2>1, <2>4 DEF Requested
    <3>2. /\ o.device_ids \in Seq(Nat) /\ IsInjective(o.device_ids)
          /\ Pinned(spec, pool).device_ids = {o.device_ids}
      BY <2>1, <3>1, AcceptedExact
    <3>3. Exactly(Pinned(spec, pool), o.device_ids, reserved, S)
      BY <2>1, <3>2, ExactAnswer
    <3> QED
      BY <2>3, <2>4, <3>3 DEF Exactly
  <2>5. CASE o.device_ids = <<>>
    <3>1. /\ spec.device_ids = {} /\ spec.exclude = Range(o.exclude)
          /\ spec.count \in IF o.gpus = {} THEN {1} ELSE o.gpus
      BY <2>1, <2>5 DEF Requested
    <3>2. Pinned(spec, pool) = spec
      BY <3>1 DEF Pinned
    <3>3. Cardinality(S) = spec.count /\ \A d \in S : IdOf[d] \notin spec.exclude
      BY <2>1, <3>1, <3>2, AutomaticAnswer
    <3>4. spec.count = IF o.gpus = {} THEN 1 ELSE CHOOSE g \in o.gpus : TRUE
      BY <2>1, <3>1, PlacementAssumption DEF AtMostOne
    <3> QED
      BY <2>3, <2>5, <3>1, <3>3, <3>4
  <2> QED
    BY <2>4, <2>5
<1> QED
  BY <1>1, TypeCorrect, PTL
=============================================================================
