---------------------------- MODULE MonitorProofs ----------------------------
(***************************************************************************)
(* For any number of cards and processes, any limits of the drivers' lists *)
(* and whatever fails, hangs or happens between two calls: no device looks *)
(* idle unless it was seen without a process, and healthy where that can   *)
(* be known, during this refresh, as IdleIsProven says it; and the         *)
(* inventory has all cards of a vendor or none.                            *)
(***************************************************************************)
EXTENDS Monitor, SequenceTheorems, FunctionTheorems, FiniteSetTheorems, TLAPS

-----------------------------------------------------------------------------
(***************************************************************************)
(* The invariant.                                                          *)
(***************************************************************************)
\* A device names a card of the host: nvidia-smi's by its UUID, the others by an index.
On(d) ==
  IF d.kind = "nvidia" THEN \E x \in Indices("nvidia") : at["nvidia"][x + 1] = d.visible
  ELSE d.id \in Indices(d.kind)

KeysDiffer(ds) == \A i, j \in DOMAIN ds : Key(ds[i]) = Key(ds[j]) => i = j

\* What discovery may add for a vendor: as many devices as it has cards.
Listing(k, ds) ==
  /\ ds \in Seq(Device) /\ Len(ds) = Len(at[k]) /\ Len(ds) # 0
  /\ \A i \in DOMAIN ds : ds[i].kind = k /\ On(ds[i])
  /\ KeysDiffer(ds)

\* Vendors are discovered in the order of Priority, each once.
Inventoried ==
  /\ at \in [Kinds -> Seq(Visible)]
  /\ turn \in 1 .. Len(Priority) + 1
  /\ devices \in Seq(Device) /\ KeysDiffer(devices)
  /\ \A i \in DOMAIN devices :
       On(devices[i]) /\ \E t \in 1 .. turn - 1 : Priority[t] = devices[i].kind

\* What each reading of a utility or a library must have been for.
AppsTell(t) ==
  Garbled \notin t =>
    \A i \in DOMAIN devices :
      devices[i].kind = "nvidia" /\ devices[i].visible \notin t =>
        Key(devices[i]) \in free \cup concealed
BusyTells(b) == \A i \in Indices("hcu") \ b, p \in Pid : <<p, <<"hcu", i>>>> \in apart
HealthTells(f) ==
  \A i \in DOMAIN devices :
    devices[i].kind = "hcu" /\ devices[i].id \in DOMAIN f /\ f[devices[i].id] =>
      \E w \in well : w[1] = <<"hcu", devices[i].id>>

Readings ==
  /\ pc \in {"discover", "serve"} => apps = {} /\ busy = {} /\ health = {}
  /\ Refreshing =>
       /\ Free \subseteq free /\ Well \subseteq well /\ Apart \subseteq apart
       /\ \A t \in apps : AppsTell(t)
       /\ \A b \in busy : BusyTells(b)
       /\ \A f \in health : HealthTells(f)

\* Between two calls: of the HCU library, the processes that are not left to look up use no
\* HCU but those found, and ...
Listed ==
  /\ query = [call |-> query.call, handle |-> query.handle, count |-> query.count,
              pids |-> query.pids, gpus |-> query.gpus]
  /\ pc \in {"list", "lookup"} => query.count \in 1 .. MaxDevices
  /\ pc = "lookup" => \A i \in Indices("hcu") \ query.gpus, p \in Pid \ query.pids :
                        <<p, <<"hcu", i>>>> \in apart

\* ... of the others, the handle names a card of the host, from the second call on the device's,
\* and the health was good before the processes are asked for.
Handled(d) ==
  /\ \E i \in Indices(d.kind) : query.handle = KeyAt(d.kind, i)
  /\ d.kind \notin moved => query.handle = KeyAt(d.kind, d.id)
  /\ query.call \in {"health", "processes"} => query.handle = Key(d)

Called ==
  query.call # "first" =>
    /\ pc = "scan" /\ n \in DOMAIN devices
    /\ devices[n].kind \in Movable => Handled(devices[n])
    /\ query.call = "processes" => Healthy(devices[n])

\* A utility runs only for the caller that started it, and tells what that caller asks.
Asked ==
  /\ probe = [stage |-> probe.stage, leader |-> probe.leader, stray |-> probe.stray,
              text |-> probe.text, verdict |-> probe.verdict]
  /\ probe.stage = "off" => probe = NoProbe
  /\ probe.stage # "off" => Probing
  /\ \A t \in probe.text :
       /\ pc = "discover" => \A ds \in ParseNvidia(t) : Listing("nvidia", ds)
       /\ pc = "apps" => AppsTell(t)
       /\ pc = "health" => \A f \in HealthStatus(t) : HealthTells(f)

Scanned ==
  /\ pc \in {"discover", "apps", "busy", "list", "lookup", "health", "scan", "serve", "gone"}
  /\ n \in Nat \ {0} /\ (pc # "scan" => n = 1)
  /\ status = [key \in AllKeys |-> status[key]]

IndInv == Inventoried /\ Readings /\ Listed /\ Called /\ Asked /\ Scanned /\ IdleIsProven

-----------------------------------------------------------------------------
(***************************************************************************)
(* What the drivers conclude from the replies a host may give.             *)
(***************************************************************************)
LEMMA Sentinels ==
  /\ \A x \in {Error, Unset, Garbled} : x \notin Int /\ x \notin Visible
  /\ Room \in Nat \ {0} /\ MaxDevices \in Nat \ {0}
  /\ \A i \in 0 .. MaxDevices : Decimal[i] \in Visible
BY DriverAssumption

LEMMA FunctionIsSeq ==
  ASSUME NEW S, NEW m \in Nat, NEW f, DOMAIN f = 1 .. m, f = [i \in 1 .. m |-> f[i]],
         \A i \in 1 .. m : f[i] \in S
  PROVE  f \in Seq(S) /\ Len(f) = m
<1>1. f \in [1 .. m -> S]
  OBVIOUS
<1>2. f \in Seq(S)
  BY <1>1, SeqDef
<1> QED
  BY <1>2, LenProperties

LEMMA Validated ==
  ASSUME NEW k \in Kinds, NEW ds \in Seq(Device), NEW x \in Validate(ds), Len(ds) = Len(at[k]),
         \A i \in DOMAIN ds : ds[i].kind = k /\ On(ds[i])
  PROVE  Listing(k, x)
<1>1. x = ds /\ ds # <<>> /\ KeysDiffer(ds)
  BY DEF Validate, KeysDiffer
<1>2. Len(ds) # 0
  BY <1>1, EmptySeq
<1> QED
  BY <1>1, <1>2 DEF Listing

LEMMA EnumerateLists ==
  ASSUME at \in [Kinds -> Seq(Visible)], NEW k \in {"mthreads", "metax", "ppu", "hcu"},
         NEW r \in Enumerations(k), NEW ds \in Enumerate(k, r)
  PROVE  Listing(k, ds)
<1>0. k \in Kinds /\ k # "nvidia" /\ at[k] \in Seq(Visible)
  BY DEF Kinds
<1>1. r.count \in Counts(k) /\ r.uuid \in Identities(k)
  <2>1. PICK l \in Library(k), c \in Counts(k), u \in Identities(k) :
          r = [found |-> l.found, symbols |-> l.symbols, init |-> l.init, count |-> c, uuid |-> u]
    BY DEF Enumerations
  <2> QED
    BY <2>1
<1>2. /\ r.count # Error /\ After(r.count, 0) \in 1 .. MaxDevices
      /\ \A i \in 0 .. After(r.count, 0) - 1 : r.uuid[i] \notin {Error, Garbled}
      /\ ds \in Validate([i \in 1 .. After(r.count, 0) |->
                          [kind |-> k, id |-> i - 1, visible |-> r.uuid[i - 1]]])
  BY DEF Enumerate
<1>3. r.count = Len(at[k]) /\ After(r.count, 0) = Len(at[k]) /\ Len(at[k]) \in Nat \ {0}
  BY <1>0, <1>1, <1>2, Sentinels DEF After, Wrong, Counts
<1>4. \A i \in Indices(k) : r.uuid[i] \in Visible
  <2> SUFFICES ASSUME NEW i \in Indices(k) PROVE r.uuid[i] \in Visible
    OBVIOUS
  <2>1. at[k][i + 1] \in Visible /\ at[k][1] \in Visible
    BY <1>0, <1>3 DEF Indices
  <2>2. r.uuid[i] \in {at[k][i + 1], at[k][1], Error, Garbled}
    BY <1>1 DEF Wrong, Identities
  <2> QED
    BY <1>2, <1>3, <2>1, <2>2 DEF Indices
<1> DEFINE l == [i \in 1 .. Len(at[k]) |-> [kind |-> k, id |-> i - 1, visible |-> r.uuid[i - 1]]]
<1>5. \A i \in 1 .. Len(at[k]) : l[i] \in Device /\ l[i].kind = k /\ On(l[i])
  BY <1>0, <1>3, <1>4 DEF Device, On, Indices
<1>6. l \in Seq(Device) /\ DOMAIN l = 1 .. Len(at[k]) /\ Len(l) = Len(at[k])
  <2>1. l = [i \in 1 .. Len(at[k]) |-> l[i]]
    OBVIOUS
  <2> HIDE DEF l
  <2> QED
    BY <1>3, <1>5, <2>1, FunctionIsSeq
<1>7. ds \in Validate(l)
  BY <1>2, <1>3
<1> HIDE DEF l
<1> QED
  BY <1>0, <1>5, <1>6, <1>7, Validated

LEMMA LibraryLists ==
  ASSUME at \in [Kinds -> Seq(Visible)], NEW k \in {"mthreads", "metax", "ppu", "hcu"},
         NEW r \in Enumerations(k), NEW ds \in Finds(k, r)
  PROVE  Listing(k, ds)
<1>1. ds \in Enumerate(k, r)
  BY DEF Finds, MthreadsDiscover, MetaxDiscover, PpuDiscover, HcuDiscover
<1> QED
  BY <1>1, EnumerateLists

LEMMA DcmiLists ==
  ASSUME at \in [Kinds -> Seq(Visible)], NEW r \in DcmiInventories, r.count \in 1 .. MaxDevices,
         \A p \in 1 .. r.count : r.ids[p] >= 0,
         NEW order \in [1 .. r.count -> 1 .. r.count],
         NEW ds \in Validate(DcmiDevices(r, order))
  PROVE  Listing("ascend", ds)
<1>0. at["ascend"] \in Seq(Visible) /\ "ascend" \in Kinds
  BY DEF Kinds
<1>1. r.count = Len(at["ascend"]) /\ Len(at["ascend"]) \in Nat
  BY <1>0, Sentinels DEF DcmiInventories, Wrong
<1>2. \A p \in 1 .. r.count : r.ids[p] \in Indices("ascend")
  <2>1. \/ r.ids \in Lists("ascend")
        \/ r.ids \in {[p \in DOMAIN at["ascend"] |-> x] : x \in {0, -1}}
    BY DEF DcmiInventories, Wrong
  <2>2. 0 \in Indices("ascend")
    BY <1>0, <1>1 DEF Indices
  <2>3. DOMAIN at["ascend"] = 1 .. r.count
    BY <1>0, <1>1
  <2> QED
    BY <2>1, <2>2, <2>3 DEF Lists
<1>3. \A i \in 1 .. r.count : r.ids[order[i]] \in Indices("ascend")
  BY <1>2
<1>4. \A x \in Indices("ascend") : x \in Int /\ Decimal[x] \in Visible
  BY <1>0, <1>1, Sentinels DEF Indices
<1> DEFINE l == DcmiDevices(r, order)
<1>5. DOMAIN l = 1 .. r.count
  BY DEF DcmiDevices
<1>6. \A i \in 1 .. r.count : l[i] \in Device /\ l[i].kind = "ascend" /\ On(l[i])
  BY <1>0, <1>3, <1>4 DEF DcmiDevices, Device, On
<1>7. l \in Seq(Device) /\ Len(l) = r.count
  <2>1. l = [i \in 1 .. r.count |-> l[i]]
    BY DEF DcmiDevices
  <2>2. r.count \in Nat /\ \A i \in 1 .. r.count : l[i] \in Device
    BY <1>1, <1>6
  <2> HIDE DEF l
  <2> QED
    BY <1>5, <2>1, <2>2, FunctionIsSeq
<1> HIDE DEF l
<1> QED
  BY <1>0, <1>1, <1>5, <1>6, <1>7, Validated DEF l

LEMMA AscendLists ==
  ASSUME at \in [Kinds -> Seq(Visible)], NEW r \in DcmiInventories,
         NEW ds, ds \in ApiDiscover(r) \/ (DcmiLoad(r) = {"legacy"} /\ ds \in LegacyDiscover(r))
  PROVE  Listing("ascend", ds)
<1>0. at["ascend"] \in Seq(Visible)
  BY DEF Kinds
<1>1. CASE ds \in ApiDiscover(r)
  <2>1. r.count \in 1 .. MaxDevices /\ \A p \in 1 .. r.count : ~(r.ids[p] < 0)
    BY <1>1 DEF ApiDiscover
  <2>2. PICK order \in ById(r) : ds \in Validate(DcmiDevices(r, order))
    BY <1>1 DEF ApiDiscover
  <2>3. order \in [1 .. r.count -> 1 .. r.count]
    BY DEF ById
  <2>4. Len(at["ascend"]) \in Nat /\ DOMAIN at["ascend"] = 1 .. Len(at["ascend"])
    BY <1>0
  <2>5. \A p \in 1 .. r.count : r.ids[p] \in Int
    <3>1. r.count = Len(at["ascend"])
      BY <2>1, Sentinels DEF DcmiInventories, Wrong
    <3>2. \/ r.ids \in Lists("ascend")
          \/ r.ids \in {[p \in DOMAIN at["ascend"] |-> x] : x \in {0, -1}}
      BY DEF DcmiInventories, Wrong
    <3> QED
      BY <2>4, <3>1, <3>2 DEF Lists, Indices
  <2>6. \A p \in 1 .. r.count : r.ids[p] >= 0
    BY <2>1, <2>5
  <2> QED
    BY <2>1, <2>2, <2>3, <2>6, DcmiLists
<1>2. CASE DcmiLoad(r) = {"legacy"} /\ ds \in LegacyDiscover(r)
  <2>1. r.count \in 1 .. MaxDevices /\ ds \in Validate(DcmiDevices(r, [p \in 1 .. r.count |-> p]))
    BY <1>2 DEF LegacyDiscover
  <2>2. r.count = Len(at["ascend"])
    BY <2>1, Sentinels DEF DcmiInventories, Wrong
  <2>3. \A p \in 1 .. r.count : r.ids[p] >= 0
    BY <1>0, <1>2, <2>2 DEF DcmiInventories
  <2> QED
    BY <2>1, <2>3, DcmiLists
<1> QED
  BY <1>1, <1>2

LEMMA NvidiaLists ==
  ASSUME at \in [Kinds -> Seq(Visible)], NEW t \in InventoryLines, NEW ds \in ParseNvidia(t)
  PROVE  Listing("nvidia", ds)
<1>0. at["nvidia"] \in Seq(Visible) /\ "nvidia" \in Kinds
  BY DEF Kinds
<1> DEFINE lines == [i \in DOMAIN at["nvidia"] |-> [id |-> i - 1, uuid |-> at["nvidia"][i]]]
           l(x) == [i \in DOMAIN x |-> [kind |-> "nvidia", id |-> x[i].id, visible |-> x[i].uuid]]
<1>1. ds \in Validate(l(t)) /\ \A i \in DOMAIN t : t[i].id # Garbled
  BY DEF ParseNvidia
<1>2. DOMAIN lines = 1 .. Len(at["nvidia"]) /\ Len(at["nvidia"]) \in Nat
  BY <1>0
<1>3. t \in {lines, <<[id |-> Garbled, uuid |-> Garbled]>>, lines \o lines, <<>>}
  BY DEF InventoryLines, Wrong
<1>4. t # <<[id |-> Garbled, uuid |-> Garbled]>>
  BY <1>1
<1>5. t # <<>>
  <2> SUFFICES ASSUME t = <<>> PROVE FALSE
    OBVIOUS
  <2>1. l(t) = <<>>
    OBVIOUS
  <2> QED
    BY <1>1, <2>1 DEF Validate
<1>6. t = lines
  <2> SUFFICES ASSUME t = lines \o lines PROVE t = lines
    BY <1>3, <1>4, <1>5
  <2> DEFINE S == [id: Int, uuid: Visible]
  <2>1. lines \in Seq(S) /\ Len(lines) = Len(at["nvidia"])
    <3>1. \A i \in 1 .. Len(at["nvidia"]) : lines[i] \in S
      BY <1>0, <1>2
    <3>2. lines = [i \in 1 .. Len(at["nvidia"]) |-> lines[i]]
      BY <1>2
    <3> HIDE DEF lines, S
    <3> QED
      BY <1>2, <3>1, <3>2, FunctionIsSeq
  <2> HIDE DEF lines, S
  <2>2. /\ DOMAIN t = 1 .. 2 * Len(lines)
        /\ \A i \in 1 .. Len(lines) : t[i] = lines[i] /\ t[i + Len(lines)] = lines[i]
    <3>1. /\ t \in Seq(S) /\ Len(t) = Len(lines) + Len(lines)
          /\ \A i \in 1 .. Len(lines) + Len(lines) :
               t[i] = IF i <= Len(lines) THEN lines[i] ELSE lines[i - Len(lines)]
      BY <2>1, ConcatProperties
    <3>2. DOMAIN t = 1 .. Len(t)
      BY <3>1, LenProperties
    <3>3. \A i \in 1 .. Len(lines) :
            /\ i \in 1 .. Len(lines) + Len(lines) /\ i <= Len(lines)
            /\ i + Len(lines) \in 1 .. Len(lines) + Len(lines)
            /\ ~(i + Len(lines) <= Len(lines)) /\ i + Len(lines) - Len(lines) = i
      BY <1>2, <2>1
    <3> QED
      BY <1>2, <2>1, <3>1, <3>2, <3>3
  <2>3. CASE Len(lines) = 0
    BY <1>5, <2>1, <2>3
  <2>4. CASE Len(lines) > 0
    <3>1. {1, 1 + Len(lines)} \subseteq DOMAIN t /\ t[1] = t[1 + Len(lines)] /\ 1 # 1 + Len(lines)
      BY <1>2, <2>1, <2>2, <2>4
    <3>2. DOMAIN l(t) = DOMAIN t /\ l(t)[1] = l(t)[1 + Len(lines)]
      BY <3>1
    <3> QED
      BY <1>1, <3>1, <3>2 DEF Validate
  <2> QED
    BY <1>2, <2>1, <2>3, <2>4
<1>7. DOMAIN l(t) = 1 .. Len(at["nvidia"])
  BY <1>2, <1>6
<1>8. \A i \in 1 .. Len(at["nvidia"]) : l(t)[i] \in Device /\ l(t)[i].kind = "nvidia" /\ On(l(t)[i])
  <2> SUFFICES ASSUME NEW i \in 1 .. Len(at["nvidia"])
               PROVE  l(t)[i] \in Device /\ l(t)[i].kind = "nvidia" /\ On(l(t)[i])
    OBVIOUS
  <2>1. l(t)[i] = [kind |-> "nvidia", id |-> i - 1, visible |-> at["nvidia"][i]]
    BY <1>2, <1>6
  <2>2. at["nvidia"][i] \in Visible /\ i - 1 \in Indices("nvidia") /\ (i - 1) + 1 = i
    BY <1>0, <1>2 DEF Indices
  <2>3. l(t)[i] \in Device
    BY <1>0, <2>1, <2>2 DEF Device
  <2>4. On(l(t)[i])
    <3>1. l(t)[i].kind = "nvidia" /\ l(t)[i].visible = at["nvidia"][(i - 1) + 1]
      BY <2>1, <2>2
    <3> HIDE DEF l
    <3> QED
      BY <2>2, <3>1 DEF On
  <2> QED
    BY <2>1, <2>3, <2>4
<1>9. l(t) \in Seq(Device) /\ Len(l(t)) = Len(at["nvidia"])
  <2>1. l(t) = [i \in 1 .. Len(at["nvidia"]) |-> l(t)[i]]
    BY <1>7
  <2> HIDE DEF l
  <2> QED
    BY <1>2, <1>7, <1>8, <2>1, FunctionIsSeq
<1> HIDE DEF l
<1> QED
  BY <1>0, <1>1, <1>7, <1>8, <1>9, Validated

LEMMA FreePlace ==
  ASSUME NEW k \in Kinds, k # "hcu", NEW i \in Indices(k), ~InUse(KeyAt(k, i))
  PROVE  NameAt(<<k, i>>) \in Free
<1>1. <<k, i>> \in Places
  BY DEF Places
<1> QED
  BY <1>1 DEF Free

LEMMA WellPlace ==
  ASSUME NEW k \in Checked, NEW i \in Indices(k), KeyAt(k, i) \notin broken
  PROVE  <<<<k, i>>, KeyAt(k, i)>> \in Well
<1>1. <<k, i>> \in Places
  BY DEF Places, Checked, Kinds
<1> QED
  BY <1>1 DEF Well

LEMMA ApartPlace ==
  ASSUME NEW p \in Pid, NEW i \in Indices("hcu"), i \notin Gpus(p)
  PROVE  <<p, <<"hcu", i>>>> \in Apart
<1>1. <<p, KeyAt("hcu", i)>> \notin used
  BY DEF Gpus
<1> QED
  BY <1>1 DEF Apart

\* A count of 0 is a true answer unless it was not written, and a health of 0 is a true answer.
LEMMA CountIsTrue ==
  ASSUME NEW key, NEW c \in Count(key), c = 0 \/ After(c, Room) = 0
  PROVE  ~InUse(key)
<1>1. c \in {IF InUse(key) THEN 1 ELSE 0, Error, Room + 1, Unset}
  BY DEF Count, Wrong
<1>2. CASE c = Unset
  BY <1>2, Sentinels DEF After
<1>3. CASE c \in {Error, Room + 1}
  BY <1>3, Sentinels, DriverAssumption DEF After
<1>4. CASE c = IF InUse(key) THEN 1 ELSE 0
  BY <1>4, Sentinels DEF After
<1> QED
  BY <1>1, <1>2, <1>3, <1>4

LEMMA ConditionIsTrue ==
  ASSUME NEW k, NEW i, 0 \in Condition(<<k, i>>)
  PROVE  KeyAt(k, i) \notin broken
<1>1. 0 \in {IF KeyAt(k, i) \in broken THEN 1 ELSE 0, Error, Unset, -1}
  BY DEF Condition, Wrong
<1> QED
  BY <1>1, Sentinels

\* A card found by its handle, which nobody uses, is free.
LEMMA HandleFree ==
  ASSUME NEW k \in Movable, NEW d \in Device, d.kind = k, NEW i \in Indices(k),
         KeyAt(k, i) = Key(d), ~InUse(Key(d))
  PROVE  Name(d) \in Free
<1>1. k \in Kinds /\ k # "hcu" /\ k \in ByUuid
  BY DEF Movable, Kinds, ByUuid
<1>2. NameAt(<<k, i>>) \in Free
  BY <1>1, FreePlace
<1> QED
  BY <1>1, <1>2 DEF NameAt, Name

\* The processes of a card: what they must be when the device is left idle.
LEMMA CountIdle ==
  ASSUME NEW key, NEW c \in Count(key), NEW pid, NEW k,
         "idle" = IF k = "mthreads" THEN MthreadsOccupancy(c) ELSE ListedOccupancy(c, pid)
  PROVE  ~InUse(key) \/ (k = "mthreads" /\ c = Unset)
<1>1. CASE k = "mthreads" /\ c # Unset
  <2>1. c = 0
    BY <1>1 DEF MthreadsOccupancy, Occupancy, After
  <2> QED
    BY <2>1, CountIsTrue
<1>2. CASE k # "mthreads"
  <2>1. ListedOccupancy(c, pid) = "idle"
    BY <1>2
  <2>2. After(c, Room) = 0
    BY <2>1 DEF ListedOccupancy, Occupancy
  <2> QED
    BY <2>2, CountIsTrue
<1> QED
  BY <1>1, <1>2

LEMMA AscendIdle ==
  ASSUME NEW d \in Device, On(d), d.kind = "ascend", NEW c \in Count(KeyAt("ascend", d.id)),
         ApiOccupancy(c) = "idle" \/ LegacyOccupancy(c) = "idle"
  PROVE  Name(d) \in Free
<1>0. d.kind \in Kinds /\ d.id \in Indices(d.kind)
  BY DEF Kinds, On
<1>1. c = 0 \/ After(c, Room) = 0
  BY DEF ApiOccupancy, LegacyOccupancy, Occupancy
<1>2. NameAt(<<"ascend", d.id>>) \in Free
  BY <1>0, <1>1, CountIsTrue, FreePlace
<1> QED
  BY <1>2 DEF Name, NameAt, ByUuid, Place

\* What nvidia-smi prints, what the HCU library answers and what hy-smi prints tells the truth
\* about the instant it was read.
LEMMA AppLinesTell ==
  ASSUME Inventoried, Free \subseteq free, NEW t
  PROVE  Garbled \notin t =>
           \A i \in DOMAIN devices :
             devices[i].kind = "nvidia" /\ devices[i].visible \notin t =>
               Key(devices[i]) \in free \cup ({"nvidia"} \X (AppUuids \ t))
<1> SUFFICES ASSUME NEW i \in DOMAIN devices,
                    devices[i].kind = "nvidia", devices[i].visible \notin t
             PROVE  Key(devices[i]) \in free \cup ({"nvidia"} \X (AppUuids \ t))
  OBVIOUS
<1>1. PICK x \in Indices("nvidia") : at["nvidia"][x + 1] = devices[i].visible
  BY DEF Inventoried, On
<1>2. CASE InUse(KeyAt("nvidia", x))
  <2>1. devices[i].visible \in AppUuids
    BY <1>1, <1>2 DEF AppUuids
  <2> QED
    BY <2>1 DEF Key
<1>3. CASE ~InUse(KeyAt("nvidia", x))
  <2>1. NameAt(<<"nvidia", x>>) \in Free
    BY <1>3, FreePlace DEF Kinds
  <2> QED
    BY <1>1, <2>1 DEF NameAt, ByUuid, KeyAt, Key
<1> QED
  BY <1>2, <1>3

LEMMA HcuOn ==
  ASSUME Inventoried, NEW i \in DOMAIN devices, devices[i].kind = "hcu"
  PROVE  devices[i].id \in Indices("hcu")
BY DEF Inventoried, On

\* A process that is not listed uses no HCU, and a lookup that succeeds gives all it uses.
LEMMA ListTells ==
  ASSUME NEW reply \in ProcessLists, NEW listed \in HcuProcesses(reply),
         NEW p \in Pid \ listed, NEW i \in Indices("hcu")
  PROVE  <<p, <<"hcu", i>>>> \in Apart
<1>1. listed = reply /\ reply \notin {Error, Unset}
  BY DEF HcuProcesses
<1>2. {q \in Pid : Gpus(q) # {}} \subseteq reply
  BY <1>1 DEF ProcessLists, Wrong
<1>3. Gpus(p) = {}
  BY <1>1, <1>2
<1> QED
  BY <1>3, ApartPlace

LEMMA LookupTells ==
  ASSUME NEW p \in Pid, NEW count \in 1 .. MaxDevices, NEW reply \in Lookups(p),
         NEW gpus \in HcuGpus(p, reply, count), NEW i \in Indices("hcu") \ gpus
  PROVE  <<p, <<"hcu", i>>>> \in Apart
<1>1. gpus = reply /\ reply \notin {Error, Unset, {}} /\ \A id \in reply : ~(id >= count)
  BY DEF HcuGpus
<1>2. reply # {MaxDevices}
  <2>1. MaxDevices >= count
    BY Sentinels
  <2> QED
    BY <1>1, <2>1
<1>3. reply \in {Gpus(p), Error, {}, Unset, {MaxDevices}}
  BY DEF Lookups, Wrong
<1> QED
  BY <1>1, <1>2, <1>3, ApartPlace

LEMMA HealthLinesTell ==
  ASSUME Inventoried, Well \subseteq well, NEW t \in HealthLines, NEW f \in HealthStatus(t)
  PROVE  HealthTells(f)
<1> SUFFICES ASSUME NEW d \in DOMAIN devices, devices[d].kind = "hcu",
                    devices[d].id \in DOMAIN f, f[devices[d].id]
             PROVE  \E w \in well : w[1] = <<"hcu", devices[d].id>>
  BY DEF HealthTells
<1>a. devices[d].id \in Indices("hcu")
  BY HcuOn
<1>b. at["hcu"] \in Seq(Visible)
  BY DEF Inventoried, Kinds
<1>c. Len(at["hcu"]) \in Nat /\ DOMAIN at["hcu"] = 1 .. Len(at["hcu"])
  BY <1>b
<1>d. Len(at["hcu"]) # 0
  BY <1>a, <1>c DEF Indices
<1> DEFINE x == devices[d].id
           line(i) == [card |-> TRUE, id |-> i - 1,
                       word |-> IF KeyAt("hcu", i - 1) \in broken THEN "critical" ELSE "healthy"]
           lines == [i \in DOMAIN at["hcu"] |-> line(i)]
           cards == {i \in DOMAIN t : t[i].card}
           last(id) == CHOOSE i \in cards :
                         t[i].id = id /\ \A j \in cards : t[j].id = id => j <= i
<1>0. /\ x \in Indices("hcu") /\ Len(at["hcu"]) \in Nat \ {0}
      /\ DOMAIN at["hcu"] = 1 .. Len(at["hcu"])
  BY <1>a, <1>c, <1>d
<1>1. /\ \A i \in cards : t[i].id # Garbled /\ t[i].word # ""
      /\ cards # {}
      /\ f = [id \in {t[i].id : i \in cards} |-> t[last(id)].word = "healthy"]
  BY DEF HealthStatus
<1>2. /\ DOMAIN lines = 1 .. Len(at["hcu"]) /\ 1 \in DOMAIN lines
      /\ \A i \in DOMAIN lines : lines[i] = line(i)
  BY <1>0
<1>3. t \in {lines, <<>>, SubSeq(lines, 1, 1), <<[card |-> FALSE]>>,
            [lines EXCEPT ![1].word = ""], [lines EXCEPT ![1].id = Garbled]}
  BY DEF HealthLines, Wrong
<1> HIDE DEF lines
<1>4. t # <<>> /\ t # <<[card |-> FALSE]>>
  <2>1. t = <<>> => DOMAIN t = {}
    OBVIOUS
  <2>2. t = <<[card |-> FALSE]>> => DOMAIN t = {1} /\ ~t[1].card
    OBVIOUS
  <2> QED
    BY <1>1, <2>1, <2>2
<1>5. t # [lines EXCEPT ![1].word = ""] /\ t # [lines EXCEPT ![1].id = Garbled]
  <2>1. lines[1] = line(1)
    BY <1>2
  <2>2. t = [lines EXCEPT ![1].word = ""] => 1 \in cards /\ t[1].word = ""
    <3> SUFFICES ASSUME t = [lines EXCEPT ![1].word = ""] PROVE 1 \in cards /\ t[1].word = ""
      OBVIOUS
    <3>1. 1 \in DOMAIN t /\ t[1] = [line(1) EXCEPT !.word = ""]
      BY <1>2, <2>1
    <3>2. t[1].card /\ t[1].word = ""
      BY <3>1
    <3> QED
      BY <3>1, <3>2
  <2>3. t = [lines EXCEPT ![1].id = Garbled] => 1 \in cards /\ t[1].id = Garbled
    BY <1>2, <2>1
  <2> QED
    BY <1>1, <2>2, <2>3
<1>6. \A i \in DOMAIN t : i \in DOMAIN lines /\ t[i] = line(i)
  <2>1. CASE t = lines
    BY <1>2, <2>1
  <2>2. CASE t = SubSeq(lines, 1, 1)
    BY <1>2, <2>2
  <2> QED
    BY <1>3, <1>4, <1>5, <2>1, <2>2
<1>7. PICK i \in cards : t[i].id = x
  BY <1>1
<1>8. \A j \in cards : t[j].id = x => j = i
  BY <1>0, <1>2, <1>6, <1>7
<1>9. last(x) = i
  <2>1. i \in cards /\ t[i].id = x /\ \A j \in cards : t[j].id = x => j <= i
    BY <1>0, <1>2, <1>6, <1>7, <1>8
  <2>2. last(x) \in cards /\ t[last(x)].id = x
    BY <2>1
  <2> QED
    BY <1>8, <2>2
<1>10. t[i].word = "healthy"
  BY <1>1, <1>9
<1>11. t[i] = line(x + 1)
  <2>1. t[i] = line(i) /\ i \in 1 .. Len(at["hcu"])
    BY <1>2, <1>6
  <2>2. i = x + 1
    BY <1>0, <1>7, <2>1
  <2> QED
    BY <2>1, <2>2
<1>12. KeyAt("hcu", x) \notin broken
  BY <1>0, <1>10, <1>11 DEF Indices
<1>13. <<<<"hcu", x>>, KeyAt("hcu", x)>> \in well
  BY <1>0, <1>12, WellPlace DEF Checked
<1> QED
  BY <1>13

-----------------------------------------------------------------------------
(***************************************************************************)
(* Steps that leave the world or the books alone.                          *)
(***************************************************************************)
LEMMA PriorityOnce ==
  /\ Len(Priority) = 6 /\ DOMAIN Priority = 1 .. 6
  /\ \A i, j \in 1 .. 6 : Priority[i] = Priority[j] => i = j
  /\ \A i \in 1 .. 6 : Priority[i] \in Kinds
BY DEF Priority, Kinds

LEMMA InitInv == Init => IndInv
<1> SUFFICES ASSUME Init PROVE IndInv
  OBVIOUS
<1>1. at \in [Kinds -> Seq(Visible)]
  BY MonitorAssumption DEF Init
<1>2. devices = <<>> /\ devices \in Seq(Device) /\ DOMAIN devices = {}
  BY DEF Init
<1>3. Inventoried
  BY <1>1, <1>2, PriorityOnce DEF Init, Inventoried, KeysDiffer
<1>4. Readings /\ Listed /\ Called /\ Scanned /\ IdleIsProven
  BY DEF Init, Readings, Refreshing, Listed, Called, NoQuery, Scanned, IdleIsProven
<1>5. Asked
  BY DEF Init, Asked, NoProbe
<1> QED
  BY <1>3, <1>4, <1>5 DEF IndInv

\* The host: cards of the kinds that check identities change places, and stay on the host.
LEMMA HostKeeps ==
  ASSUME IndInv, Host
  PROVE  /\ UNCHANGED <<pc, turn, devices, drivers, backend>>
         /\ at' \in [Kinds -> Seq(Visible)]
         /\ \A k \in Kinds \ Movable : at'[k] = at[k]
         /\ \A k \in Kinds : Len(at'[k]) = Len(at[k])
         /\ \A k \in Kinds : \A i \in Indices(k) : \E j \in Indices(k) : at'[k][j + 1] = at[k][i + 1]
         /\ pc = "discover" => at' = at
<1>0. at \in [Kinds -> Seq(Visible)]
  BY DEF IndInv, Inventoried
<1>1. ASSUME at' = at
      PROVE  /\ at' \in [Kinds -> Seq(Visible)]
             /\ \A k \in Kinds \ Movable : at'[k] = at[k]
             /\ \A k \in Kinds : Len(at'[k]) = Len(at[k])
             /\ \A k \in Kinds : \A i \in Indices(k) : \E j \in Indices(k) : at'[k][j + 1] = at[k][i + 1]
  BY <1>0, <1>1
<1>2. ASSUME NEW k \in Movable, Reset(k), pc # "discover"
      PROVE  /\ at' \in [Kinds -> Seq(Visible)]
             /\ \A l \in Kinds \ Movable : at'[l] = at[l]
             /\ \A l \in Kinds : Len(at'[l]) = Len(at[l])
             /\ \A l \in Kinds : \A x \in Indices(l) : \E y \in Indices(l) : at'[l][y + 1] = at[l][x + 1]
  <2>0. k \in Kinds /\ at[k] \in Seq(Visible)
    BY <1>0 DEF Kinds, Movable
  <2>1. PICK i \in DOMAIN at[k], j \in DOMAIN at[k] :
          i < j /\ at' = [at EXCEPT ![k] = [@ EXCEPT ![i] = at[k][j], ![j] = at[k][i]]]
    BY <1>2 DEF Reset
  <2> DEFINE one == [at[k] EXCEPT ![i] = at[k][j]]
             two == [one EXCEPT ![j] = at[k][i]]
  <2>2. i \in 1 .. Len(at[k]) /\ j \in 1 .. Len(at[k]) /\ at[k][i] \in Visible /\ at[k][j] \in Visible
    BY <2>0
  <2>3. one \in Seq(Visible) /\ Len(one) = Len(at[k])
    BY <2>0, <2>2, ExceptSeq
  <2> HIDE DEF one
  <2>4. two \in Seq(Visible) /\ Len(two) = Len(at[k])
    BY <2>2, <2>3, ExceptSeq
  <2>5. at' = [at EXCEPT ![k] = two]
    BY <2>1 DEF one
  <2>6. ASSUME NEW x \in Indices(k) PROVE \E y \in Indices(k) : two[y + 1] = at[k][x + 1]
    <3>0. /\ DOMAIN one = 1 .. Len(at[k]) /\ DOMAIN at[k] = 1 .. Len(at[k]) /\ Len(at[k]) \in Nat
          /\ x + 1 \in 1 .. Len(at[k])
      BY <2>0, <2>3, LenProperties DEF Indices
    <3>1. \A y \in 1 .. Len(at[k]) :
            two[y] = IF y = j THEN at[k][i] ELSE IF y = i THEN at[k][j] ELSE at[k][y]
      BY <3>0 DEF one
    <3> HIDE DEF two
    <3>2. \E y \in 1 .. Len(at[k]) : two[y] = at[k][x + 1]
      <4>1. CASE x + 1 = i
        BY <2>2, <3>1, <4>1
      <4>2. CASE x + 1 = j
        BY <2>1, <2>2, <3>0, <3>1, <4>2
      <4>3. CASE x + 1 # i /\ x + 1 # j
        BY <3>0, <3>1, <4>3
      <4> QED
        BY <4>1, <4>2, <4>3
    <3>3. PICK y \in 1 .. Len(at[k]) : two[y] = at[k][x + 1]
      BY <3>2
    <3>4. y - 1 \in Indices(k) /\ (y - 1) + 1 = y
      BY <3>0 DEF Indices
    <3> QED
      BY <3>3, <3>4
  <2> HIDE DEF two
  <2> QED
    BY <1>0, <2>0, <2>4, <2>5, <2>6
<1> QED
  <2>1. UNCHANGED <<pc, turn, devices, drivers, backend>>
    BY DEF Host, HostStep, inventory
  <2>2. at' = at \/ (pc # "discover" /\ \E k \in Movable : Reset(k))
    BY DEF Host, Fault, Use, Leave, Break, Repair
  <2> QED
    BY <1>1, <1>2, <2>1, <2>2

\* What was found stays found, and what was proved stays proved, when more is known.
LEMMA MoreIsKnown ==
  ASSUME IndInv, UNCHANGED <<devices, n, pc, status>>, Indices("hcu")' = Indices("hcu"),
         free \subseteq free', well \subseteq well', apart \subseteq apart',
         moved \subseteq moved', concealed \subseteq concealed'
  PROVE  /\ \A t : AppsTell(t) => AppsTell(t)'
         /\ \A b : BusyTells(b) => BusyTells(b)'
         /\ \A f : HealthTells(f) => HealthTells(f)'
         /\ \A d : Healthy(d) => Healthy(d)'
         /\ IdleIsProven'
<1>1. /\ \A t : AppsTell(t) => AppsTell(t)'
      /\ \A b : BusyTells(b) => BusyTells(b)'
      /\ \A f : HealthTells(f) => HealthTells(f)'
      /\ \A d : Healthy(d) => Healthy(d)'
      /\ \A d : Unused(d) => Unused(d)'
  BY DEF AppsTell, BusyTells, HealthTells, Healthy, Unused
<1> QED
  BY <1>1 DEF IndInv, IdleIsProven

LEMMA HostInv ==
  ASSUME IndInv, Host
  PROVE  IndInv'
<1> USE DEF HostStep, inventory, books, local, read, instants
<1>1. /\ UNCHANGED <<backend, pc, turn, devices, drivers, status, errors, n, apps, busy, health,
                     query, probe, concealed>>
      /\ Refreshing =>
           /\ free' = free \cup Free' /\ well' = well \cup Well' /\ apart' = apart \cup Apart'
           /\ moved' = moved \cup {k \in Movable : at'[k] # at[k]}
      /\ ~Refreshing => UNCHANGED <<free, well, apart, moved>>
  BY DEF Host
<1>2. at \in [Kinds -> Seq(Visible)]
  BY DEF IndInv, Inventoried
<1>3. /\ at' \in [Kinds -> Seq(Visible)] /\ \A k \in Kinds \ Movable : at'[k] = at[k]
      /\ \A k \in Kinds : Len(at'[k]) = Len(at[k])
      /\ \A k \in Kinds : \A i \in Indices(k) : \E j \in Indices(k) : at'[k][j + 1] = at[k][i + 1]
      /\ pc = "discover" => at' = at
  BY HostKeeps
<1>4. \A k \in Kinds : Indices(k)' = Indices(k)
  BY <1>3 DEF Indices
<1>5. \A d \in Device : On(d) => On(d)'
  <2>1. "nvidia" \in Kinds \ Movable
    BY DEF Kinds, Movable
  <2> QED
    BY <1>3, <1>4, <2>1 DEF On, Device
<1>6. Inventoried'
  <2>1. \A i \in DOMAIN devices : devices[i] \in Device
    BY DEF IndInv, Inventoried
  <2> QED
    BY <1>1, <1>3, <1>5, <2>1 DEF IndInv, Inventoried, KeysDiffer
<1>7. /\ free \subseteq free' /\ well \subseteq well' /\ apart \subseteq apart'
      /\ moved \subseteq moved' /\ concealed \subseteq concealed'
  BY <1>1
<1>8. Refreshing => Free' \subseteq free' /\ Well' \subseteq well' /\ Apart' \subseteq apart'
  BY <1>1
<1>9. /\ \A t : AppsTell(t) => AppsTell(t)'
      /\ \A b : BusyTells(b) => BusyTells(b)'
      /\ \A f : HealthTells(f) => HealthTells(f)'
      /\ \A d : Healthy(d) => Healthy(d)'
      /\ IdleIsProven'
  BY <1>1, <1>4, <1>7, MoreIsKnown DEF Kinds
<1>10. Readings'
  BY <1>1, <1>8, <1>9 DEF IndInv, Readings, Refreshing
<1>11. Asked'
  <2>1. Probing' = Probing
    BY <1>1 DEF Probing, Discovering, Selected, Has
  <2>2. pc = "discover" => \A ds : Listing("nvidia", ds) => Listing("nvidia", ds)'
    <3> SUFFICES ASSUME at' = at, NEW ds, Listing("nvidia", ds) PROVE Listing("nvidia", ds)'
      BY <1>3
    <3> QED
      BY DEF Listing, On, Indices, KeysDiffer
  <2> QED
    BY <1>1, <1>9, <2>1, <2>2 DEF IndInv, Asked
<1>12. Scanned'
  BY <1>1 DEF IndInv, Scanned
<1>13. Listed'
  BY <1>1, <1>4, <1>7 DEF IndInv, Listed, Kinds
<1>14. Called'
  <2> SUFFICES ASSUME query.call # "first" PROVE Called'
    BY <1>1 DEF Called
  <2>1. /\ pc = "scan" /\ n \in DOMAIN devices /\ devices[n] \in Device /\ On(devices[n])
        /\ devices[n].kind \in Movable => Handled(devices[n])
        /\ query.call = "processes" => Healthy(devices[n])
    BY DEF IndInv, Called, Inventoried
  <2> DEFINE d == devices[n]
  <2>2. ASSUME d.kind \in Movable PROVE Handled(d)'
    <3>1. d.kind \in Kinds
      BY <2>1 DEF Device
    <3>2. PICK i \in Indices(d.kind) : query.handle = KeyAt(d.kind, i)
      BY <2>1, <2>2 DEF Handled
    <3>3. PICK j \in Indices(d.kind) : at'[d.kind][j + 1] = at[d.kind][i + 1]
      BY <1>3, <3>1
    <3>4. query'.handle = KeyAt(d.kind, j)' /\ j \in Indices(d.kind)'
      BY <1>1, <1>4, <3>1, <3>2, <3>3 DEF KeyAt
    <3>5. d.kind \notin moved' => d.kind \notin moved /\ at'[d.kind] = at[d.kind]
      BY <1>1, <2>1, <2>2 DEF Refreshing
    <3>6. d.kind \notin moved' => query'.handle = KeyAt(d.kind, d.id)'
      BY <1>1, <2>1, <2>2, <3>5 DEF Handled, KeyAt
    <3> QED
      BY <1>1, <2>1, <2>2, <3>4, <3>6 DEF Handled
  <2> QED
    BY <1>1, <1>9, <2>1, <2>2 DEF Called
<1> QED
  BY <1>6, <1>9, <1>10, <1>11, <1>12, <1>13, <1>14 DEF IndInv

\* Steps of the utility and of the wait for it, which may show that a card was concealed.
LEMMA AloneInv ==
  ASSUME IndInv, UNCHANGED <<world, backend, pc, inventory, books, local, instants>>,
         concealed \subseteq concealed', Asked'
  PROVE  IndInv'
<1> USE DEF world, inventory, books, local, read, instants
<1>0. \A k : Indices(k)' = Indices(k) /\ \A i : KeyAt(k, i)' = KeyAt(k, i)
  BY DEF Indices, KeyAt
<1>1. Inventoried'
  BY <1>0 DEF IndInv, Inventoried, On, KeysDiffer
<1>2. /\ \A t : AppsTell(t) => AppsTell(t)'
      /\ \A b : BusyTells(b) => BusyTells(b)'
      /\ \A f : HealthTells(f) => HealthTells(f)'
      /\ \A d : Healthy(d) => Healthy(d)'
      /\ IdleIsProven'
  BY <1>0, MoreIsKnown
<1>3. Free' = Free /\ Well' = Well /\ Apart' = Apart
  BY DEF Free, Well, Apart, Places, NameAt, InUse, KeyAt, Indices
<1>4. Readings'
  BY <1>2, <1>3 DEF IndInv, Readings, Refreshing
<1>5. Scanned' /\ Listed'
  BY <1>0 DEF IndInv, Scanned, Listed
<1>6. Called'
  BY <1>0, <1>2 DEF IndInv, Called, Handled
<1> QED
  BY <1>1, <1>2, <1>4, <1>5, <1>6 DEF IndInv

\* The process that runs a utility, and the wait for it.
LEMMA ProbeInv ==
  ASSUME IndInv, Spawn \/ Report \/ UtilityStep \/ AwaitStep
  PROVE  IndInv'
<1>0. /\ Asked /\ UNCHANGED <<world, backend, pc, inventory, books, local, instants>>
      /\ concealed \subseteq concealed'
  BY DEF Spawn, Report, UtilityStep, AwaitStep, IndInv, Alone, facts
<1>1. /\ Probing' = Probing /\ UNCHANGED <<pc, devices, free, well, at>>
      /\ \A t : AppsTell(t) => AppsTell(t)'
      /\ \A f : HealthTells(f) => HealthTells(f)'
      /\ \A ds : Listing("nvidia", ds)' = Listing("nvidia", ds)
  BY <1>0 DEF world, inventory, books, local, instants, Probing, Discovering, Selected, Has,
    AppsTell, HealthTells, Listing, On, Indices, KeysDiffer
<1>2. CASE Spawn
  <2>1. Asked'
    BY <1>0, <1>1, <1>2 DEF Spawn, Launch, Asked, NoProbe
  <2> QED
    BY <1>0, <2>1, AloneInv
<1>3. CASE Report
  <2>1. PICK t \in (IF pc = "discover" THEN InventoryLines
                   ELSE IF pc = "apps" THEN AppLines ELSE HealthLines) :
          /\ Write(t)
          /\ pc = "apps" => concealed' = concealed \cup ({"nvidia"} \X (AppUuids \ t))
    BY <1>3 DEF Report
  <2>2. Probing /\ probe' = [probe EXCEPT !.text = {t}]
    BY <1>3, <2>1 DEF Report, Write
  <2>3. pc = "discover" => \A ds \in ParseNvidia(t) : Listing("nvidia", ds)
    BY <2>1, NvidiaLists DEF IndInv, Inventoried
  <2>4. pc = "apps" => AppsTell(t)'
    <3> SUFFICES ASSUME pc = "apps" PROVE AppsTell(t)'
      OBVIOUS
    <3>1. Inventoried /\ Free \subseteq free
      BY DEF IndInv, Readings, Refreshing
    <3> QED
      BY <1>1, <2>1, <3>1, AppLinesTell DEF AppsTell
  <2>5. pc = "health" => \A f \in HealthStatus(t) : HealthTells(f)
    BY <2>1, HealthLinesTell DEF IndInv, Readings, Refreshing
  <2>6. Asked'
    <3>1. probe' = [stage |-> probe.stage, leader |-> probe.leader, stray |-> probe.stray,
                    text |-> {t}, verdict |-> probe.verdict]
      BY <1>0, <2>2 DEF Asked
    <3>2. probe.stage # "off"
      BY <1>0, <2>1 DEF Write, Asked, NoProbe
    <3> QED
      BY <1>1, <2>2, <2>3, <2>4, <2>5, <3>1, <3>2 DEF Asked
  <2> QED
    BY <1>0, <2>6, AloneInv
<1>4. CASE UtilityStep \/ AwaitStep
  <2>1. probe' = [stage |-> probe'.stage, leader |-> probe'.leader, stray |-> probe'.stray,
                  text |-> probe'.text, verdict |-> probe'.verdict]
    BY <1>0, <1>4 DEF UtilityStep, AwaitStep, Utility, Await, Fork, Stick, Unstick, Finish,
      StrayEnds, Look, Reap, Asked
  <2>2. probe'.text \subseteq probe.text
    BY <1>0, <1>4 DEF UtilityStep, AwaitStep, Utility, Await, Fork, Stick, Unstick, Finish,
      StrayEnds, Look, Reap, Asked
  <2>3. (probe'.stage = "off") = (probe.stage = "off")
    BY <1>0, <1>4 DEF UtilityStep, AwaitStep, Utility, Await, Fork, Stick, Unstick, Finish,
      StrayEnds, Look, Reap, Asked
  <2>4. Asked'
    <3>1. probe.stage # "off"
      BY <1>0, <1>4 DEF UtilityStep, AwaitStep, Utility, Await, Fork, Stick, Unstick, Finish,
        StrayEnds, Look, Reap, Asked, NoProbe
    <3> QED
      BY <1>0, <1>1, <2>1, <2>2, <2>3, <3>1 DEF Asked
  <2> QED
    BY <1>0, <2>4, AloneInv
<1> QED
  BY <1>2, <1>3, <1>4

-----------------------------------------------------------------------------
(***************************************************************************)
(* Discovery.                                                              *)
(***************************************************************************)
\* A vendor's devices, or none of them, are added when its turn comes.
LEMMA Appended ==
  ASSUME Inventoried, UNCHANGED at, turn \in 1 .. 6, turn' = turn + 1,
         NEW ds, Listing(Priority[turn], ds), devices' = devices \o ds
  PROVE  Inventoried'
<1>0. turn \in 1 .. 6 /\ turn' \in 1 .. 7 /\ turn' = turn + 1 /\ Len(Priority) + 1 = 7
  BY PriorityOnce DEF Inventoried
<1>1. devices \in Seq(Device) /\ ds \in Seq(Device)
  BY DEF Inventoried, Listing
<1>2. /\ devices' \in Seq(Device) /\ Len(devices) \in Nat /\ Len(ds) \in Nat
      /\ DOMAIN devices = 1 .. Len(devices) /\ DOMAIN ds = 1 .. Len(ds)
      /\ DOMAIN devices' = 1 .. Len(devices) + Len(ds)
      /\ \A i \in 1 .. Len(devices) + Len(ds) :
           devices'[i] = IF i <= Len(devices) THEN devices[i] ELSE ds[i - Len(devices)]
  <2>1. devices' \in Seq(Device) /\ Len(devices') = Len(devices) + Len(ds)
    BY <1>1, ConcatProperties
  <2> QED
    BY <1>1, <2>1, ConcatProperties, LenProperties
<1>3. \A i \in DOMAIN devices' :
        \/ i \in DOMAIN devices /\ devices'[i] = devices[i]
        \/ i - Len(devices) \in DOMAIN ds /\ i > Len(devices) /\ devices'[i] = ds[i - Len(devices)]
  BY <1>2
<1>4. ASSUME NEW i \in DOMAIN devices, NEW j \in DOMAIN ds PROVE Key(devices[i]) # Key(ds[j])
  <2>1. PICK t \in 1 .. turn - 1 : Priority[t] = devices[i].kind
    BY DEF Inventoried
  <2>2. t \in 1 .. 6 /\ t # turn
    BY <1>0, <2>1
  <2>3. devices[i].kind # ds[j].kind
    BY <1>0, <2>1, <2>2, PriorityOnce DEF Listing
  <2> QED
    BY <2>3 DEF Key
<1>5. KeysDiffer(devices)'
  <2> SUFFICES ASSUME NEW i \in DOMAIN devices', NEW j \in DOMAIN devices',
                      Key(devices'[i]) = Key(devices'[j])
               PROVE  i = j
    BY DEF KeysDiffer
  <2>1. CASE i \in DOMAIN devices /\ devices'[i] = devices[i]
    BY <1>3, <1>4, <2>1 DEF Inventoried, KeysDiffer
  <2>2. CASE i - Len(devices) \in DOMAIN ds /\ devices'[i] = ds[i - Len(devices)]
    <3>1. j - Len(devices) \in DOMAIN ds /\ devices'[j] = ds[j - Len(devices)]
      BY <1>3, <1>4, <2>2
    <3>2. i - Len(devices) = j - Len(devices)
      BY <2>2, <3>1 DEF Listing, KeysDiffer
    <3> QED
      BY <1>2, <3>2
  <2> QED
    BY <1>3, <2>1, <2>2
<1>6. \A d : On(d)' = On(d)
  BY DEF On, Indices
<1>7. ASSUME NEW i \in DOMAIN devices'
      PROVE  On(devices'[i]) /\ \E t \in 1 .. turn' - 1 : Priority[t] = devices'[i].kind
  <2>1. CASE i \in DOMAIN devices /\ devices'[i] = devices[i]
    <3>1. \A t \in 1 .. turn - 1 : t \in 1 .. turn' - 1
      BY <1>0
    <3> QED
      BY <2>1, <3>1 DEF Inventoried
  <2>2. CASE i - Len(devices) \in DOMAIN ds /\ devices'[i] = ds[i - Len(devices)]
    <3>1. turn \in 1 .. turn' - 1
      BY <1>0
    <3> QED
      BY <2>2, <3>1 DEF Listing
  <2> QED
    BY <1>3, <2>1, <2>2
<1> QED
  BY <1>0, <1>2, <1>5, <1>6, <1>7 DEF Inventoried

LEMMA NoneAppended ==
  ASSUME Inventoried, UNCHANGED <<at, devices>>,
         turn' = turn \/ (turn \in 1 .. 6 /\ turn' = turn + 1)
  PROVE  Inventoried'
<1>1. turn \in Nat /\ turn' \in {turn, turn + 1} /\ turn' \in 1 .. Len(Priority) + 1
  BY PriorityOnce DEF Inventoried
<1>2. ASSUME NEW t \in 1 .. turn - 1 PROVE t \in 1 .. turn' - 1
  <2>1. t \in Nat /\ 1 <= t /\ t <= turn - 1
    BY <1>1
  <2>2. CASE turn' = turn
    BY <2>2
  <2>3. CASE turn' = turn + 1
    BY <1>1, <2>1, <2>3
  <2> QED
    BY <1>1, <2>2, <2>3
<1> QED
  BY <1>1, <1>2 DEF Inventoried, On, Indices, KeysDiffer

\* The end of one vendor's discovery, when no utility runs any more.
LEMMA DiscoverStep ==
  ASSUME IndInv, pc = "discover", turn \in DOMAIN Priority, UNCHANGED <<at, books, local>>,
         NEW found, \A ds \in found : Listing(Priority[turn], ds),
         probe' = NoProbe, pc' \in {"discover", "gone"},
         \/ UNCHANGED <<turn, devices>>
         \/ /\ turn' = turn + 1
            /\ devices' = IF found = {} THEN devices ELSE devices \o (CHOOSE ds \in found : TRUE)
  PROVE  IndInv'
<1>0. turn \in 1 .. 6
  BY PriorityOnce
<1>1. Inventoried'
  <2>1. CASE devices' = devices /\ (turn' = turn \/ turn' = turn + 1)
    BY <1>0, <2>1, NoneAppended DEF IndInv
  <2>2. CASE found # {} /\ turn' = turn + 1 /\ devices' = devices \o (CHOOSE ds \in found : TRUE)
    <3>1. Listing(Priority[turn], CHOOSE ds \in found : TRUE)
      BY <2>2
    <3> QED
      BY <1>0, <2>2, <3>1, Appended DEF IndInv
  <2> QED
    BY <2>1, <2>2
<1>2. Readings' /\ Listed' /\ Called' /\ Scanned' /\ IdleIsProven'
  BY DEF IndInv, Readings, Refreshing, Listed, Called, Scanned, IdleIsProven, local, read, books
<1>3. Asked'
  BY DEF Asked, NoProbe
<1> QED
  BY <1>1, <1>2, <1>3 DEF IndInv

LEMMA Idle ==
  ASSUME IndInv, ~Probing \/ probe.stage = "off"
  PROVE  probe = NoProbe
BY DEF IndInv, Asked

LEMMA DiscoverInv ==
  ASSUME IndInv,
         Skip \/ DiscoverAscend \/ \E k \in {"mthreads", "metax", "ppu", "hcu"} : DiscoverLibrary(k)
  PROVE  IndInv'
<1> USE DEF world, books, local
<1>0. pc = "discover" /\ turn \in DOMAIN Priority /\ at \in [Kinds -> Seq(Visible)]
      /\ UNCHANGED <<at, books, local, probe>>
  BY DEF Skip, DiscoverAscend, DiscoverLibrary, Discovered, Discovering, IndInv, Inventoried
<1>1. probe = NoProbe
  <2>1. ~Probing
    BY <1>0 DEF Probing, Skip, DiscoverAscend, DiscoverLibrary, Discovering
  <2> QED
    BY <2>1, Idle
<1>2. ASSUME NEW found, NEW library, Discovered(found, library),
             \A ds \in found : Listing(Priority[turn], ds)
      PROVE  IndInv'
  <2>1. pc' \in {"discover", "gone"} /\
         \/ UNCHANGED <<turn, devices>>
         \/ /\ turn' = turn + 1
            /\ devices' = IF found = {} THEN devices ELSE devices \o (CHOOSE ds \in found : TRUE)
    BY <1>0, <1>2 DEF Discovered, inventory
  <2> QED
    BY <1>0, <1>1, <1>2, <2>1, DiscoverStep
<1>3. CASE Skip
  <2>1. turn' = turn + 1 /\ UNCHANGED <<pc, devices>>
    BY <1>3 DEF Skip
  <2>2. /\ \A ds \in {} : Listing(Priority[turn], ds)
        /\ devices' = IF {} = {} THEN devices ELSE devices \o (CHOOSE ds \in {} : TRUE)
    BY <2>1
  <2> QED
    BY <1>0, <1>1, <2>1, <2>2, DiscoverStep
<1>4. CASE DiscoverAscend
  <2>1. PICK r \in DcmiInventories :
          Discovered(IF DcmiLoad(r) = {"api"} THEN ApiDiscover(r)
                     ELSE IF DcmiLoad(r) = {"legacy"} THEN LegacyDiscover(r) ELSE {}, DcmiLoad(r))
    BY <1>4 DEF DiscoverAscend
  <2> DEFINE found == IF DcmiLoad(r) = {"api"} THEN ApiDiscover(r)
                      ELSE IF DcmiLoad(r) = {"legacy"} THEN LegacyDiscover(r) ELSE {}
  <2>2. Priority[turn] = "ascend"
    BY <1>4 DEF DiscoverAscend, Discovering
  <2>3. \A ds \in found : Listing("ascend", ds)
    BY <1>0, AscendLists
  <2>4. Discovered(found, DcmiLoad(r))
    BY <2>1
  <2> HIDE DEF found
  <2> QED
    BY <1>2, <2>2, <2>3, <2>4
<1>5. ASSUME NEW k \in {"mthreads", "metax", "ppu", "hcu"}, DiscoverLibrary(k)
      PROVE  IndInv'
  <2>1. PICK r \in Enumerations(k) : Discovered(Finds(k, r), {k})
    BY <1>5 DEF DiscoverLibrary
  <2>2. Priority[turn] = k /\ \A ds \in Finds(k, r) : Listing(k, ds)
    BY <1>0, <1>5, LibraryLists DEF DiscoverLibrary, Discovering
  <2> QED
    BY <1>2, <2>1, <2>2
<1> QED
  BY <1>3, <1>4, <1>5

-----------------------------------------------------------------------------
(***************************************************************************)
(* The refresh.                                                            *)
(***************************************************************************)
\* Within one refresh what was read stays true, whatever is read next.
LEMMA ReadStep ==
  ASSUME IndInv, Refreshing, pc' \in {"apps", "busy", "list", "lookup", "health", "scan"}, pc # "scan",
         UNCHANGED <<world, inventory, books, n, facts>>, probe' = NoProbe,
         query'.call = "first", Listed',
         \A t \in apps' : AppsTell(t), \A b \in busy' : BusyTells(b),
         \A f \in health' : HealthTells(f)
  PROVE  IndInv'
<1> USE DEF world, inventory, books, facts, instants
<1>1. Inventoried'
  BY PriorityOnce, NoneAppended DEF IndInv, Inventoried
<1>2. Readings'
  <2>1. Free' = Free /\ Well' = Well /\ Apart' = Apart
    BY DEF Free, Well, Apart, Places, NameAt, InUse, KeyAt, Indices
  <2>2. /\ \A t : AppsTell(t)' = AppsTell(t)
        /\ \A b : BusyTells(b)' = BusyTells(b)
        /\ \A f : HealthTells(f)' = HealthTells(f)
    BY DEF Indices, AppsTell, BusyTells, HealthTells
  <2> QED
    BY <2>1, <2>2 DEF IndInv, Readings, Refreshing
<1>3. Asked'
  BY DEF Asked, NoProbe
<1>4. Scanned' /\ Called'
  BY DEF IndInv, Scanned, Called, Refreshing
<1>5. IdleIsProven'
  <2>1. n' = 1
    BY DEF IndInv, Scanned
  <2> QED
    BY <2>1 DEF IdleIsProven
<1> QED
  BY <1>1, <1>2, <1>3, <1>4, <1>5 DEF IndInv

\* Before the devices are looked at one by one, no card was asked anything.
LEMMA NotCalled ==
  ASSUME IndInv, pc # "scan"
  PROVE  query.call = "first"
BY DEF IndInv, Called

LEMMA ReturnInv ==
  ASSUME IndInv, Probing, NEW output, output \in {probe.text, {}}, Return(output), probe' = NoProbe
  PROVE  IndInv'
<1>0. Asked /\ Readings
  BY DEF IndInv
<1>1. CASE pc = "discover"
  <2> DEFINE found == IF output = {} THEN {} ELSE ParseNvidia(CHOOSE t \in output : TRUE)
  <2>1. Priority[turn] = "nvidia" /\ turn \in DOMAIN Priority
    BY <1>1 DEF Probing, Discovering
  <2>2. \A ds \in found : Listing("nvidia", ds)
    <3> SUFFICES ASSUME output # {}
                 PROVE  \A ds \in ParseNvidia(CHOOSE t \in output : TRUE) : Listing("nvidia", ds)
      OBVIOUS
    <3>1. (CHOOSE t \in output : TRUE) \in probe.text
      OBVIOUS
    <3> QED
      BY <1>0, <1>1, <3>1 DEF Asked
  <2>3. /\ UNCHANGED <<at, books, local>> /\ pc' \in {"discover", "gone"}
        /\ \/ UNCHANGED <<turn, devices>>
           \/ /\ turn' = turn + 1
              /\ devices' = IF found = {} THEN devices ELSE devices \o (CHOOSE ds \in found : TRUE)
    BY <1>1 DEF Return, world, inventory
  <2> HIDE DEF found
  <2> QED
    BY <1>1, <2>1, <2>2, <2>3, DiscoverStep
<1>2. CASE pc = "apps"
  <2>1. apps' = output /\ pc' = "busy" /\ UNCHANGED <<world, inventory, books, n, busy, health, query, facts>>
    BY <1>2 DEF Return
  <2>2. \A t \in output : AppsTell(t)
    BY <1>0, <1>2 DEF Asked
  <2>3. query'.call = "first" /\ Listed'
    BY <1>2, <2>1, NotCalled DEF IndInv, Listed
  <2> QED
    BY <1>0, <1>2, <2>1, <2>2, <2>3, ReadStep DEF Readings, Refreshing
<1>3. CASE pc = "health"
  <2>1. /\ pc' = "scan" /\ UNCHANGED <<world, inventory, books, n, apps, busy, query, facts>>
        /\ health' = IF output = {} THEN {} ELSE HealthStatus(CHOOSE t \in output : TRUE)
    BY <1>3 DEF Return
  <2>2. \A f \in health' : HealthTells(f)
    <3> SUFFICES ASSUME output # {}
                 PROVE  \A f \in HealthStatus(CHOOSE t \in output : TRUE) : HealthTells(f)
      BY <2>1
    <3>1. (CHOOSE t \in output : TRUE) \in probe.text
      OBVIOUS
    <3> QED
      BY <1>0, <1>3, <3>1 DEF Asked
  <2>3. query'.call = "first" /\ Listed'
    BY <1>3, <2>1, NotCalled DEF IndInv, Listed
  <2> QED
    BY <1>0, <1>3, <2>1, <2>2, <2>3, ReadStep DEF Readings, Refreshing
<1> QED
  BY <1>1, <1>2, <1>3 DEF Return

LEMMA CollectInv ==
  ASSUME IndInv, Collect \/ SpawnFails
  PROVE  IndInv'
<1>1. CASE Collect
  <2>1. Return(probe.text) /\ probe' = NoProbe /\ probe.stage # "off"
    BY <1>1 DEF Collect, Output, Join
  <2>2. Probing
    BY <2>1 DEF IndInv, Asked
  <2> QED
    BY <2>1, <2>2, ReturnInv
<1>2. CASE SpawnFails
  <2>1. Return({}) /\ probe' = NoProbe /\ Probing
    BY <1>2, Idle DEF SpawnFails
  <2> QED
    BY <2>1, ReturnInv
<1> QED
  BY <1>1, <1>2

LEMMA BeginInv ==
  ASSUME IndInv, Begin
  PROVE  IndInv'
<1> USE DEF world, inventory, books, local
<1>1. probe = NoProbe
  <2>1. ~Probing
    BY PriorityOnce DEF Begin, Probing, Discovering, IndInv, Inventoried
  <2> QED
    BY <2>1, Idle
<1>2. Inventoried'
  BY NoneAppended DEF Begin, IndInv
<1>3. Readings'
  <2>1. apps' = {} /\ busy' = {} /\ health' = {}
    BY DEF Begin, IndInv, Readings, read
  <2>2. Free' = free' /\ Well' = well' /\ Apart' = apart' /\ pc' = "apps"
    BY DEF Begin, Free, Well, Apart, Places, NameAt, InUse, KeyAt, Indices
  <2> QED
    BY <2>1, <2>2 DEF Readings
<1>4. Asked' /\ Scanned' /\ IdleIsProven'
  BY <1>1 DEF Begin, Asked, NoProbe, IndInv, Scanned, IdleIsProven
<1>5. Listed' /\ Called'
  BY NotCalled DEF Begin, IndInv, Listed, Called
<1> QED
  BY <1>2, <1>3, <1>4, <1>5 DEF IndInv

\* A vendor that is not there is not asked, and the HCU library is, call by call.
LEMMA ReadInv ==
  ASSUME IndInv,
         NoUtility \/ CountHcus \/ ListProcesses \/ (\E p \in query.pids : LookUp(p)) \/ LookedUp
  PROVE  IndInv'
<1> USE DEF local, read
<1>0. Readings /\ Inventoried /\ Listed
  BY DEF IndInv
<1>1. probe = NoProbe /\ query.call = "first" /\ pc \in {"apps", "busy", "list", "lookup"}
  <2>1. ~Probing /\ pc \in {"apps", "busy", "list", "lookup"}
    BY DEF NoUtility, CountHcus, ListProcesses, LookUp, LookedUp, Probing, Discovering
  <2> QED
    BY <2>1, Idle, NotCalled
<1>2. Refreshing /\ Apart \subseteq apart
  BY <1>0, <1>1 DEF Readings, Refreshing
<1>3. CASE NoUtility
  <2>1. /\ pc' \in {"busy", "scan"}
        /\ UNCHANGED <<world, inventory, books, local, probe, facts>>
    BY <1>3 DEF NoUtility
  <2>2. Listed'
    BY <1>0, <2>1 DEF Listed
  <2> QED
    BY <1>0, <1>1, <1>2, <2>1, <2>2, ReadStep DEF Readings
<1>4. ASSUME NEW result, HcuRead(result), \A b \in result : BusyTells(b)
      PROVE  IndInv'
  <2>1. /\ pc' = "health" /\ busy' = result /\ query' = NoQuery
        /\ UNCHANGED <<world, inventory, books, n, apps, health, probe, facts>>
    BY <1>4 DEF HcuRead
  <2>2. query'.call = "first" /\ Listed'
    BY <2>1 DEF Listed, NoQuery
  <2> QED
    BY <1>0, <1>1, <1>2, <1>4, <2>1, <2>2, ReadStep DEF Readings
<1>5. HcuRead({}) => IndInv'
  BY <1>4
<1>6. ASSUME NEW next \in {"list", "lookup"}, HcuAsks(next), query'.call = "first",
             query' = [call |-> query'.call, handle |-> query'.handle, count |-> query'.count,
                       pids |-> query'.pids, gpus |-> query'.gpus],
             query'.count \in 1 .. MaxDevices,
             next = "lookup" => \A i \in Indices("hcu") \ query'.gpus, p \in Pid \ query'.pids :
                                  <<p, <<"hcu", i>>>> \in apart
      PROVE  IndInv'
  <2>1. pc' = next /\ UNCHANGED <<world, inventory, books, n, apps, busy, health, probe, facts>>
    BY <1>6 DEF HcuAsks
  <2>2. Indices("hcu")' = Indices("hcu") /\ apart' = apart
    BY <2>1 DEF world, facts, instants, Indices
  <2>3. Listed'
    BY <1>6, <2>1, <2>2 DEF Listed
  <2> QED
    BY <1>0, <1>1, <1>2, <1>6, <2>1, <2>3, ReadStep DEF Readings
<1>7. CASE CountHcus
  <2>1. CASE HcuRead({})
    BY <1>5, <2>1
  <2>2. ASSUME NEW reply \in HcuCounts, NEW c \in HcuCount(reply),
               query' = [NoQuery EXCEPT !.count = c], HcuAsks("list")
        PROVE  IndInv'
    <3>1. c \in 1 .. MaxDevices
      BY <2>2 DEF HcuCount
    <3> QED
      BY <1>6, <2>2, <3>1 DEF NoQuery
  <2> QED
    BY <1>7, <2>1, <2>2 DEF CountHcus
<1>8. CASE ListProcesses
  <2>1. CASE HcuRead({})
    BY <1>5, <2>1
  <2>2. ASSUME NEW reply \in ProcessLists, NEW listed \in HcuProcesses(reply),
               query' = [query EXCEPT !.pids = listed], HcuAsks("lookup")
        PROVE  IndInv'
    <3>1. /\ query' = [call |-> query.call, handle |-> query.handle, count |-> query.count,
                       pids |-> listed, gpus |-> query.gpus]
          /\ query.count \in 1 .. MaxDevices
      BY <1>0, <1>8, <2>2 DEF Listed, ListProcesses
    <3>2. \A i \in Indices("hcu"), p \in Pid \ listed : <<p, <<"hcu", i>>>> \in apart
      BY <1>2, <2>2, ListTells
    <3> QED
      BY <1>1, <1>6, <2>2, <3>1, <3>2
  <2> QED
    BY <1>8, <2>1, <2>2 DEF ListProcesses
<1>9. ASSUME NEW p \in query.pids, LookUp(p) PROVE IndInv'
  <2>1. CASE HcuRead({})
    BY <1>5, <2>1
  <2>2. ASSUME NEW reply \in Lookups(p), NEW gpus \in HcuGpus(p, reply, query.count),
               query' = [query EXCEPT !.pids = @ \ {p}, !.gpus = @ \cup gpus], HcuAsks("lookup")
        PROVE  IndInv'
    <3>1. /\ query' = [call |-> query.call, handle |-> query.handle, count |-> query.count,
                       pids |-> query.pids \ {p}, gpus |-> query.gpus \cup gpus]
          /\ query.count \in 1 .. MaxDevices
          /\ \A i \in Indices("hcu") \ query.gpus, q \in Pid \ query.pids :
               <<q, <<"hcu", i>>>> \in apart
      BY <1>0, <1>9, <2>2 DEF Listed, LookUp
    <3>2. p \in Pid => \A i \in Indices("hcu") \ gpus : <<p, <<"hcu", i>>>> \in apart
      BY <1>2, <2>2, <3>1, LookupTells
    <3>3. \A i \in Indices("hcu") \ (query.gpus \cup gpus), q \in Pid \ (query.pids \ {p}) :
            <<q, <<"hcu", i>>>> \in apart
      BY <3>1, <3>2
    <3> QED
      BY <1>1, <1>6, <2>2, <3>1, <3>3
  <2> QED
    BY <1>9, <2>1, <2>2 DEF LookUp
<1>10. CASE LookedUp
  <2>1. BusyTells(query.gpus)
    BY <1>0, <1>10 DEF LookedUp, Listed, BusyTells
  <2> QED
    BY <1>4, <1>10, <2>1 DEF LookedUp
<1> QED
  BY <1>3, <1>7, <1>8, <1>9, <1>10

LEMMA EndRefreshInv ==
  ASSUME IndInv, EndRefresh
  PROVE  IndInv'
<1> USE DEF EndRefresh, world, inventory, books
<1>1. probe = NoProbe
  <2>1. ~Probing
    BY DEF Probing, Discovering
  <2> QED
    BY <2>1, Idle
<1>2. Inventoried'
  BY NoneAppended DEF IndInv
<1>3. Readings' /\ Asked' /\ Scanned' /\ IdleIsProven'
  BY <1>1 DEF Readings, Refreshing, Asked, NoProbe, IndInv, Scanned, IdleIsProven
<1>4. Listed' /\ Called'
  <2>1. n \notin DOMAIN devices
    BY DEF IndInv, Scanned, Inventoried
  <2> QED
    BY <2>1 DEF IndInv, Listed, Called
<1> QED
  BY <1>2, <1>3, <1>4 DEF IndInv

\* Why a device may be left idle, when the cards of c are known to be concealed.
Justified(d, c) ==
  /\ IF d.kind = "hcu" THEN \A p \in Pid : <<p, Place(d)>> \in apart
     ELSE Name(d) \in free \cup c
  /\ Healthy(d)

\* A conclusion about the next device, justified if it is "idle".
LEMMA ConcludedInv ==
  ASSUME IndInv, pc = "scan", n \in DOMAIN devices, NEW s, Concluded(s),
         concealed \subseteq concealed', s = "idle" => Justified(devices[n], concealed')
  PROVE  IndInv'
<1> USE DEF Concluded, world, inventory, read, instants
<1>0. /\ n \in Nat \ {0} /\ devices \in Seq(Device)
      /\ DOMAIN devices = 1 .. Len(devices) /\ Len(devices) \in Nat
  BY DEF IndInv, Scanned, Inventoried
<1>1. Inventoried'
  BY NoneAppended DEF IndInv
<1>2. Readings'
  <2>1. Free' = Free /\ Well' = Well /\ Apart' = Apart
    BY DEF Free, Well, Apart, Places, NameAt, InUse, KeyAt, Indices
  <2>2. /\ \A t : AppsTell(t) => AppsTell(t)'
        /\ \A b : BusyTells(b)' = BusyTells(b)
        /\ \A f : HealthTells(f)' = HealthTells(f)
    BY DEF Indices, AppsTell, BusyTells, HealthTells
  <2> QED
    BY <2>1, <2>2 DEF IndInv, Readings, Refreshing
<1>3. Asked'
  BY DEF IndInv, Asked, Probing, Discovering
<1>4. Scanned'
  <2>1. devices[n] \in Device
    BY <1>0
  <2>2. Key(devices[n]) \in AllKeys
    BY <2>1 DEF Key, AllKeys, Device
  <2>3. status' = [key \in AllKeys |-> status'[key]]
    BY <2>2 DEF IndInv, Scanned
  <2>4. n' \in Nat \ {0} /\ pc' = "scan"
    BY <1>0
  <2> QED
    BY <2>3, <2>4 DEF Scanned
<1>5. IdleIsProven'
  <2>0. /\ \A d : Unused(d) => Unused(d)'
        /\ \A d : Healthy(d) => Healthy(d)'
        /\ \A d : Justified(d, concealed') => Unused(d)' /\ Healthy(d)'
    BY DEF Unused, Healthy, Justified
  <2> SUFFICES ASSUME NEW i \in 1 .. n, status'[Key(devices[i])] = "idle"
               PROVE  Unused(devices[i])' /\ Healthy(devices[i])'
    BY <1>0 DEF IdleIsProven
  <2>1. i \in DOMAIN devices /\ devices[i] \in Device /\ devices[n] \in Device
    BY <1>0
  <2>2. Key(devices[i]) \in AllKeys /\ Key(devices[n]) \in AllKeys
    BY <2>1 DEF Key, AllKeys, Device
  <2>3. status' = [key \in AllKeys |-> IF key = Key(devices[n]) THEN s ELSE status[key]]
    BY <2>2 DEF IndInv, Scanned
  <2>4. CASE i = n
    BY <2>0, <2>2, <2>3, <2>4
  <2>5. CASE i # n
    <3>1. Key(devices[i]) # Key(devices[n])
      BY <2>1, <2>5 DEF IndInv, Inventoried, KeysDiffer
    <3>2. i \in 1 .. n - 1
      BY <1>0, <2>5
    <3> QED
      BY <2>0, <2>2, <2>3, <3>1, <3>2 DEF IndInv, IdleIsProven
  <2> QED
    BY <2>4, <2>5
<1>6. Listed' /\ Called'
  BY DEF Listed, Called, NoQuery
<1> QED
  BY <1>1, <1>2, <1>3, <1>4, <1>5, <1>6 DEF IndInv

\* A call that leaves something to ask.
LEMMA AsksInv ==
  ASSUME IndInv, pc = "scan", n \in DOMAIN devices,
         UNCHANGED <<world, backend, pc, inventory, books, n, read, probe, facts>>,
         NEW call, NEW handle, query' = [query EXCEPT !.call = call, !.handle = handle],
         LET d == devices[n]
         IN  /\ d.kind \in Movable =>
                  /\ \E i \in Indices(d.kind) : handle = KeyAt(d.kind, i)
                  /\ d.kind \notin moved => handle = KeyAt(d.kind, d.id)
                  /\ call \in {"health", "processes"} => handle = Key(d)
             /\ call = "processes" => Healthy(d)
  PROVE  IndInv'
<1> USE DEF world, inventory, books, read, facts, instants
<1>0. \A k : Indices(k)' = Indices(k) /\ \A i : KeyAt(k, i)' = KeyAt(k, i)
  BY DEF Indices, KeyAt
<1>1. Inventoried'
  BY NoneAppended DEF IndInv
<1>2. /\ \A t : AppsTell(t) => AppsTell(t)'
      /\ \A b : BusyTells(b) => BusyTells(b)'
      /\ \A f : HealthTells(f) => HealthTells(f)'
      /\ \A d : Healthy(d) => Healthy(d)'
      /\ IdleIsProven'
  BY <1>0, MoreIsKnown
<1>3. Free' = Free /\ Well' = Well /\ Apart' = Apart
  BY DEF Free, Well, Apart, Places, NameAt, InUse, KeyAt, Indices
<1>4. Readings'
  BY <1>2, <1>3 DEF IndInv, Readings, Refreshing
<1>5. Asked' /\ Scanned'
  BY DEF IndInv, Asked, Probing, Discovering, Scanned
<1>6. query' = [call |-> call, handle |-> handle, count |-> query.count, pids |-> query.pids,
                gpus |-> query.gpus]
  BY DEF IndInv, Listed
<1>7. Listed'
  BY <1>6 DEF Listed
<1>8. Called'
  BY <1>0, <1>2, <1>6 DEF Called, Handled
<1> QED
  BY <1>1, <1>2, <1>4, <1>5, <1>7, <1>8 DEF IndInv

\* What is known when the next device is asked.
LEMMA ScanKnows ==
  ASSUME IndInv, pc = "scan", n \in DOMAIN devices
  PROVE  /\ Free \subseteq free /\ Well \subseteq well
         /\ at \in [Kinds -> Seq(Visible)] /\ devices[n] \in Device /\ On(devices[n])
         /\ \A t \in apps : AppsTell(t)
         /\ \A b \in busy : BusyTells(b)
         /\ \A f \in health : HealthTells(f)
         /\ query = [call |-> query.call, handle |-> query.handle, count |-> query.count,
                     pids |-> query.pids, gpus |-> query.gpus]
         /\ query.call # "first" /\ devices[n].kind \in Movable => Handled(devices[n])
         /\ query.call = "processes" => Healthy(devices[n])
BY DEF IndInv, Readings, Refreshing, Inventoried, Listed, Called

\* The devices of nvidia-smi and hy-smi, from what was read.
LEMMA ScanReadInv ==
  ASSUME IndInv, ScanNvidia \/ ScanHcu
  PROVE  IndInv'
<1>0. pc = "scan" /\ n \in DOMAIN devices /\ concealed \subseteq concealed'
  BY DEF ScanNvidia, ScanHcu, Asking, Scanning, Answered
<1> DEFINE d == devices[n]
<1>1. CASE ScanNvidia
  <2>1. d.kind = "nvidia" /\ Concluded(NvidiaStatus(d, apps)) /\ concealed' = concealed
    BY <1>1 DEF ScanNvidia, Asking, Scanning, Answered
  <2>2. NvidiaStatus(d, apps) = "idle" => Justified(d, concealed')
    <3> SUFFICES ASSUME NvidiaStatus(d, apps) = "idle" PROVE Justified(d, concealed')
      OBVIOUS
    <3>1. apps # {} /\ \A t \in apps : Garbled \notin t /\ d.visible \notin t
      BY DEF NvidiaStatus
    <3>2. Key(d) \in free \cup concealed
      BY <1>0, <2>1, <3>1, ScanKnows DEF AppsTell
    <3>3. d.kind \notin Checked /\ d.kind \in ByUuid /\ d.kind # "hcu"
      BY <2>1 DEF Checked, ByUuid
    <3> QED
      BY <2>1, <3>2, <3>3 DEF Justified, Name, Healthy
  <2> QED
    BY <1>0, <2>1, <2>2, ConcludedInv
<1>2. CASE ScanHcu
  <2>1. d.kind = "hcu" /\ Concluded(HcuStatus(d, busy, health))
    BY <1>2 DEF ScanHcu, Asking, Scanning, Answered
  <2>2. HcuStatus(d, busy, health) = "idle" => Justified(d, concealed')
    <3> SUFFICES ASSUME HcuStatus(d, busy, health) = "idle" PROVE Justified(d, concealed')
      OBVIOUS
    <3>1. /\ \E f \in health : d.id \in DOMAIN f /\ f[d.id] = TRUE
          /\ busy # {} /\ \A b \in busy : d.id \notin b
      BY DEF HcuStatus
    <3>2. d.id \in Indices("hcu")
      BY <1>0, <2>1, ScanKnows DEF On
    <3>3. \A p \in Pid : <<p, Place(d)>> \in apart
      BY <1>0, <2>1, <3>1, <3>2, ScanKnows DEF BusyTells, Place
    <3>4. \E w \in well : w[1] = Place(d)
      BY <1>0, <2>1, <3>1, ScanKnows DEF HealthTells, Place
    <3> QED
      BY <2>1, <3>3, <3>4 DEF Justified, Healthy, ByUuid
  <2> QED
    BY <1>0, <2>1, <2>2, ConcludedInv
<1> QED
  BY <1>1, <1>2

\* Devices whose library checks identities: the handle, its UUID, MetaX's availability by index,
\* and the processes through the handle.
LEMMA AnsweredInv ==
  ASSUME IndInv, pc = "scan", n \in DOMAIN devices, NEW s, s # "idle", Answered(s)
  PROVE  IndInv'
BY ConcludedInv DEF Answered

LEMMA ScanLibraryInv ==
  ASSUME IndInv,
         AskAvailability \/ \E k \in Movable : TakeHandle(k) \/ AskUuid(k) \/ AskProcesses(k)
  PROVE  IndInv'
<1> DEFINE d == devices[n]
<1>0. pc = "scan" /\ n \in DOMAIN devices
  BY DEF AskAvailability, TakeHandle, AskUuid, AskProcesses, Asking, Scanning
<1>1. /\ Free \subseteq free /\ Well \subseteq well
      /\ at \in [Kinds -> Seq(Visible)] /\ d \in Device /\ On(d)
      /\ query = [call |-> query.call, handle |-> query.handle, count |-> query.count,
                  pids |-> query.pids, gpus |-> query.gpus]
      /\ query.call # "first" /\ d.kind \in Movable => Handled(d)
      /\ query.call = "processes" => Healthy(d)
  BY <1>0, ScanKnows
<1>2. ASSUME NEW k \in Movable, TakeHandle(k) PROVE IndInv'
  <2>1. d.kind = k /\ k # "nvidia" /\ d.id \in Indices(k)
    BY <1>1, <1>2 DEF TakeHandle, Asking, Scanning, Movable, On
  <2>2. CASE Answered("unknown")
    BY <1>0, <2>2, AnsweredInv
  <2>3. CASE /\ query' = [query EXCEPT !.call = "uuid", !.handle = KeyAt(k, d.id)]
             /\ UNCHANGED <<world, backend, pc, inventory, books, n, read, probe, facts>>
    <3>1. "uuid" \notin {"health", "processes"} /\ "uuid" # "processes"
      OBVIOUS
    <3> QED
      BY <1>0, <2>1, <2>3, <3>1, AsksInv
  <2> QED
    BY <1>2, <2>2, <2>3 DEF TakeHandle
<1>3. ASSUME NEW k \in Movable, AskUuid(k) PROVE IndInv'
  <2>1. d.kind = k /\ query.call = "uuid" /\ Handled(d)
    BY <1>1, <1>3 DEF AskUuid, Asking, Scanning
  <2>2. CASE Answered("unknown")
    BY <1>0, <2>2, AnsweredInv
  <2>3. ASSUME d.visible \in Uuid(query.handle), NEW call, GoesOn(call),
               call = IF k = "metax" THEN "health" ELSE "processes"
        PROVE  IndInv'
    <3>1. query.handle = Key(d)
      <4>1. PICK i \in Indices(k) : query.handle = <<k, at[k][i + 1]>>
        BY <2>1 DEF Handled, KeyAt
      <4>2. d.visible = query.handle[2]
        BY <1>1, <2>3, Sentinels DEF Uuid, Wrong, Device
      <4> QED
        BY <2>1, <4>1, <4>2 DEF Key
    <3>2. call = "processes" => Healthy(d)
      BY <2>1, <2>3 DEF Healthy, Checked, Movable
    <3>3. query' = [query EXCEPT !.call = call, !.handle = query.handle]
          /\ UNCHANGED <<world, backend, pc, inventory, books, n, read, probe, facts>>
      BY <1>1, <2>3 DEF GoesOn
    <3> QED
      BY <1>0, <2>1, <3>1, <3>2, <3>3, AsksInv DEF Handled
  <2> QED
    BY <1>3, <2>2, <2>3 DEF AskUuid
<1>4. CASE AskAvailability
  <2>1. d.kind = "metax" /\ query.call = "health" /\ Handled(d) /\ d.id \in Indices("metax")
    BY <1>1, <1>4 DEF AskAvailability, Asking, Scanning, Movable, On
  <2>2. ASSUME NEW reply, NEW s \in ReasonSettles(reply), Answered(s) PROVE IndInv'
    <3>1. s # "idle"
      BY <2>2 DEF ReasonSettles
    <3> QED
      BY <1>0, <2>2, <3>1, AnsweredInv
  <2>3. ASSUME NEW reply \in Condition(Place(d)), ReasonSettles(reply) = {}, GoesOn("processes")
        PROVE  IndInv'
    <3>1. reply = 0
      BY <2>3 DEF ReasonSettles
    <3>2. KeyAt("metax", d.id) \notin broken
      BY <2>1, <2>3, <3>1, ConditionIsTrue DEF Place
    <3>3. <<Place(d), KeyAt("metax", d.id)>> \in well
      BY <1>1, <2>1, <3>2, WellPlace DEF Place, Checked
    <3>4. Healthy(d)
      <4>1. d.kind \notin moved => KeyAt("metax", d.id) = Key(d)
        BY <2>1 DEF Handled
      <4>2. <<Place(d), KeyAt("metax", d.id)>>[1] = Place(d)
            /\ <<Place(d), KeyAt("metax", d.id)>>[2] = KeyAt("metax", d.id)
        OBVIOUS
      <4> QED
        BY <3>3, <4>1, <4>2 DEF Healthy
    <3>5. query' = [query EXCEPT !.call = "processes", !.handle = query.handle]
          /\ UNCHANGED <<world, backend, pc, inventory, books, n, read, probe, facts>>
      BY <1>1, <2>3 DEF GoesOn
    <3> QED
      BY <1>0, <2>1, <3>4, <3>5, AsksInv DEF Handled
  <2> QED
    BY <1>4, <2>2, <2>3 DEF AskAvailability
<1>5. ASSUME NEW k \in Movable, AskProcesses(k) PROVE IndInv'
  <2>1. /\ d.kind = k /\ query.call = "processes" /\ Healthy(d) /\ query.handle = Key(d)
        /\ \E i \in Indices(k) : Key(d) = KeyAt(k, i)
        /\ k \in ByUuid /\ k # "hcu"
    BY <1>1, <1>5 DEF AskProcesses, Asking, Scanning, Handled, Movable, ByUuid
  <2>2. PICK c \in Count(Key(d)), pid \in {1} \cup Wrong({0}) :
          /\ Concluded(IF k = "mthreads" THEN MthreadsOccupancy(c) ELSE ListedOccupancy(c, pid))
          /\ concealed' = IF k = "mthreads" /\ c = Unset /\ InUse(Key(d))
                          THEN concealed \cup {Key(d)} ELSE concealed
    BY <1>5, <2>1 DEF AskProcesses
  <2> DEFINE s == IF k = "mthreads" THEN MthreadsOccupancy(c) ELSE ListedOccupancy(c, pid)
  <2>3. s = "idle" => Justified(d, concealed')
    <3> SUFFICES ASSUME s = "idle" PROVE Name(d) \in free \cup concealed'
      BY <2>1 DEF Justified
    <3>1. CASE ~InUse(Key(d))
      BY <1>1, <2>1, <3>1, HandleFree
    <3>2. CASE InUse(Key(d))
      <4>1. k = "mthreads" /\ c = Unset
        BY <3>2, CountIdle
      <4> QED
        BY <2>1, <2>2, <3>2, <4>1 DEF Name
    <3> QED
      BY <3>1, <3>2
  <2>4. Concluded(s) /\ concealed \subseteq concealed'
    BY <2>2
  <2> HIDE DEF s
  <2> QED
    BY <1>0, <2>3, <2>4, ConcludedInv
<1> QED
  BY <1>2, <1>3, <1>4, <1>5

\* Ascend devices: the health, then the processes.
LEMMA ScanAscendInv ==
  ASSUME IndInv, AskHealth \/ AskOccupancy
  PROVE  IndInv'
<1> DEFINE d == devices[n]
<1>0. /\ pc = "scan" /\ n \in DOMAIN devices /\ d.kind = "ascend"
      /\ d.kind \notin Movable /\ d.kind \in Checked /\ d.kind \notin ByUuid
  BY DEF AskHealth, AskOccupancy, Asking, Scanning, Movable, Checked, ByUuid
<1>1. /\ Free \subseteq free /\ Well \subseteq well /\ d \in Device /\ On(d)
      /\ query = [call |-> query.call, handle |-> query.handle, count |-> query.count,
                  pids |-> query.pids, gpus |-> query.gpus]
      /\ query.call = "processes" => Healthy(d)
  BY <1>0, ScanKnows
<1>2. d.id \in Indices("ascend")
  BY <1>0, <1>1 DEF On
<1>3. ASSUME NEW result, Logged(result), result = "idle" => Justified(d, concealed)
      PROVE  IndInv'
  <2>1. /\ Concluded(IF result \in Failures THEN "unknown" ELSE result)
        /\ concealed' = concealed
    BY <1>3 DEF Logged
  <2> QED
    BY <1>0, <1>3, <2>1, ConcludedInv
<1>4. CASE AskHealth
  <2>1. CASE Logged("unavailable")
    BY <1>3, <2>1
  <2>2. ASSUME NEW reply, NEW s \in HealthSettles(reply), Logged(s) PROVE IndInv'
    <3>1. s # "idle"
      BY <2>2 DEF HealthSettles
    <3> QED
      BY <1>3, <2>2, <3>1
  <2>3. ASSUME NEW reply \in Condition(Place(d)), HealthSettles(reply) = {}, GoesOn("processes")
        PROVE  IndInv'
    <3>1. reply = 0
      BY <2>3 DEF HealthSettles
    <3>2. <<Place(d), KeyAt("ascend", d.id)>> \in well
      <4>1. KeyAt("ascend", d.id) \notin broken
        BY <1>0, <2>3, <3>1, ConditionIsTrue DEF Place
      <4> QED
        BY <1>0, <1>1, <1>2, <4>1, WellPlace DEF Place
    <3>3. Healthy(d)
      <4>1. <<Place(d), KeyAt("ascend", d.id)>>[1] = Place(d)
        OBVIOUS
      <4> QED
        BY <1>0, <3>2, <4>1 DEF Healthy
    <3>4. query' = [query EXCEPT !.call = "processes", !.handle = query.handle]
          /\ UNCHANGED <<world, backend, pc, inventory, books, n, read, probe, facts>>
      BY <1>1, <2>3 DEF GoesOn
    <3> QED
      BY <1>0, <3>3, <3>4, AsksInv
  <2> QED
    BY <1>4, <2>1, <2>2, <2>3 DEF AskHealth
<1>5. CASE AskOccupancy
  <2>1. PICK c \in Count(KeyAt("ascend", d.id)) :
          Logged(IF "api" \in drivers THEN ApiOccupancy(c) ELSE LegacyOccupancy(c))
    BY <1>5 DEF AskOccupancy
  <2> DEFINE result == IF "api" \in drivers THEN ApiOccupancy(c) ELSE LegacyOccupancy(c)
  <2>2. Healthy(d)
    BY <1>1, <1>5 DEF AskOccupancy, Asking
  <2>3. result = "idle" => Justified(d, concealed)
    <3> SUFFICES ASSUME result = "idle" PROVE Justified(d, concealed)
      OBVIOUS
    <3>1. ApiOccupancy(c) = "idle" \/ LegacyOccupancy(c) = "idle"
      OBVIOUS
    <3>2. Name(d) \in Free
      BY <1>0, <1>1, <3>1, AscendIdle
    <3> QED
      BY <1>0, <1>1, <2>2, <3>2 DEF Justified
  <2>4. Logged(result)
    BY <2>1
  <2> HIDE DEF result
  <2> QED
    BY <1>3, <2>3, <2>4
<1> QED
  BY <1>4, <1>5

-----------------------------------------------------------------------------
(***************************************************************************)
(* The theorem.                                                            *)
(***************************************************************************)
LEMMA NextInv == IndInv /\ [Next]_vars => IndInv'
<1> SUFFICES ASSUME IndInv, [Next]_vars PROVE IndInv'
  OBVIOUS
<1>1. CASE UNCHANGED vars
  <2>1. /\ UNCHANGED <<world, backend, pc, inventory, books, local, instants>>
        /\ UNCHANGED probe /\ concealed' = concealed
    BY <1>1 DEF vars, facts
  <2>2. /\ Probing' = Probing /\ pc' = pc
        /\ \A t : AppsTell(t)' = AppsTell(t)
        /\ \A f : HealthTells(f)' = HealthTells(f)
        /\ \A ds : Listing("nvidia", ds)' = Listing("nvidia", ds)
    BY <2>1 DEF world, inventory, instants, Probing, Discovering, Selected, Has, AppsTell,
      HealthTells, Listing, On, Indices, KeysDiffer
  <2>3. Asked'
    BY <2>1, <2>2 DEF IndInv, Asked
  <2> QED
    BY <2>1, <2>3, AloneInv
<1>2. CASE Next
  BY <1>2, HostInv, ProbeInv, DiscoverInv, CollectInv, BeginInv, ReadInv, EndRefreshInv,
     ScanReadInv, ScanLibraryInv, ScanAscendInv
     DEF Next, Daemon
<1> QED
  BY <1>1, <1>2

\* The invariant: the inventory names cards of the host, each utility runs for the caller that
\* started it, and what a refresh has read was true at some instant of it.
THEOREM Invariance == Spec => []IndInv
BY InitInv, NextInv, PTL DEF Spec

\* A device that a refresh (device/mod.rs:122) leaves idle was seen without any process, and healthy
\* where that can be known, at instants of this very refresh, for any number of cards and processes
\* and whatever calls fail, hang, or are interleaved with users, failures and driver resets; but for
\* what the code leaves open and IdleIsProven names.
THEOREM IdleDevicesAreProven == Spec => []IdleIsProven
BY Invariance, PTL DEF IndInv

-----------------------------------------------------------------------------
(***************************************************************************)
(* Whole vendors: a vendor's devices lie side by side, as many as it has   *)
(* cards, its library is loaded exactly when it has devices, and discovery *)
(* passes an explicit backend only with devices.                           *)
(***************************************************************************)
Taken(k) == {i \in DOMAIN devices : devices[i].kind = k}
LibraryOf(k) == IF k = "ascend" THEN {"api", "legacy"} ELSE {k}

Beside(k) == \E m \in Nat : Taken(k) = m + 1 .. m + Len(at[k])
Loads(k) == k # "nvidia" => (Taken(k) # {} <=> drivers \cap LibraryOf(k) # {})

Whole ==
  /\ \A k \in Kinds : (Taken(k) # {} => Beside(k)) /\ Loads(k)
  /\ pc # "gone" => \A t \in 1 .. turn - 1 : Priority[t] = backend => Taken(backend) # {}
  /\ pc \notin {"discover", "gone"} => turn = Len(Priority) + 1

LEMMA WholeInit == Init => Whole
<1> SUFFICES ASSUME Init PROVE Whole
  OBVIOUS
<1>1. devices = <<>> /\ drivers = {} /\ turn = 1 /\ pc = "discover"
  BY DEF Init
<1>2. \A k \in Kinds : Taken(k) = {}
  BY <1>1 DEF Taken
<1> QED
  BY <1>1, <1>2 DEF Whole, Loads

\* Steps after discovery, and those that leave the inventory alone.
LEMMA WholeKept ==
  ASSUME IndInv, Whole, UNCHANGED <<turn, devices, drivers, backend>>,
         \A k \in Kinds : Len(at'[k]) = Len(at[k]),
         pc' = pc \/ pc' = "gone" \/ (pc # "gone" /\ (pc = "discover" => turn = Len(Priority) + 1))
  PROVE  Whole'
<1>1. \A k : Taken(k)' = Taken(k) /\ Loads(k)' = Loads(k)
  BY DEF Taken, Loads
<1>2. \A k \in Kinds : Beside(k)' = Beside(k)
  BY <1>1 DEF Beside
<1> QED
  BY <1>1, <1>2 DEF Whole

\* The vendor whose turn it is has no devices yet.
LEMMA TurnIsNew ==
  ASSUME Inventoried, turn \in 1 .. 6
  PROVE  Taken(Priority[turn]) = {}
<1> SUFFICES ASSUME NEW i \in DOMAIN devices, devices[i].kind = Priority[turn] PROVE FALSE
  BY DEF Taken
<1>1. PICK t \in 1 .. turn - 1 : Priority[t] = devices[i].kind
  BY DEF Inventoried
<1>2. t \in 1 .. 6 /\ t # turn
  BY <1>1
<1> QED
  BY <1>1, <1>2, PriorityOnce

\* Its devices follow those that are there.
LEMMA WholeAppended ==
  ASSUME Inventoried, turn \in 1 .. 6, UNCHANGED at, NEW kind \in Kinds, Priority[turn] = kind,
         NEW ds, Listing(kind, ds), devices' = devices \o ds
  PROVE  /\ Beside(kind)' /\ Taken(kind)' # {}
         /\ \A k \in Kinds \ {kind} : Taken(k)' = Taken(k)
<1>1. devices \in Seq(Device) /\ ds \in Seq(Device) /\ Len(ds) = Len(at[kind]) /\ Len(ds) # 0
  BY DEF Inventoried, Listing
<1>2. /\ Len(devices) \in Nat /\ Len(ds) \in Nat /\ DOMAIN devices = 1 .. Len(devices)
      /\ DOMAIN devices' = 1 .. Len(devices) + Len(ds)
      /\ \A i \in 1 .. Len(devices) : devices'[i] = devices[i]
      /\ \A i \in Len(devices) + 1 .. Len(devices) + Len(ds) : devices'[i].kind = kind
  <2>0. devices' \in Seq(Device) /\ Len(devices') = Len(devices) + Len(ds)
    BY <1>1, ConcatProperties
  <2>1. \A i \in 1 .. Len(devices) + Len(ds) :
          devices'[i] = IF i <= Len(devices) THEN devices[i] ELSE ds[i - Len(devices)]
    BY <1>1, ConcatProperties
  <2>2. Len(devices) \in Nat /\ Len(ds) \in Nat
    BY <1>1, LenProperties
  <2>3. ASSUME NEW i \in Len(devices) + 1 .. Len(devices) + Len(ds)
        PROVE  devices'[i].kind = kind
    <3>1. i \in 1 .. Len(devices) + Len(ds) /\ ~(i <= Len(devices)) /\ i - Len(devices) \in 1 .. Len(ds)
      BY <2>2
    <3>2. i - Len(devices) \in DOMAIN ds
      BY <1>1, <3>1, LenProperties
    <3> QED
      BY <2>1, <3>1, <3>2 DEF Listing
  <2> QED
    BY <1>1, <2>0, <2>1, <2>2, <2>3, LenProperties
<1>3. \A i \in 1 .. Len(devices) : devices[i].kind # kind
  BY <1>2, TurnIsNew DEF Taken
<1>4. Taken(kind)' = Len(devices) + 1 .. Len(devices) + Len(at[kind])
  <2>1. ASSUME NEW i \in 1 .. Len(devices) + Len(ds)
        PROVE  devices'[i].kind = kind <=> i > Len(devices)
    <3>1. CASE i <= Len(devices)
      BY <1>2, <1>3, <3>1
    <3>2. CASE i > Len(devices)
      BY <1>2, <3>2
    <3> QED
      BY <1>2, <3>1, <3>2
  <2>2. Taken(kind)' = {i \in 1 .. Len(devices) + Len(ds) : i > Len(devices)}
    BY <1>2, <2>1 DEF Taken
  <2> QED
    BY <1>1, <1>2, <2>2
<1>5. Beside(kind)' /\ Taken(kind)' # {}
  <2>1. Len(devices) + 1 \in Taken(kind)'
    BY <1>1, <1>2, <1>4
  <2> QED
    BY <1>2, <1>4, <2>1 DEF Beside
<1>6. ASSUME NEW k \in Kinds \ {kind} PROVE Taken(k)' = Taken(k)
  <2>1. \A i \in DOMAIN devices' : devices'[i].kind = k => i \in DOMAIN devices
    BY <1>2
  <2> QED
    BY <1>2, <2>1 DEF Taken
<1> QED
  BY <1>5, <1>6

\* The end of one vendor's discovery: all of its devices and its library, neither (unless the
\* backend asks for it), or the end of the daemon.
LEMMA WholeDiscovered ==
  ASSUME IndInv, Whole, turn \in 1 .. 6, pc = "discover", UNCHANGED <<at, backend>>,
         NEW kind \in Kinds, Priority[turn] = kind,
         \/ pc' = "gone" /\ UNCHANGED <<turn, devices, drivers>>
         \/ pc' = pc /\ turn' = turn + 1 /\ backend # kind /\ UNCHANGED <<devices, drivers>>
         \/ /\ pc' = pc /\ turn' = turn + 1
            /\ \E ds : Listing(kind, ds) /\ devices' = devices \o ds
            /\ \E library \in SUBSET LibraryOf(kind) :
                 drivers' = drivers \cup library /\ (kind # "nvidia" => library # {})
  PROVE  Whole'
<1>0. Inventoried
  BY DEF IndInv
<1>1. CASE pc' = "gone" /\ UNCHANGED <<turn, devices, drivers>>
  BY <1>1, WholeKept
<1>2. CASE pc' = pc /\ turn' = turn + 1 /\ backend # kind /\ UNCHANGED <<devices, drivers>>
  <2>1. \A k : Taken(k)' = Taken(k) /\ Beside(k)' = Beside(k) /\ Loads(k)' = Loads(k)
    BY <1>2 DEF Taken, Beside, Loads
  <2>2. \A t \in 1 .. turn' - 1 : t \in 1 .. turn - 1 \/ t = turn
    BY <1>2
  <2> QED
    BY <1>2, <2>1, <2>2 DEF Whole
<1>3. ASSUME pc' = pc, turn' = turn + 1, NEW ds, Listing(kind, ds), devices' = devices \o ds,
             NEW library \in SUBSET LibraryOf(kind), drivers' = drivers \cup library,
             kind # "nvidia" => library # {}
      PROVE  Whole'
  <2>1. /\ Beside(kind)' /\ Taken(kind)' # {}
        /\ \A k \in Kinds \ {kind} : Taken(k)' = Taken(k)
    BY <1>0, <1>3, WholeAppended
  <2>2. \A k \in Kinds \ {kind} : library \cap LibraryOf(k) = {}
    BY DEF LibraryOf, Kinds
  <2>3. Loads(kind)'
    BY <1>3, <2>1 DEF Loads
  <2>4. ASSUME NEW k \in Kinds \ {kind} PROVE (Taken(k)' # {} => Beside(k)') /\ Loads(k)'
    <3>1. (Taken(k) # {} => Beside(k)) /\ Loads(k)
      BY DEF Whole
    <3>2. drivers' \cap LibraryOf(k) = drivers \cap LibraryOf(k)
      BY <1>3, <2>2
    <3> QED
      BY <2>1, <3>1, <3>2 DEF Beside, Loads
  <2>5. \A t \in 1 .. turn' - 1 : t \in 1 .. turn - 1 \/ t = turn
    BY <1>3
  <2>6. ASSUME NEW t \in 1 .. turn' - 1, Priority[t] = backend PROVE Taken(backend)' # {}
    <3>1. CASE backend = kind
      BY <2>1, <3>1
    <3>2. CASE backend # kind
      <4>1. t \in 1 .. turn - 1 /\ t \in 1 .. 6
        BY <2>5, <2>6, <3>2
      <4>2. backend \in Kinds /\ Taken(backend) # {}
        BY <2>6, <4>1, PriorityOnce DEF Whole
      <4> QED
        BY <2>1, <3>2, <4>2
    <3> QED
      BY <3>1, <3>2
  <2> QED
    BY <1>3, <2>1, <2>3, <2>4, <2>6 DEF Whole
<1> QED
  BY <1>1, <1>2, <1>3

LEMMA WholeNext ==
  ASSUME IndInv, Whole, [Next]_vars
  PROVE  Whole'
<1> USE DEF world, inventory, books
<1>0. /\ pc = "discover" => turn \in 1 .. 6 \/ turn = Len(Priority) + 1
      /\ at \in [Kinds -> Seq(Visible)]
  BY PriorityOnce DEF IndInv, Inventoried
<1>1. CASE Host
  BY <1>1, HostKeeps, WholeKept
<1>2. CASE UNCHANGED vars \/ Alone \/ Report
  BY <1>2, WholeKept DEF vars, Alone, Report
<1>3. CASE \/ Begin \/ NoUtility \/ EndRefresh \/ ScanNvidia \/ ScanHcu \/ AskHealth \/ AskOccupancy
           \/ AskAvailability \/ \E k \in Movable : TakeHandle(k) \/ AskUuid(k) \/ AskProcesses(k)
           \/ CountHcus \/ ListProcesses \/ (\E p \in query.pids : LookUp(p)) \/ LookedUp
  <2> USE DEF Begin, NoUtility, EndRefresh, ScanNvidia, ScanHcu, AskHealth, AskOccupancy,
        AskAvailability, TakeHandle, AskUuid, AskProcesses, CountHcus, ListProcesses, LookUp, LookedUp
  <2>1. UNCHANGED <<turn, devices, drivers, backend, at>>
    BY <1>3 DEF Concluded, Answered, GoesOn, Logged, HcuRead, HcuAsks
  <2>2. pc # "gone" /\ (pc = "discover" => turn > Len(Priority))
    BY <1>3 DEF Asking, Scanning
  <2>3. pc = "discover" => turn = Len(Priority) + 1
    BY <1>0, <2>2, PriorityOnce
  <2> QED
    BY <2>1, <2>2, <2>3, WholeKept
<1>4. CASE Skip
  <2>1. PICK k \in Kinds : Discovering(k) /\ ~Selected(k)
    BY <1>4 DEF Skip
  <2>2. turn \in 1 .. 6 /\ pc = "discover" /\ Priority[turn] = k /\ backend # k
    BY <2>1, PriorityOnce DEF Discovering, Selected
  <2>3. pc' = pc /\ turn' = turn + 1 /\ UNCHANGED <<at, backend, devices, drivers>>
    BY <1>4 DEF Skip
  <2> QED
    BY <2>2, <2>3, WholeDiscovered
<1>5. ASSUME NEW kind \in Kinds, Discovering(kind), UNCHANGED <<at, backend>>, NEW found, NEW library,
             IF found = {} /\ backend # "auto" THEN pc' = "gone" /\ UNCHANGED inventory
             ELSE /\ turn' = turn + 1 /\ UNCHANGED pc
                  /\ devices' = IF found = {} THEN devices ELSE devices \o (CHOOSE ds \in found : TRUE)
                  /\ drivers' = IF found = {} THEN drivers ELSE drivers \cup library,
             \A ds \in found : Listing(kind, ds),
             found # {} => library \subseteq LibraryOf(kind) /\ (kind # "nvidia" => library # {})
      PROVE  Whole'
  <2>1. turn \in 1 .. 6 /\ pc = "discover" /\ Priority[turn] = kind
    BY <1>5, PriorityOnce DEF Discovering
  <2>2. CASE found = {}
    <3>1. "auto" \notin Kinds
      BY DEF Kinds
    <3>2. \/ pc' = "gone" /\ UNCHANGED <<turn, devices, drivers>>
          \/ pc' = pc /\ turn' = turn + 1 /\ backend # kind /\ UNCHANGED <<devices, drivers>>
      BY <1>5, <2>2, <3>1
    <3> QED
      BY <1>5, <2>1, <3>2, WholeDiscovered
  <2>3. CASE found # {}
    <3>1. Listing(kind, CHOOSE ds \in found : TRUE)
      BY <1>5, <2>3
    <3>2. /\ pc' = pc /\ turn' = turn + 1
          /\ devices' = devices \o (CHOOSE ds \in found : TRUE) /\ drivers' = drivers \cup library
      BY <1>5, <2>3
    <3> QED
      BY <1>5, <2>1, <2>3, <3>1, <3>2, WholeDiscovered
  <2> QED
    BY <2>2, <2>3
<1>6. CASE DiscoverAscend
  <2>1. PICK r \in DcmiInventories :
          Discovered(IF DcmiLoad(r) = {"api"} THEN ApiDiscover(r)
                     ELSE IF DcmiLoad(r) = {"legacy"} THEN LegacyDiscover(r) ELSE {}, DcmiLoad(r))
    BY <1>6 DEF DiscoverAscend
  <2> DEFINE found == IF DcmiLoad(r) = {"api"} THEN ApiDiscover(r)
                      ELSE IF DcmiLoad(r) = {"legacy"} THEN LegacyDiscover(r) ELSE {}
  <2>2. \A ds \in found : Listing("ascend", ds)
    BY <1>0, AscendLists
  <2>3. found # {} => DcmiLoad(r) \subseteq LibraryOf("ascend") /\ DcmiLoad(r) # {}
    BY DEF LibraryOf
  <2>4. Discovered(found, DcmiLoad(r)) /\ Discovering("ascend") /\ "ascend" \in Kinds
    BY <1>6, <2>1 DEF DiscoverAscend, Kinds
  <2> HIDE DEF found
  <2> QED
    BY <1>5, <2>2, <2>3, <2>4 DEF Discovered
<1>7. ASSUME NEW k \in {"mthreads", "metax", "ppu", "hcu"}, DiscoverLibrary(k)
      PROVE  Whole'
  <2>1. PICK r \in Enumerations(k) : Discovered(Finds(k, r), {k})
    BY <1>7 DEF DiscoverLibrary
  <2>2. \A ds \in Finds(k, r) : Listing(k, ds)
    BY <1>0, LibraryLists
  <2>3. {k} \subseteq LibraryOf(k) /\ {k} # {} /\ k \in Kinds /\ Discovering(k)
    BY <1>7 DEF LibraryOf, Kinds, DiscoverLibrary
  <2> QED
    BY <1>5, <2>1, <2>2, <2>3 DEF Discovered
<1>8. ASSUME NEW output \in {probe.text, {}}, Probing, Return(output)
      PROVE  Whole'
  <2>1. CASE pc = "discover"
    <3> DEFINE found == IF output = {} THEN {} ELSE ParseNvidia(CHOOSE t \in output : TRUE)
    <3>1. Discovering("nvidia") /\ "nvidia" \in Kinds
      BY <1>8, <2>1 DEF Probing, Kinds
    <3>2. \A ds \in found : Listing("nvidia", ds)
      <4> SUFFICES ASSUME output # {}
                   PROVE  \A ds \in ParseNvidia(CHOOSE t \in output : TRUE) : Listing("nvidia", ds)
        OBVIOUS
      <4>1. (CHOOSE t \in output : TRUE) \in probe.text
        OBVIOUS
      <4> QED
        BY <2>1, <4>1 DEF IndInv, Asked
    <3>3. /\ UNCHANGED <<at, backend>>
          /\ IF found = {} /\ backend # "auto" THEN pc' = "gone" /\ UNCHANGED inventory
             ELSE /\ turn' = turn + 1 /\ UNCHANGED pc
                  /\ devices' = IF found = {} THEN devices ELSE devices \o (CHOOSE ds \in found : TRUE)
                  /\ drivers' = IF found = {} THEN drivers ELSE drivers \cup {}
      BY <1>8, <2>1 DEF Return
    <3>4. {} \subseteq LibraryOf("nvidia")
      OBVIOUS
    <3> HIDE DEF found
    <3> QED
      BY <1>5, <3>1, <3>2, <3>3, <3>4
  <2>2. CASE pc # "discover"
    <3>1. UNCHANGED <<turn, devices, drivers, backend, at>> /\ pc # "gone"
      BY <1>8, <2>2 DEF Return
    <3> QED
      BY <2>2, <3>1, WholeKept
  <2> QED
    BY <2>1, <2>2
<1>9. CASE Collect
  <2>1. Return(probe.text) /\ probe.stage # "off"
    BY <1>9 DEF Collect, Output, Join
  <2> QED
    BY <1>8, <2>1 DEF IndInv, Asked
<1>10. CASE SpawnFails
  BY <1>8, <1>10 DEF SpawnFails
<1>11. CASE Spawn \/ AwaitStep \/ Report \/ UtilityStep
  BY <1>2, <1>11 DEF Spawn, AwaitStep, UtilityStep
<1> QED
  BY <1>1, <1>2, <1>3, <1>4, <1>6, <1>7, <1>9, <1>10, <1>11 DEF Next, Daemon

\* A vendor's devices lie side by side, as many as it has cards, its library is loaded exactly when
\* it has devices, and discovery passes an explicit backend only with devices.
THEOREM VendorsAreWhole == Spec => []Whole
<1>1. IndInv /\ Whole /\ [Next]_vars => Whole'
  BY WholeNext
<1> QED
  BY <1>1, WholeInit, Invariance, PTL DEF Spec

LEMMA WholeCounts ==
  ASSUME IndInv, Whole
  PROVE  InventoryWhole
<1>1. ASSUME NEW k \in Kinds
      PROVE  LET keys == {Key(devices[i]) : i \in {j \in DOMAIN devices : devices[j].kind = k}}
             IN  /\ Cardinality(keys) \in {0, Len(at[k])}
                 /\ keys # {} <=> Taken(k) # {}
  <2> DEFINE keys == {Key(devices[i]) : i \in Taken(k)}
  <2>1. keys # {} <=> Taken(k) # {}
    OBVIOUS
  <2>0. keys = {Key(devices[i]) : i \in {j \in DOMAIN devices : devices[j].kind = k}}
    BY DEF Taken
  <2> HIDE DEF keys
  <2>2. CASE Taken(k) = {}
    <3>1. Cardinality(keys) = 0
      BY <2>1, <2>2, FS_EmptySet
    <3> QED
      BY <2>1, <2>0, <3>1
  <2>3. CASE Taken(k) # {}
    <3>1. PICK m \in Nat : Taken(k) = m + 1 .. m + Len(at[k])
      BY <2>3 DEF Whole, Beside
    <3>2. Len(at[k]) \in Nat
      BY DEF IndInv, Inventoried
    <3>3. IsFiniteSet(Taken(k)) /\ Cardinality(Taken(k)) = Len(at[k])
      <4>1. Len(at[k]) # 0
        BY <2>3, <3>1, <3>2
      <4>2. /\ m + 1 \in Int /\ m + Len(at[k]) \in Int
            /\ ~(m + 1 > m + Len(at[k])) /\ m + Len(at[k]) - (m + 1) + 1 = Len(at[k])
        BY <3>2, <4>1
      <4> QED
        BY <3>1, <4>2, FS_Interval
    <3> DEFINE f == [i \in Taken(k) |-> Key(devices[i])]
    <3>4. f \in Bijection(Taken(k), keys)
      <4>1. f \in [Taken(k) -> keys]
        BY DEF keys
      <4>2. \A i, j \in Taken(k) : f[i] = f[j] => i = j
        BY DEF IndInv, Inventoried, KeysDiffer, Taken
      <4>3. \A key \in keys : \E i \in Taken(k) : f[i] = key
        BY DEF keys
      <4> HIDE DEF f
      <4> QED
        BY <4>1, <4>2, <4>3, Fun_IsBij
    <3> HIDE DEF f
    <3>5. ExistsBijection(Taken(k), keys)
      BY <3>4 DEF ExistsBijection
    <3>6. Cardinality(keys) = Len(at[k])
      BY <3>3, <3>5, FS_Bijection
    <3> QED
      BY <2>1, <2>0, <3>6
  <2> QED
    BY <2>2, <2>3
<1>2. pc = "serve" /\ backend \in Kinds => devices # <<>>
  <2> SUFFICES ASSUME pc = "serve", backend \in Kinds PROVE devices # <<>>
    OBVIOUS
  <2>1. turn - 1 = 6
    BY PriorityOnce DEF Whole
  <2>2. \E t \in 1 .. 6 : Priority[t] = backend
    BY DEF Priority, Kinds
  <2>3. Taken(backend) # {}
    BY <2>1, <2>2 DEF Whole
  <2> QED
    BY <2>3 DEF Taken
<1>3. \A k \in Kinds : Loads(k)
  BY DEF Whole
<1> QED
  BY <1>1, <1>2, <1>3 DEF InventoryWhole, Loads, LibraryOf

\* Discovery (device/mod.rs:72-116) takes all cards of a vendor or none and lists no card twice,
\* keeps a library exactly with its devices, and serves an explicit backend only with devices, for
\* any number of cards and whatever the libraries and nvidia-smi answer.
THEOREM InventoriesAreWhole == Spec => []InventoryWhole
<1>1. IndInv /\ Whole => InventoryWhole
  BY WholeCounts
<1> QED
  BY <1>1, Invariance, VendorsAreWhole, PTL
=============================================================================
