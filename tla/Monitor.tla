------------------------------- MODULE Monitor -------------------------------
(***************************************************************************)
(* Inventory of device/mod.rs: discovery at startup and the refresh that   *)
(* decides which devices look idle, on a host whose cards are used,        *)
(* break, recover and change places while the daemon looks.                *)
(*                                                                         *)
(* Every call of a library is a step, and so is every step of a utility    *)
(* (Probe).  Libraries and utilities answer truly, except while something  *)
(* is faulty; then any call may fail, leave its buffer untouched, or       *)
(* answer with more than fits or what cannot be read, and nvidia-smi may   *)
(* print less than there is.  A handle keeps naming the card that had the  *)
(* index when it was taken.                                                *)
(***************************************************************************)
EXTENDS Drivers, Probe

CONSTANTS
    Setups,     \* hosts and --backend: [at |-> each kind's cards in index order, backend |-> ...]
    Shared,     \* the cards that others use without asking: pairs of a process and a card
    Fragile,    \* the cards that may break
    Silent      \* the kinds whose library may succeed without writing a process count

ASSUME MonitorAssumption ==
    /\ \A s \in Setups : s.at \in [Kinds -> Seq(Visible)]
    /\ Shared \subseteq (Nat \ {0}) \X (Kinds \X Visible)

VARIABLES
    at,         \* at[k][i + 1] identifies the card at index i
    used,       \* pairs of a compute process and a card it uses
    broken,     \* cards that are not healthy
    faulty,     \* whether calls may go wrong
    backend,
    pc,         \* where discover or refresh is; "serve" between two refreshes
    turn,       \* the place in Priority that discover has reached
    devices, drivers,           \* the inventory and the loaded libraries
    status, errors,             \* status and monitoring_errors
    n, apps, busy, health,      \* refresh's place in devices and what it has read
    query,                      \* the local variables of the library calls
    free, well, apart,          \* observation: Free, Well, Apart of some instant of this refresh
    moved,                      \* observation: kinds whose cards changed places during it
    concealed                   \* observation: cards in use that a successful call left out

world == <<at, used, broken, faulty>>
read == <<apps, busy, health>>
local == <<n, read, query>>
books == <<status, errors>>
inventory == <<turn, devices, drivers>>
instants == <<free, well, apart, moved>>
facts == <<instants, concealed>>
vars == <<world, backend, pc, inventory, books, local, probe, facts>>

AllKeys == Kinds \X Visible
Indices(k) == 0 .. Len(at[k]) - 1
KeyAt(k, i) == <<k, at[k][i + 1]>>
Has(k) == \E i \in DOMAIN devices : devices[i].kind = k

\* The kinds that tell whether a card is healthy, and those whose query names the card itself
\* or checks the identity of what it found at the index.  The others name an index only.
Checked == {"ascend", "metax", "hcu"}
ByUuid == {"nvidia", "mthreads", "metax", "ppu"}
Movable == {"mthreads", "metax", "ppu"}

Places == UNION {{k} \X Indices(k) : k \in Kinds}
Cards == {KeyAt(p[1], p[2]) : p \in Places}

Pid == {s[1] : s \in Shared}
InUse(key) == \E p \in Pid : <<p, key>> \in used

\* What a device is recognised by, and what is found at a place now.
Place(d) == <<d.kind, d.id>>
Name(d) == IF d.kind \in ByUuid THEN Key(d) ELSE Place(d)
NameAt(p) == IF p[1] \in ByUuid THEN KeyAt(p[1], p[2]) ELSE p

\* Cards without a process, healthy cards at their places, and HCUs that a process does not use.
Free == {NameAt(p) : p \in {q \in Places : q[1] # "hcu" /\ ~InUse(KeyAt(q[1], q[2]))}}
Well == {<<p, KeyAt(p[1], p[2])>> :
            p \in {q \in Places : q[1] \in Checked /\ KeyAt(q[1], q[2]) \notin broken}}
Apart == {x \in Pid \X ({"hcu"} \X Indices("hcu")) : <<x[1], KeyAt("hcu", x[2][2])>> \notin used}

Refreshing == pc \in {"apps", "busy", "list", "lookup", "health", "scan"}

\* call: the call to make next, when it is not the first; handle: the card it names; count, pids,
\* gpus: of the HCU library, the processes left to look up and the devices of the others.
NoQuery == [call |-> "first", handle |-> <<>>, count |-> 0, pids |-> {}, gpus |-> {}]

Init ==
    /\ \E s \in Setups : at = s.at /\ backend = s.backend
    /\ used = {} /\ broken = {} /\ faulty \in BOOLEAN
    /\ pc = "discover" /\ turn = 1
    /\ devices = <<>> /\ drivers = {}
    /\ status = [key \in AllKeys |-> "none"]
    /\ errors = [key \in AllKeys |-> "none"]
    /\ n = 1 /\ apps = {} /\ busy = {} /\ health = {} /\ query = NoQuery
    /\ free = {} /\ well = {} /\ apart = {} /\ moved = {} /\ concealed = {}
    /\ probe = NoProbe

-----------------------------------------------------------------------------
(* The host.  Discovery reads neither use nor health, so both change only afterwards. *)

HostStep ==
    /\ IF Refreshing
       THEN /\ free' = free \cup Free' /\ well' = well \cup Well' /\ apart' = apart \cup Apart'
            /\ moved' = moved \cup {k \in Movable : at'[k] # at[k]}
       ELSE UNCHANGED instants
    /\ UNCHANGED <<backend, pc, inventory, books, local, probe, concealed>>

Use(s) == s \in Shared \ used /\ used' = used \cup {s} /\ UNCHANGED <<at, broken, faulty>>
Leave(s) == s \in used /\ used' = used \ {s} /\ UNCHANGED <<at, broken, faulty>>
Break(key) ==
    /\ key[1] \in Checked /\ key \in Fragile \ broken
    /\ broken' = broken \cup {key} /\ UNCHANGED <<at, used, faulty>>
Repair(key) == key \in broken /\ broken' = broken \ {key} /\ UNCHANGED <<at, used, faulty>>

\* A driver reset gives two cards each other's index.
Reset(k) ==
    /\ \E i, j \in DOMAIN at[k] :
        i < j /\ at' = [at EXCEPT ![k] = [@ EXCEPT ![i] = at[k][j], ![j] = at[k][i]]]
    /\ UNCHANGED <<used, broken, faulty>>

Fault == faulty' = ~faulty /\ UNCHANGED <<at, used, broken>>

Host ==
    /\ \/ Fault
       \/ /\ pc # "discover"
          /\ \/ \E key \in Cards : Break(key) \/ Repair(key)
             \/ \E p \in Pid, key \in Cards : Use(<<p, key>>) \/ Leave(<<p, key>>)
             \/ \E k \in Movable : Reset(k)
    /\ HostStep

-----------------------------------------------------------------------------
(* What libraries and utilities may answer. *)

Wrong(S) == IF faulty THEN S ELSE {}

Loaded == [found |-> TRUE, symbols |-> TRUE, init |-> 0]

Library(k) ==
    IF at[k] = <<>> THEN {[Loaded EXCEPT !.found = FALSE]}
    ELSE {Loaded} \cup Wrong({[Loaded EXCEPT !.found = FALSE], [Loaded EXCEPT !.symbols = FALSE],
                              [Loaded EXCEPT !.init = Error]})

(* A driver asked to enumerate; a faulty one may report the first card twice. *)

Counts(k) == {Len(at[k])} \cup Wrong({Error, Unset, MaxDevices + 1})

Identities(k) ==
    {[i \in Indices(k) |-> at[k][i + 1]]}
    \cup Wrong({[i \in Indices(k) |-> x] :
            x \in {Error, Garbled} \cup {at[k][j] : j \in {1} \cap DOMAIN at[k]}})

Enumerations(k) ==
    {[found |-> l.found, symbols |-> l.symbols, init |-> l.init, count |-> c, uuid |-> u] :
        l \in Library(k), c \in Counts(k), u \in Identities(k)}

Lists(k) == {s \in [DOMAIN at[k] -> Indices(k)] : \A i, j \in DOMAIN s : s[i] = s[j] => i = j}

\* Card numbers of the legacy API, which does not check them, are not negative.
DcmiInventories ==
    LET all == DOMAIN at["ascend"]
        same(S) == {[p \in all |-> x] : x \in S}
    IN  {r \in [override: BOOLEAN, v2: Library("ascend"), v1: Library("ascend"),
                 count: {Len(at["ascend"])} \cup Wrong({Error, MaxDevices + 1}),
                 ids: Lists("ascend") \cup Wrong(same({0, -1})),
                 chips: same({2} \cup Wrong({0, Error})),
                 chip: same({"name"} \cup Wrong({Garbled}))] :
            DcmiLoad(r) = {"legacy"} => \A p \in all : r.ids[p] >= 0}

(* A driver asked for the status of a card, or of a place. *)

Count(key) == {IF InUse(key) THEN 1 ELSE 0}
              \cup Wrong({Error, Room + 1} \cup (IF key[1] \in Silent THEN {Unset} ELSE {}))

Uuid(key) == {key[2]} \cup Wrong({Error, Garbled})

Condition(p) == {IF KeyAt(p[1], p[2]) \in broken THEN 1 ELSE 0}
                \cup Wrong({Error, Unset} \cup (IF p[1] = "metax" THEN {-1} ELSE {}))

(* The HCU library.  A process that has left every device cannot be looked up. *)

HcuCounts == {Len(at["hcu"])} \cup Wrong({Error, Unset, MaxDevices + 1})

Gpus(pid) == {i \in Indices("hcu") : <<pid, KeyAt("hcu", i)>> \in used}

ProcessLists ==
    LET users == {p \in Pid : Gpus(p) # {}}
    IN  {users} \cup Wrong({Error, Unset, users \cup {0}})

Lookups(pid) ==
    (IF Gpus(pid) = {} THEN {Error, {}} ELSE {Gpus(pid)})
    \cup Wrong({Error, Unset, {}, {MaxDevices}})

InventoryLines ==
    LET lines == [i \in DOMAIN at["nvidia"] |-> [id |-> i - 1, uuid |-> at["nvidia"][i]]]
    IN  {lines} \cup Wrong({<<[id |-> Garbled, uuid |-> Garbled]>>, lines \o lines, <<>>})

\* The cards that a compute process uses, one line for each process and card.
AppUuids == {at["nvidia"][i + 1] : i \in {x \in Indices("nvidia") : InUse(KeyAt("nvidia", x))}}

AppLines == {AppUuids} \cup Wrong({AppUuids \cup {Garbled}} \cup SUBSET AppUuids)

HealthLines ==
    LET line(i) == [card |-> TRUE, id |-> i - 1,
                    word |-> IF KeyAt("hcu", i - 1) \in broken THEN "critical" ELSE "healthy"]
        lines == [i \in DOMAIN at["hcu"] |-> line(i)]
    IN  {lines} \cup Wrong({<<>>, SubSeq(lines, 1, 1), <<[card |-> FALSE]>>}
                     \cup {[lines EXCEPT ![1].word = ""], [lines EXCEPT ![1].id = Garbled]})

-----------------------------------------------------------------------------
(* Discovery *)

Selected(k) == backend \in {"auto", k}
Discovering(k) == pc = "discover" /\ turn \in DOMAIN Priority /\ Priority[turn] = k

Skip ==
    /\ \E k \in Kinds : Discovering(k) /\ ~Selected(k)
    /\ turn' = turn + 1
    /\ UNCHANGED <<world, backend, pc, devices, drivers, books, local, probe, facts>>

\* found: the vendor's devices, unless its discovery failed; library: what was loaded.
Discovered(found, library) ==
    /\ IF found = {} /\ backend # "auto"
       THEN pc' = "gone" /\ UNCHANGED inventory
       ELSE /\ turn' = turn + 1 /\ UNCHANGED pc
            /\ devices' = IF found = {} THEN devices ELSE devices \o (CHOOSE ds \in found : TRUE)
            /\ drivers' = IF found = {} THEN drivers ELSE drivers \cup library
    /\ UNCHANGED <<world, backend, books, local, probe, facts>>

DiscoverAscend ==
    /\ Discovering("ascend") /\ Selected("ascend")
    /\ \E r \in DcmiInventories :
        LET api == DcmiLoad(r)
        IN  Discovered(IF api = {"api"} THEN ApiDiscover(r)
                       ELSE IF api = {"legacy"} THEN LegacyDiscover(r) ELSE {}, api)

Finds(k, r) ==
    CASE k = "mthreads" -> MthreadsDiscover(r)
      [] k = "metax" -> MetaxDiscover(r)
      [] k = "ppu" -> PpuDiscover(r)
      [] k = "hcu" -> HcuDiscover(r)

DiscoverLibrary(k) ==
    /\ Discovering(k) /\ Selected(k)
    /\ \E r \in Enumerations(k) : Discovered(Finds(k, r), {k})

-----------------------------------------------------------------------------
(* Refresh, first when discovery ends and then every two seconds.  The serving daemon does     *)
(* nothing else meanwhile.                                                                     *)

Begin ==
    /\ pc = "serve" \/ (pc = "discover" /\ turn > Len(Priority))
    /\ pc' = "apps" /\ free' = Free /\ well' = Well /\ apart' = Apart
    /\ UNCHANGED <<world, backend, inventory, books, local, probe, moved, concealed>>

\* A vendor that is not there is not asked.
NoUtility ==
    /\ \/ pc = "apps" /\ ~Has("nvidia") /\ pc' = "busy"
       \/ pc = "busy" /\ ~Has("hcu") /\ pc' = "scan"
    /\ UNCHANGED <<world, backend, inventory, books, local, probe, facts>>

(* busy_devices: which HCUs are in use, one call after another. *)

\* result: the HCUs that some process uses, unless a call failed.
HcuRead(result) ==
    /\ pc' = "health" /\ busy' = result /\ query' = NoQuery
    /\ UNCHANGED <<world, backend, inventory, books, n, apps, health, probe, facts>>

HcuAsks(next) ==
    /\ pc' = next
    /\ UNCHANGED <<world, backend, inventory, books, n, read, probe, facts>>

CountHcus ==
    /\ pc = "busy" /\ Has("hcu")
    /\ IF "hcu" \notin drivers THEN HcuRead({})
       ELSE \E reply \in HcuCounts :
            \/ HcuCount(reply) = {} /\ HcuRead({})
            \/ \E c \in HcuCount(reply) : query' = [NoQuery EXCEPT !.count = c] /\ HcuAsks("list")

ListProcesses ==
    /\ pc = "list"
    /\ \E reply \in ProcessLists :
        \/ HcuProcesses(reply) = {} /\ HcuRead({})
        \/ \E listed \in HcuProcesses(reply) :
            query' = [query EXCEPT !.pids = listed] /\ HcuAsks("lookup")

\* The devices of one process of the list, whose order is free.
LookUp(p) ==
    /\ pc = "lookup" /\ p \in query.pids
    /\ \E reply \in Lookups(p) :
        LET found == HcuGpus(p, reply, query.count)
        IN  \/ found = {} /\ HcuRead({})
            \/ \E gpus \in found :
                /\ query' = [query EXCEPT !.pids = @ \ {p}, !.gpus = @ \cup gpus]
                /\ HcuAsks("lookup")

LookedUp == pc = "lookup" /\ query.pids = {} /\ HcuRead({query.gpus})

EndRefresh ==
    /\ pc = "scan" /\ n > Len(devices) /\ pc' = "serve"
    /\ n' = 1 /\ apps' = {} /\ busy' = {} /\ health' = {}
    /\ free' = {} /\ well' = {} /\ apart' = {} /\ moved' = {} /\ concealed' = {}
    /\ UNCHANGED <<world, backend, inventory, books, query, probe>>

(* The devices one by one: from what was read, or by asking their library now. *)

Scanning(k) == pc = "scan" /\ n \in DOMAIN devices /\ devices[n].kind = k
Asking(k, call) == Scanning(k) /\ query.call = call

Concluded(s) ==
    /\ status' = [status EXCEPT ![Key(devices[n])] = s]
    /\ n' = n + 1 /\ query' = NoQuery
    /\ UNCHANGED <<world, backend, pc, inventory, read, probe, instants>>

GoesOn(call) ==
    /\ query' = [query EXCEPT !.call = call]
    /\ UNCHANGED <<world, backend, pc, inventory, books, n, read, probe, facts>>

Answered(s) == Concluded(s) /\ UNCHANGED <<errors, concealed>>

ScanNvidia == Asking("nvidia", "first") /\ Answered(NvidiaStatus(devices[n], apps))

ScanHcu == Asking("hcu", "first") /\ Answered(HcuStatus(devices[n], busy, health))

\* The card that is at the device's index now, unless the library was not loaded or gives none.
TakeHandle(k) ==
    /\ Asking(k, "first")
    /\ \/ /\ k \in drivers
          /\ query' = [query EXCEPT !.call = "uuid", !.handle = KeyAt(k, devices[n].id)]
          /\ UNCHANGED <<world, backend, pc, inventory, books, n, read, probe, facts>>
       \/ (k \notin drivers \/ faulty) /\ Answered("unknown")

\* "Fail closed if an index now names another device after a driver reset."
AskUuid(k) ==
    /\ Asking(k, "uuid")
    /\ \E uuid \in Uuid(query.handle) :
        IF uuid # devices[n].visible THEN Answered("unknown")
        ELSE GoesOn(IF k = "metax" THEN "health" ELSE "processes")

\* MetaX's availability is asked by index, not by handle.
AskAvailability ==
    /\ Asking("metax", "health")
    /\ \E reply \in Condition(Place(devices[n])) :
        \/ ReasonSettles(reply) = {} /\ GoesOn("processes")
        \/ \E s \in ReasonSettles(reply) : Answered(s)

AskProcesses(k) ==
    /\ Asking(k, "processes")
    /\ \E count \in Count(query.handle), pid \in {1} \cup Wrong({0}) :
        /\ Concluded(IF k = "mthreads" THEN MthreadsOccupancy(count)
                     ELSE ListedOccupancy(count, pid))
        /\ concealed' = IF k = "mthreads" /\ count = Unset /\ InUse(query.handle)
                        THEN concealed \cup {query.handle} ELSE concealed
    /\ UNCHANGED errors

\* A failed query is remembered (and logged when it is new), a successful one forgets it.
Logged(result) ==
    LET failed == result \in Failures
    IN  /\ Concluded(IF failed THEN "unknown" ELSE result)
        /\ errors' = [errors EXCEPT ![Key(devices[n])] = IF failed THEN result ELSE "none"]
        /\ UNCHANGED concealed

\* Mutant of AskHealth: a device with a remembered error is not asked again.
Mut_GivesUp ==
    /\ Asking("ascend", "first")
    /\ \E reply \in Condition(Place(devices[n])) :
        \/ errors[Key(devices[n])] # "none" /\ Logged(errors[Key(devices[n])])
        \/ errors[Key(devices[n])] = "none" /\ HealthSettles(reply) = {} /\ GoesOn("processes")
        \/ errors[Key(devices[n])] = "none" /\ \E s \in HealthSettles(reply) : Logged(s)

AskHealth ==
    /\ Asking("ascend", "first")
    /\ IF drivers \cap {"api", "legacy"} = {} THEN Logged("unavailable")
       ELSE \E reply \in Condition(Place(devices[n])) :
            \/ HealthSettles(reply) = {} /\ GoesOn("processes")
            \/ \E s \in HealthSettles(reply) : Logged(s)

AskOccupancy ==
    /\ Asking("ascend", "processes")
    /\ \E reply \in Count(KeyAt("ascend", devices[n].id)) :
        Logged(IF "api" \in drivers THEN ApiOccupancy(reply) ELSE LegacyOccupancy(reply))

-----------------------------------------------------------------------------
(* The utilities: nvidia-smi for the inventory and for the processes, hy-smi for health. *)

Probing ==
    \/ Discovering("nvidia") /\ Selected("nvidia")
    \/ pc = "apps" /\ Has("nvidia")
    \/ pc = "health" /\ Has("hcu")

Alone == UNCHANGED <<world, backend, pc, inventory, books, local, facts>>

Spawn == Probing /\ Launch /\ Alone

Report ==
    /\ Probing
    /\ \E t \in (IF pc = "discover" THEN InventoryLines
                 ELSE IF pc = "apps" THEN AppLines ELSE HealthLines) :
        /\ Write(t)
        /\ concealed' = IF pc = "apps" THEN concealed \cup ({"nvidia"} \X (AppUuids \ t))
                        ELSE concealed
    /\ UNCHANGED <<world, backend, pc, inventory, books, local, instants>>

UtilityStep == Utility /\ Alone
AwaitStep == Await /\ Alone

\* What the caller of output does with its result.
Return(output) ==
    \/ /\ pc = "discover"
       /\ LET found == IF output = {} THEN {} ELSE ParseNvidia(CHOOSE t \in output : TRUE)
          IN  IF found = {} /\ backend # "auto"
              THEN pc' = "gone" /\ UNCHANGED inventory
              ELSE /\ turn' = turn + 1 /\ UNCHANGED <<pc, drivers>>
                   /\ devices' = IF found = {} THEN devices
                                 ELSE devices \o (CHOOSE ds \in found : TRUE)
       /\ UNCHANGED <<world, backend, books, local, facts>>
    \/ /\ pc = "apps" /\ apps' = output /\ pc' = "busy"
       /\ UNCHANGED <<world, backend, inventory, books, n, busy, health, query, facts>>
    \/ /\ pc = "health" /\ pc' = "scan"
       /\ health' = IF output = {} THEN {} ELSE HealthStatus(CHOOSE t \in output : TRUE)
       /\ UNCHANGED <<world, backend, inventory, books, n, apps, busy, query, facts>>

Collect == Return(Output) /\ Join

\* The program is not there, or cannot be started.
SpawnFails ==
    /\ Probing /\ probe.stage = "off"
    /\ faulty \/ (pc = "discover" /\ at["nvidia"] = <<>>)
    /\ Return({}) /\ UNCHANGED probe

-----------------------------------------------------------------------------
Daemon ==
    \/ Skip \/ DiscoverAscend
    \/ \E k \in {"mthreads", "metax", "ppu", "hcu"} : DiscoverLibrary(k)
    \/ Begin \/ NoUtility \/ EndRefresh
    \/ CountHcus \/ ListProcesses \/ (\E p \in query.pids : LookUp(p)) \/ LookedUp
    \/ ScanNvidia \/ ScanHcu \/ AskHealth \/ AskOccupancy \/ AskAvailability
    \/ \E k \in Movable : TakeHandle(k) \/ AskUuid(k) \/ AskProcesses(k)
    \/ Spawn \/ Collect \/ SpawnFails \/ AwaitStep

Next == Host \/ Daemon \/ Report \/ UtilityStep

Spec == Init /\ [][Next]_vars

\* The daemon is scheduled; nothing is assumed of utilities or of the host.
FairSpec == Spec /\ WF_vars(Daemon)

-----------------------------------------------------------------------------
(* Properties *)

\* No process was seen to use the device all along, or some call that succeeded left it out.
Unused(d) ==
    IF d.kind = "hcu" THEN \A p \in Pid : <<p, Place(d)>> \in apart
    ELSE Name(d) \in free \cup concealed

\* Its place had a healthy card, and it was this one unless cards of its kind changed places.
Healthy(d) ==
    d.kind \in Checked =>
        \E w \in well : w[1] = Place(d) /\ (d.kind \in ByUuid \ moved => w[2] = Key(d))

\* "Failed monitoring is unknown/busy, never permission to allocate" (device/mod.rs:122): a
\* device that a refresh leaves idle was free, and healthy where that can be known, at some
\* instants of this very refresh, whatever failed, was cut short, was read for another refresh
\* or was asked by an index that names another card meanwhile.  The code leaves three things
\* open, and the property with it: processes may hand an HCU to each other between the calls
\* that list and look them up, so that each was off it but it was never free; the
\* availability of a MetaX card may be another card's if a reset comes between the check of
\* its UUID and that call; and a successful nvidia-smi that prints too little, or MTML
\* without writing its count, is believed.
IdleIsProven ==
    pc = "scan" =>
        \A i \in 1 .. n - 1 :
            status[Key(devices[i])] = "idle" => Unused(devices[i]) /\ Healthy(devices[i])

\* Discovery takes all cards of a vendor or none (device/mod.rs:72-116): a driver that fails
\* half way leaves no device and is not kept, no card is listed twice, and an explicit backend
\* that is not there prevents serving.
InventoryWhole ==
    /\ \A k \in Kinds :
        LET keys == {Key(devices[i]) : i \in {j \in DOMAIN devices : devices[j].kind = k}}
            library == IF k = "ascend" THEN {"api", "legacy"} ELSE {k}
        IN  /\ Cardinality(keys) \in {0, Len(at[k])}
            /\ k # "nvidia" => (keys # {} <=> drivers \cap library # {})
    /\ pc = "serve" /\ backend \in Kinds => devices # <<>>

\* Device i can be allocated and nothing keeps the daemon from seeing it.  A process that ends
\* between its listing and its lookup hides every HCU, so that none must be used at all.
Ready(i) ==
    i \in DOMAIN devices =>
        LET d == devices[i]
        IN  /\ ~faulty /\ ~InUse(Key(d)) /\ Key(d) \notin broken
            /\ d.kind = "hcu" => \A p \in Pid : Gpus(p) = {}
            /\ d.kind \in Movable => KeyAt(d.kind, d.id) = Key(d)
            /\ probe.verdict \notin {"failed", "timeout"} /\ probe.leader # "stuck" /\ ~probe.stray

\* Allocation resumes (README.md:170): a device that stays free and healthy, on a host where
\* nothing fails any more, is idle for good from some time on, whatever happened before.
Recovers ==
    \A i \in {1, 2} :
        <>[]Ready(i) => <>[](i \in DOMAIN devices => status[Key(devices[i])] = "idle")

\* "Driver utilities must not be able to hang the scheduler indefinitely" (device/mod.rs:279),
\* "Driver command calls wait at most three seconds" (README.md:161).
ProbeEnds == probe.stage # "off" ~> probe.stage = "off"

=============================================================================
