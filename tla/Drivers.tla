------------------------------- MODULE Drivers -------------------------------
(***************************************************************************)
(* The vendor drivers of device/*.rs: what discovery and a status query    *)
(* conclude from the replies of the vendor's library or utility.           *)
(*                                                                         *)
(* A reply is what one call leaves behind: a value, Error (a code other    *)
(* than 0, or a null handle), Unset (success, but the caller's buffer is   *)
(* untouched), or Garbled (text the driver refuses: empty, unterminated,   *)
(* not UTF-8, without the vendor's prefix).  An Option or a Result without *)
(* its message is a set with at most one member.                           *)
(***************************************************************************)
EXTENDS Integers, Sequences, FiniteSets

CONSTANTS
    Error, Unset, Garbled,  \* replies that are no value
    Visible,                \* vendor identifiers of cards
    MaxDevices,             \* entries of the device lists (64)
    Room,                   \* entries of the process lists (64 for DCMI, otherwise 4096)
    Decimal                 \* Decimal[id] is the identifier id.to_string()

ASSUME DriverAssumption ==
    /\ MaxDevices \in Nat \ {0} /\ Room \in Nat \ {0}
    /\ {Error, Unset, Garbled} \cap (Int \cup Visible) = {}
    /\ Error # Unset
    /\ Decimal \in [0 .. MaxDevices -> Visible]

Priority == <<"nvidia", "ascend", "mthreads", "metax", "ppu", "hcu">>
Kinds == {"nvidia", "ascend", "mthreads", "metax", "ppu", "hcu"}

Device == [kind: Kinds, id: Int, visible: Visible]

\* What allocation, status and errors are filed under.
Key(d) == <<d.kind, d.visible>>

\* The caller's variable after a call, when it held init before.
After(reply, init) == IF reply = Unset THEN init ELSE reply

Occupancy(count) == IF count = 0 THEN "idle" ELSE "busy"

-----------------------------------------------------------------------------
(* Discovery *)

\* Mutant: a card that is listed twice becomes two devices.
Mut_Repeats(ds) == IF ds # <<>> THEN {ds} ELSE {}

Validate(ds) ==
    IF ds # <<>> /\ \A i, j \in DOMAIN ds : Key(ds[i]) = Key(ds[j]) => i = j
    THEN {ds} ELSE {}

\* One of the candidate paths opens (only the override's, when it is set), every symbol is
\* there, and the library's own initialisation succeeds.
Load(r) == r.found /\ r.symbols /\ r.init # Error

\* Devices 0 .. count - 1, each with an identifier and a name.
Enumerate(k, r) ==
    LET count == After(r.count, 0)
    IN  IF \/ r.count = Error
           \/ count \notin 1 .. MaxDevices
           \/ \E id \in 0 .. count - 1 : r.uuid[id] \in {Error, Garbled}
        THEN {}
        ELSE Validate([i \in 1 .. count |-> [kind |-> k, id |-> i - 1, visible |-> r.uuid[i - 1]]])

MthreadsDiscover(r) == IF Load(r) THEN Enumerate("mthreads", r) ELSE {}
MetaxDiscover(r) == IF Load(r) THEN Enumerate("metax", r) ELSE {}
PpuDiscover(r) == IF Load(r) THEN Enumerate("ppu", r) ELSE {}
HcuDiscover(r) == IF Load(r) THEN Enumerate("hcu", r) ELSE {}

\* r.v2: the library named by the override, when there is one.  The dcmi_* API knows none.
ApiLoad(r) == Load(r.v2)
LegacyLoad(r) == ~r.override /\ Load(r.v1)

\* DCMI v2, or else the dcmi_* API.
DcmiLoad(r) ==
    IF ApiLoad(r) THEN {"api"} ELSE IF LegacyLoad(r) THEN {"legacy"} ELSE {}

\* DCMI names its devices itself: r.ids is a list of r.count logical IDs (v2) or cards (v1).
DcmiDevices(r, order) ==
    [i \in 1 .. r.count |-> [kind |-> "ascend", id |-> r.ids[order[i]],
                             visible |-> Decimal[r.ids[order[i]]]]]

\* The stable sort by ID, as the set of its only member.
ById(r) ==
    {order \in [1 .. r.count -> 1 .. r.count] : \A i, j \in 1 .. r.count : i < j =>
        \/ r.ids[order[i]] < r.ids[order[j]]
        \/ r.ids[order[i]] = r.ids[order[j]] /\ order[i] < order[j]}

ApiDiscover(r) ==
    IF \/ r.count \notin 1 .. MaxDevices
       \/ \E p \in 1 .. r.count : r.ids[p] < 0 \/ r.chip[p] \in {Error, Garbled}
    THEN {} ELSE UNION {Validate(DcmiDevices(r, order)) : order \in ById(r)}

\* Only the first chip of a card is used; cards keep the order of the list.
LegacyDiscover(r) ==
    IF \/ r.count \notin 1 .. MaxDevices
       \/ \E p \in 1 .. r.count : r.chips[p] \notin 1 .. MaxDevices \/ r.chip[p] \in {Error, Garbled}
    THEN {} ELSE Validate(DcmiDevices(r, [p \in 1 .. r.count |-> p]))

\* nvidia-smi's inventory, one line for each card.
ParseNvidia(lines) ==
    IF \E i \in DOMAIN lines : lines[i].id = Garbled \/ lines[i].uuid = Garbled
    THEN {}
    ELSE Validate([i \in DOMAIN lines |->
            [kind |-> "nvidia", id |-> lines[i].id, visible |-> lines[i].uuid]])

-----------------------------------------------------------------------------
(* Status: what one reply settles, or what is left to ask (an empty Option). *)

\* A failed query of DCMI is named, for xinfo and the log.
Failures == {"health", "occupancy", "unavailable"}

\* DCMI's health starts as a value that no call writes.
HealthSettles(reply) ==
    CASE reply = 0 -> {}
      [] reply \in {Error, Unset} -> {"health"}
      [] reply \notin {Error, Unset, 0} -> {"unhealthy"}

\* The count of DCMI v2 starts as -1 ...
ApiOccupancy(reply) == IF reply \in 0 .. Room THEN Occupancy(reply) ELSE "occupancy"

\* ... and that of the dcmi_* API as the buffer's size: not written, it means busy.
LegacyOccupancy(reply) ==
    LET count == After(reply, Room)
    IN  IF count \in 0 .. Room THEN Occupancy(count) ELSE "occupancy"

\* MTML's count starts as 0: a call that does not write it means idle.
MthreadsOccupancy(reply) ==
    LET count == After(reply, 0)
    IN  IF count \in 0 .. Room THEN Occupancy(count) ELSE "unknown"

\* One bounded call; the entries of an untouched buffer have process ID 0.
ListedOccupancy(reply, process) ==
    LET count == After(reply, Room)
        pid == IF reply = Unset THEN 0 ELSE process
    IN  IF count \notin 0 .. Room \/ (count # 0 /\ pid = 0) THEN "unknown" ELSE Occupancy(count)

\* The reason why a MetaX card is unavailable starts as -1.
ReasonSettles(reply) ==
    CASE reply = 0 -> {}
      [] reply \in {Error, Unset} -> {"unknown"}
      [] reply \notin {Error, Unset, 0} -> {IF reply < 0 THEN "unknown" ELSE "unhealthy"}

(* The HCU library: the number of devices, the processes, and the devices of each. *)

HcuCount(reply) == {After(reply, 0)} \cap 1 .. MaxDevices

HcuProcesses(reply) ==
    IF reply \in {Error, Unset} \/ Cardinality(reply) > Room THEN {} ELSE {reply}

\* Mutant: a process that disappears during its lookup is skipped.
Mut_SkipFailed(pid, reply, count) ==
    LET gpus == IF reply \in {Error, Unset} THEN {} ELSE reply
    IN  IF pid = 0 \/ \E id \in gpus : id >= count THEN {} ELSE {gpus}

HcuGpus(pid, reply, count) ==
    IF \/ pid = 0 \/ reply \in {Error, Unset, {}}
       \/ \E id \in reply : id >= count
    THEN {} ELSE {reply}

\* The lines of hy-smi about cards; the last line about a card counts.
HealthStatus(lines) ==
    LET cards == {i \in DOMAIN lines : lines[i].card}
        last(id) == CHOOSE i \in cards :
                        lines[i].id = id /\ \A j \in cards : lines[j].id = id => j <= i
    IN  IF cards = {} \/ \E i \in cards : lines[i].id = Garbled \/ lines[i].word = "" THEN {}
        ELSE {[id \in {lines[i].id : i \in cards} |-> lines[last(id)].word = "healthy"]}

\* text: the lines of nvidia-smi that are not blank, unless the call failed.
NvidiaStatus(d, text) ==
    CASE text = {} \/ (\E t \in text : Garbled \in t) -> "unknown"
      [] \E t \in text : Garbled \notin t /\ d.visible \in t -> "busy"
      [] OTHER -> "idle"

\* busy, health: the devices in use and what HealthStatus says, unless they could not be read.
HcuStatus(d, busy, health) ==
    LET says(b) == \E h \in health : d.id \in DOMAIN h /\ h[d.id] = b
    IN  CASE says(FALSE) -> "unhealthy"
          [] says(TRUE) /\ busy # {} ->
                IF \E b \in busy : d.id \in b THEN "busy" ELSE "idle"
          [] OTHER -> "unknown"

=============================================================================
