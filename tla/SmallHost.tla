----------------------------- MODULE SmallHost ------------------------------
(***************************************************************************)
(* Values for the constants of the model-checking runs.                    *)
(* Two devices of one vendor and small submissions: none, one, both, and   *)
(* the device with logical ID 1.                                           *)
(***************************************************************************)
EXTENDS Naturals

MCDevice == 0..1
MCKind == {"nv"}
MCRank == [k \in MCKind |-> 0]
MCKindOf == [d \in MCDevice |-> "nv"]
MCIdOf == [d \in MCDevice |-> d]

Auto(n) == [count |-> n, device_ids |-> {}, exclude |-> {}, kind |-> {}]
Exactly(i) == [count |-> 1, device_ids |-> {<<i>>}, exclude |-> {}, kind |-> {}]

OneOrBoth == {Auto(1), Auto(2)}
OneBothOrSecond == OneOrBoth \cup {Exactly(1)}
AnyShape == OneBothOrSecond \cup {Auto(0)}
WholeHost == {MCDevice}
Shrinking == {MCDevice, {0}}
One == {1}
Two == {2}
OneOrTwo == {1, 2}
AllIdle == {MCDevice}
AllOrSecondIdle == {MCDevice, {1}}
AnyProbe == SUBSET MCDevice
NoLists == {{}}
AnyList == SUBSET MCDevice
NoneOrFirst == {{}, {0}}
Done == {"COMPLETED"}
DoneOrCancelled == {"COMPLETED", "CANCELLED"}
=============================================================================
