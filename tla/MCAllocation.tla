---------------------------- MODULE MCAllocation ----------------------------
(***************************************************************************)
(* Placement on two vendors with overlapping logical IDs.                  *)
(***************************************************************************)
EXTENDS Placement, TLC

\* Inventory order interleaves the vendors; IDs 0 and 1 exist in both.
MCDevice == 0..4
MCKind == {"nv", "asc"}
MCRank == "nv" :> 0 @@ "asc" :> 1
MCKindOf == 0 :> "asc" @@ 1 :> "nv" @@ 2 :> "nv" @@ 3 :> "asc" @@ 4 :> "nv"
MCUuid == [d \in MCDevice |-> d]
MCIdOf == 0 :> 1 @@ 1 :> 0 @@ 2 :> 1 @@ 3 :> 2 @@ 4 :> 2

Ids == 0..2
Lists == {<<i>> : i \in Ids} \cup (Ids \X Ids)
Counts == 0..3
Wanted == {{}} \cup {{k} : k \in Kind}

Automatic ==
  [count : Counts, device_ids : {{}}, exclude : {{}, {1}}, kind : Wanted]
Exact ==
  [count : Counts, device_ids : {{ids} : ids \in Lists}, exclude : {{}, {1}}, kind : Wanted]

MCSubmissions == Automatic \cup Exact

MCOptions ==
  [gpus : {{}, {0}, {1}, {2}}, device_ids : {<<>>, <<1>>, <<2, 0>>, <<1, 1>>},
   exclude : {<<>>, <<1>>, <<1, 1>>}, device : Wanted]
=============================================================================
