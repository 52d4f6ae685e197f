----------------------------- MODULE Environment -----------------------------
(***************************************************************************)
(* The device variables that executor.rs puts into a payload's             *)
(* environment, and what the vendors' runtimes make of them.               *)
(*                                                                         *)
(* S is the job's devices and of their vendors.  A variable is the set of  *)
(* identifiers or numbers it lists; the empty set stands for "-1", which   *)
(* hides every device.                                                     *)
(***************************************************************************)
EXTENDS Naturals, FiniteSets

CONSTANTS
  Index,    \* Index[d] is the logical ID of device d
  Uuid      \* Uuid[d] is its stable identifier (visible)

OfKind(S, of, k) == {d \in S : of[d] = k}

Visible(S, of, k) == {Uuid[d] : d \in OfKind(S, of, k)}

VisibleIds(S, of, k) == {Index[d] : d \in OfKind(S, of, k)}

\* Mutant: HCUs keep their physical numbers after ROCR has filtered them.
Mut_PhysicalIds(S, of) == VisibleIds(S, of, "hcu")

\* ROCR filters the physical devices first; HIP and CUDA number what is left.
HcuRuntimeIds(S, of) == 0 .. Cardinality(OfKind(S, of, "hcu")) - 1

\* Four vendors read CUDA_VISIBLE_DEVICES.
VisibleForCuda(S, of) ==
  CASE OfKind(S, of, "metax") # {} -> VisibleIds(S, of, "metax")
    [] OfKind(S, of, "metax") = {} /\ OfKind(S, of, "ppu") # {} -> Visible(S, of, "ppu")
    [] OfKind(S, of, "metax") = {} /\ OfKind(S, of, "ppu") = {} /\ OfKind(S, of, "hcu") # {} ->
         HcuRuntimeIds(S, of)
    [] OTHER -> Visible(S, of, "nvidia")

Variables(S, of) ==
  [cuda     |-> VisibleForCuda(S, of),
   ascend   |-> Visible(S, of, "ascend"),
   musa     |-> VisibleIds(S, of, "mthreads"),
   mthreads |-> Visible(S, of, "mthreads"),
   maca     |-> VisibleIds(S, of, "metax"),
   hip      |-> HcuRuntimeIds(S, of),
   rocr     |-> VisibleIds(S, of, "hcu")]

-----------------------------------------------------------------------------
(* The runtimes: which of a vendor's cards on this host a payload can use. *)

Rocr(env, cards) == {d \in cards : Index[d] \in env.rocr}

\* The place of a card in ROCR's view, and the cards that a list of such places selects.
Selects(list, view) == {d \in view : Cardinality({e \in view : Index[e] < Index[d]}) \in list}

Sees(k, env, cards) ==
  CASE k = "nvidia"   -> {d \in cards : Uuid[d] \in env.cuda}
    [] k = "ascend"   -> {d \in cards : Uuid[d] \in env.ascend}
    [] k = "mthreads" -> {d \in cards : Index[d] \in env.musa /\ Uuid[d] \in env.mthreads}
    [] k = "metax"    -> {d \in cards : Index[d] \in env.maca \cap env.cuda}
    [] k = "ppu"      -> {d \in cards : Uuid[d] \in env.cuda}
    [] k = "hcu"      -> Selects(env.hip \cap env.cuda, Rocr(env, cards))

=============================================================================
