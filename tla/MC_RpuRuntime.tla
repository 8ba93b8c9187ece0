---------------------------- MODULE MC_RpuRuntime ----------------------------
(***************************************************************************)
(* Two AFE slots and one channel slot: a Begin that announces two AFEs can *)
(* be filled with two distinct records or with two records for one slot.   *)
(***************************************************************************)
EXTENDS RpuRuntime

===============================================================================
