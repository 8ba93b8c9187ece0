---------------------------- MODULE MC_PowerSupply ----------------------------
(***************************************************************************)
(* Three commands and pieces: a query may be sent while a late reply in    *)
(* two pieces, or a setting and a late reply, are still on the line.       *)
(***************************************************************************)
EXTENDS PowerSupply

===============================================================================
