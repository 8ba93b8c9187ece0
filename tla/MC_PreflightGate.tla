---------------------------- MODULE MC_PreflightGate ----------------------------
(***************************************************************************)
(* Two checks, so that one can fail while the other is read. Four ticks    *)
(* are room for a collection, a hit, an expiry and a second collection.    *)
(***************************************************************************)
EXTENDS PreflightGate

===============================================================================
