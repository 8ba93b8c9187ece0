--------------------------- MODULE MC_FrontendAlign ---------------------------
(***************************************************************************)
(* Two AFEs, so that one fails behind or before another one. Five taps     *)
(* have runs of one length side by side, at either end and in the middle,  *)
(* and eyes that are wide and eyes that are not.                           *)
(***************************************************************************)
EXTENDS FrontendAlign

===============================================================================
