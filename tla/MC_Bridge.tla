------------------------------- MODULE MC_Bridge -------------------------------
(***************************************************************************)
(* One board and one worker beside the server loop. The board measures     *)
(* its snapshots and sends zeroes for GeneralInfo, so that a good poll     *)
(* differs from the one before and an old one shows; two message ids, so   *)
(* that a late reply meets a later request. Two boards on one worker for   *)
(* the fairness of polling.                                                *)
(***************************************************************************)
EXTENDS Bridge

===============================================================================
