----------------------------- MODULE MC_AfeLink -----------------------------
(***************************************************************************)
(* One AFE slot and one channel slot are enough for a command to be staged *)
(* in part, to be torn, and to find another command's record staged. Four  *)
(* frames are the longest command; with six sequence numbers the second    *)
(* configuration begins anew, and a status query steps over the end.       *)
(***************************************************************************)
EXTENDS AfeLink

MCCommands ==
    {[kind |-> "Status", afes |-> <<>>, channels |-> <<>>],
     [kind |-> "Single", afes |-> <<>>, channels |-> <<>>],
     [kind |-> "Configure", afes |-> <<0>>, channels |-> <<0>>]}

===============================================================================
