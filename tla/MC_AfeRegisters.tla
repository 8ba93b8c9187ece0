---------------------------- MODULE MC_AfeRegisters ----------------------------
(***************************************************************************)
(* Two functions of one register, beside the other two that a record       *)
(* writes there, the malformed one, and the two of register 0; values that *)
(* they have and have not. A record with all values in range, one that     *)
(* LPF_PROGRAMMABILITY has not, and one that LNA_INPUT_CLAMP_SETTING has   *)
(* not.                                                                    *)
(***************************************************************************)
EXTENDS AfeRegisters

MCFunctions ==
    {Field(51, 3, 1), Field(51, 7, 5), Field(1, 12, 14), SOFTWARE_RESET, REGISTER_READOUT_ENABLE}

MCRawWrites == {[register |-> 51, value |-> 65535], [register |-> 0, value |-> 1]}

MCProfiles ==
    {<<1, 1, 0, 1, 4, 1, 0, 2, 0, 2, 3, 1>>,
     <<1, 1, 0, 1, 1, 1, 0, 2, 0, 2, 3, 1>>,
     <<1, 1, 0, 1, 4, 1, 0, 2, 0, 4, 3, 1>>}

===============================================================================
