------------------------------ MODULE MC_AfeMmio ------------------------------
(***************************************************************************)
(* Two outputs a DAC, so that one of them is the first and one is not. The *)
(* first configuration stages every channel, the second one channel that   *)
(* is the first of its DAC and one that is not, on the other DAC.          *)
(***************************************************************************)
EXTENDS AfeMmio

Record(c, trim, offset) == [afe |-> 0, channel |-> c, trim |-> trim, offset |-> offset]

MCConfigurations ==
    {[channels |-> <<Record(0, 1, 1), Record(1, 1, 0), Record(2, 1, 1), Record(3, 1, 0)>>, vbias |-> 1,
      afes |-> <<[afe |-> 0, attenuation |-> 1, bias |-> 0]>>],
     [channels |-> <<Record(0, 1, 0), Record(3, 1, 1)>>, vbias |-> 0,
      afes |-> <<[afe |-> 0, attenuation |-> 0, bias |-> 1]>>]}

===============================================================================
