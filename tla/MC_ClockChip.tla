----------------------------- MODULE MC_ClockChip -----------------------------
(***************************************************************************)
(* Three registers: one whose value is its own, one whose value is that of *)
(* the sanity register, as those of 0x24, 0x27 and 0x36 are, and the       *)
(* sanity register. Each powers up with a byte of its own; the first one's *)
(* is the sanity register's value, and the sanity register's is the first  *)
(* one's value, so that a byte of the wrong register can look right. The   *)
(* first bus has another device at the chip's address.                     *)
(***************************************************************************)
EXTENDS ClockChip

MCTable == <<8, 6, 6>>

MCBlank == <<6, 0, 8>>

MCBuses == <<"other", "chip">>

MCSelections == {{1, 2, 3}, {1}, {1, 2}, {3}}

===============================================================================
