------------------------------- MODULE ClockChip -------------------------------
(***************************************************************************)
(* The timing clock chip and who touches it: clockchip_tool (run by        *)
(* clockchip.service at start, or by hand), which writes the register      *)
(* table with program_clock_chip or compares it with verify_clock_chip,    *)
(* and the server, whose preflight reads the sanity register (the last of  *)
(* the table) for each collection.                                         *)
(*                                                                         *)
(* LinuxI2cDevice::read_register selects a register with one transfer and  *)
(* reads with another; nothing keeps the processes apart, so one process   *)
(* may read what another one selected. The devices are external: a chip    *)
(* with one register pointer, and other devices at its address, on other   *)
(* buses, whose bytes are never the table's.                               *)
(*                                                                         *)
(* One clockchip_tool runs at a time. A register is its place in the table.*)
(***************************************************************************)
EXTENDS Integers, Sequences

CONSTANTS
    Table,      \* the values of CLOCKCHIP_REGISTERS, the sanity register's last
    Blank,      \* what each register holds after power-up
    Buses,      \* what is at the chip's address on each candidate bus
    BusSetting, \* CLOCKCHIP_BUS, 0 for auto
    Selections, \* the register sets that --only may name
    MaxRuns     \* bound: runs of clockchip_tool in a behaviour

Registers == 1 .. Len(Table)
Sanity == Len(Table)
BusIds == 1 .. Len(Buses)
Bytes == {Table[r] : r \in Registers} \cup {Blank[r] : r \in Registers}
Alien == -1

ASSUME ClockChipAssumption ==
    /\ Table \in Seq(Nat) /\ Table # <<>>
    /\ Blank \in [Registers -> Nat]
    /\ Buses \in Seq({"none", "other", "chip"})
    /\ BusSetting \in 0 .. Len(Buses)
    /\ Selections \subseteq SUBSET Registers
    /\ MaxRuns \in Nat

VARIABLES
    regs,      \* the table registers of the chip
    in_reset,  \* who asserted its reset register, 0xF6, and has not released it: "no" one
    pointer,   \* the register selected last, 0 for the reset register
    service,   \* clockchip.service, as systemctl is-active tells it
    tool,      \* the run of clockchip_tool
    server,    \* the preflight checks of the server that concern the chip
    runs       \* runs of clockchip_tool so far

chip == <<regs, in_reset, pointer>>
vars == <<chip, service, tool, server, runs>>

ToolSteps == {"idle", "find", "found", "write", "check", "read", "assert", "release"}
ToolResults == {"none", "ok", "mismatch", "error"}

Tools == [by : {"service", "hand"}, command : {"program", "verify"}, verify : BOOLEAN,
          reset : BOOLEAN, only : SUBSET Registers, bus : 0 .. Len(Buses),
          pc : ToolSteps, at : 0 .. Len(Table) + 1, result : ToolResults,
          disturbed : SUBSET Registers] \* those selected by a preflight while they were read

Servers == [pc : {"idle", "unit", "select", "read"}, bus : 0 .. Len(Buses),
            active : BOOLEAN, result : {"none", "ok", "failed"}]

NoTool == [by |-> "hand", command |-> "verify", verify |-> TRUE, reset |-> FALSE,
           only |-> {}, bus |-> 0, pc |-> "idle", at |-> 0, result |-> "none", disturbed |-> {}]

NoCheck == [pc |-> "idle", bus |-> 0, active |-> FALSE, result |-> "none"]

Init ==
    /\ regs = Blank
    /\ in_reset = "no"
    /\ pointer = 0
    /\ service = "inactive"
    /\ tool = NoTool
    /\ server = NoCheck
    /\ runs = 0

-------------------------------------------------------------------------------
(***************************************************************************)
(* The devices                                                             *)
(***************************************************************************)
Present(b) == b \in BusIds /\ Buses[b] # "none"

OnChip(b) == b \in BusIds /\ Buses[b] = "chip"

\* Mutant: the entry before is selected.
SelectBefore(b, r) == pointer' = IF OnChip(b) /\ r > 0 THEN r - 1 ELSE pointer

Select(b, r) == pointer' = IF OnChip(b) THEN r ELSE pointer

ResetByte == IF in_reset = "no" THEN 0 ELSE 2

\* The byte that a read gets: that of the register selected last, by whomever.
ByteRead(b) ==
    IF ~OnChip(b) THEN Alien ELSE IF pointer = 0 THEN ResetByte ELSE regs[pointer]

-------------------------------------------------------------------------------
(***************************************************************************)
(* clockchip_tool                                                          *)
(***************************************************************************)
\* Mutant: the candidates do not end.
BusAfterUnchecked(b) == b + 1

\* i2c_bus_candidates, in increasing order; 0 when there are no more.
BusAfter(b) == IF b < Len(Buses) THEN b + 1 ELSE 0

FirstStep(command) == IF command = "program" THEN "write" ELSE "check"

\* open_device: --bus or CLOCKCHIP_BUS is opened as it is, else the buses are probed.
StartTool(by, command, verify, reset, only, bus) ==
    /\ tool.pc = "idle"
    /\ runs < MaxRuns
    /\ runs' = runs + 1
    /\ tool' = [by |-> by, command |-> command, verify |-> verify, reset |-> reset,
                only |-> only, bus |-> IF bus = 0 THEN BusAfter(0) ELSE bus,
                pc |-> IF bus = 0 THEN "find" ELSE FirstStep(command),
                at |-> 1, result |-> "none", disturbed |-> {}]
    /\ UNCHANGED chip

\* Mutant: the service programs without --verify.
StartServiceUnverified ==
    /\ StartTool("service", "program", FALSE, TRUE, Registers, BusSetting)
    /\ service' = "activating"
    /\ server' = NoCheck

\* clockchip.service: ExecStart is clockchip_tool program --verify. daphne-sc.service requires
\* it, so a restart of the one stops the other.
StartService ==
    /\ StartTool("service", "program", TRUE, TRUE, Registers, BusSetting)
    /\ service' = "activating"
    /\ server' = NoCheck

\* By hand, with any of the options, while the server runs.
RunByHand ==
    /\ \E verify, reset \in BOOLEAN, only \in Selections, bus \in {BusSetting} \cup BusIds :
         \/ StartTool("hand", "program", verify, reset, only, bus)
         \/ StartTool("hand", "verify", TRUE, FALSE, only, bus)
    /\ UNCHANGED <<service, server>>

EndTool(result) ==
    /\ tool' = [tool EXCEPT !.pc = "idle", !.result = result]
    /\ service' = IF tool.by = "hand" THEN service ELSE IF result = "ok" THEN "active" ELSE "failed"

Advance(pc) ==
    /\ tool' = [tool EXCEPT !.pc = pc]
    /\ UNCHANGED service

\* open_on_first_responsive_bus: the next bus, or no candidate left.
TryNextBus ==
    IF BusAfter(tool.bus) = 0 THEN EndTool("error")
    ELSE tool' = [tool EXCEPT !.bus = BusAfter(tool.bus), !.pc = "find"] /\ UNCHANGED service

FindSelect ==
    /\ tool.pc = "find"
    /\ \/ /\ Present(tool.bus)
          /\ Select(tool.bus, Sanity)
          /\ Advance("found")
       \/ TryNextBus /\ UNCHANGED pointer
    /\ UNCHANGED <<regs, in_reset, server, runs>>

\* Any byte will do.
FindRead ==
    /\ tool.pc = "found"
    /\ Advance(FirstStep(tool.command)) \/ TryNextBus
    /\ UNCHANGED <<chip, server, runs>>

\* ClockChipProgramOptions::includes
Included == tool.at \in tool.only

SkipEntry ==
    /\ tool.pc \in {"write", "check"}
    /\ tool.at <= Len(Table)
    /\ ~Included
    /\ tool' = [tool EXCEPT !.at = @ + 1]
    /\ UNCHANGED <<chip, service, server, runs>>

NextEntry == [tool EXCEPT !.at = @ + 1, !.pc = FirstStep(tool.command)]

WriteEntry ==
    /\ tool.pc = "write"
    /\ tool.at <= Len(Table)
    /\ Included
    /\ Present(tool.bus)
    /\ regs' = IF OnChip(tool.bus) THEN [regs EXCEPT ![tool.at] = Table[tool.at]] ELSE regs
    /\ Select(tool.bus, tool.at)
    /\ tool' = IF tool.verify THEN [tool EXCEPT !.pc = "check"] ELSE NextEntry
    /\ UNCHANGED <<in_reset, service, server, runs>>

\* verify_register, first half
SelectEntry ==
    /\ tool.pc = "check"
    /\ tool.at <= Len(Table)
    /\ Included
    /\ Present(tool.bus)
    /\ Select(tool.bus, tool.at)
    /\ tool' = [tool EXCEPT !.pc = "read"]
    /\ UNCHANGED <<regs, in_reset, service, server, runs>>

\* Mutant: a mismatch is reported, and the run goes on.
CheckEntryGoesOn ==
    /\ tool.pc = "read"
    /\ tool' = NextEntry
    /\ UNCHANGED <<chip, service, server, runs>>

\* verify_register, second half: the first mismatch ends the run.
CheckEntry ==
    /\ tool.pc = "read"
    /\ IF ByteRead(tool.bus) = Table[tool.at]
       THEN tool' = NextEntry /\ UNCHANGED service
       ELSE EndTool("mismatch")
    /\ UNCHANGED <<chip, server, runs>>

EntriesDone ==
    /\ tool.pc \in {"write", "check"}
    /\ tool.at > Len(Table)
    /\ IF tool.command = "program" /\ tool.reset THEN Advance("assert") ELSE EndTool("ok")
    /\ UNCHANGED <<chip, server, runs>>

WriteReset(value) ==
    /\ Present(tool.bus)
    /\ in_reset' = IF OnChip(tool.bus) THEN value ELSE in_reset
    /\ Select(tool.bus, 0)
    /\ UNCHANGED <<regs, server, runs>>

\* CLOCKCHIP_RESET_SEQUENCE: 0x02, then 0x00.
AssertReset ==
    /\ tool.pc = "assert"
    /\ WriteReset(tool.by)
    /\ Advance("release")

ReleaseReset ==
    /\ tool.pc = "release"
    /\ WriteReset("no")
    /\ EndTool("ok")

\* A transfer fails, the device cannot be opened, or the run is killed (TimeoutStartSec):
\* nothing that was written is taken back.
RunCut ==
    /\ tool.pc # "idle"
    /\ EndTool("error")
    /\ UNCHANGED <<chip, server, runs>>

-------------------------------------------------------------------------------
(***************************************************************************)
(* The server: systemd_unit_active("clockchip.service"), then              *)
(* clockchip_reachable                                                     *)
(***************************************************************************)
StartPreflight ==
    /\ server.pc = "idle"
    /\ server' = [pc |-> "unit", bus |-> 0, active |-> FALSE, result |-> "none"]
    /\ UNCHANGED <<chip, service, tool, runs>>

EndPreflight(found) ==
    server' = [server EXCEPT !.pc = "idle",
                             !.result = IF found /\ server.active THEN "ok" ELSE "failed"]

UnitActive == service = "active"

CheckUnit ==
    /\ server.pc = "unit"
    /\ IF BusSetting = 0 /\ BusAfter(0) = 0
       THEN server' = [server EXCEPT !.pc = "idle", !.result = "failed"]
       ELSE server' = [server EXCEPT !.active = UnitActive, !.pc = "select",
                                     !.bus = IF BusSetting = 0 THEN BusAfter(0) ELSE BusSetting]
    /\ UNCHANGED <<chip, service, tool, runs>>

ProbeNextBus ==
    IF BusSetting # 0 \/ BusAfter(server.bus) = 0 THEN EndPreflight(FALSE)
    ELSE server' = [server EXCEPT !.bus = BusAfter(server.bus), !.pc = "select"]

ProbeSelect ==
    /\ server.pc = "select"
    /\ \/ /\ Present(server.bus)
          /\ Select(server.bus, Sanity)
          /\ server' = [server EXCEPT !.pc = "read"]
          /\ tool' = IF tool.pc = "read" /\ OnChip(server.bus)
                     THEN [tool EXCEPT !.disturbed = @ \cup {tool.at}] ELSE tool
       \/ ProbeNextBus /\ UNCHANGED <<pointer, tool>>
    /\ UNCHANGED <<regs, in_reset, service, runs>>

\* Another value is no reason to stop: the next bus is tried.
ProbeRead ==
    /\ server.pc = "read"
    /\ \/ IF ByteRead(server.bus) = Table[Sanity] THEN EndPreflight(TRUE) ELSE ProbeNextBus
       \/ ProbeNextBus
    /\ UNCHANGED <<chip, service, tool, runs>>

\* The board loses power, with all that runs on it.
PowerCycle ==
    /\ regs' = Blank
    /\ in_reset' = "no"
    /\ pointer' = 0
    /\ service' = "inactive"
    /\ tool' = NoTool
    /\ server' = NoCheck
    /\ UNCHANGED runs

ToolStep ==
    \/ FindSelect \/ FindRead \/ SkipEntry \/ WriteEntry \/ SelectEntry \/ CheckEntry
    \/ EntriesDone \/ AssertReset \/ ReleaseReset \/ RunCut

ServerStep == StartPreflight \/ CheckUnit \/ ProbeSelect \/ ProbeRead

Next == StartService \/ RunByHand \/ ToolStep \/ ServerStep \/ PowerCycle

Spec == Init /\ [][Next]_vars

-------------------------------------------------------------------------------
(***************************************************************************)
(* Properties                                                              *)
(***************************************************************************)
TypeOK ==
    /\ regs \in [Registers -> Bytes]
    /\ in_reset \in {"no", "service", "hand"}
    /\ pointer \in 0 .. Len(Table)
    /\ service \in {"inactive", "activating", "active", "failed"}
    /\ tool \in Tools
    /\ server \in Servers
    /\ runs \in 0 .. MaxRuns

Programmed == \A r \in Registers : regs[r] = Table[r]

\* docs/rpu-afe-boundary.md:70-73: a collection that finds the clock chip in order means that
\* the whole table is in the chip, although it looks at one register, may read what another
\* process selected, and a run by hand may have written that one register alone; and that no
\* service run was cut between the two writes of the reset (a run by hand may have been). It
\* is the unit's state that carries this: the unit is active only after a verified full run.
GateMeansProgrammed == server.result = "ok" => Programmed /\ in_reset # "service"

\* A preflight between the two transfers of a read makes a run compare the sanity register's
\* byte with another register's value. What a run that ends well has shown of a register:
\* it holds its value, or (if nothing was written) the sanity register holds that value and
\* the read was disturbed.
ShownRight(r) ==
    \/ regs[r] = Table[r]
    \/ tool.command = "verify" /\ r \in tool.disturbed /\ regs[Sanity] = Table[r]

\* A run that reads its registers back and ends well has shown each of them right, whatever
\* the registers held before; and the chip is out of reset if it pulsed the reset.
OkRunIsRight ==
    tool.result = "ok" =>
        /\ tool.verify => \A r \in tool.only : ShownRight(r)
        /\ tool.command = "program" /\ tool.reset /\ OnChip(tool.bus) => in_reset = "no"

\* On the chip, a run that writes a register and then reads another byte back was disturbed
\* by a preflight; nothing else makes clockchip.service fail with a mismatch.
MismatchMeansShared ==
    tool.result = "mismatch" /\ tool.command = "program" /\ OnChip(tool.bus) =>
        tool.at \in tool.disturbed

===============================================================================
