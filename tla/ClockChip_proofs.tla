--------------------------- MODULE ClockChip_proofs ---------------------------
(***************************************************************************)
(* For every table, every set of buses and any number of runs: a preflight *)
(* that finds the clock chip in order means that the table is in it, and   *)
(* the result of a run of clockchip_tool means what it says.               *)
(***************************************************************************)
EXTENDS ClockChip, TLAPS

\* An entry that is being read back is one of the table's.
ReadInTable == tool.pc = "read" => tool.at \in Registers

TypeInv == TypeOK /\ ReadInTable

LEMMA TableTypes ==
    /\ Len(Table) \in Nat /\ Len(Table) > 0
    /\ Len(Buses) \in Nat
    /\ Registers = 1 .. Len(Table)
    /\ Sanity \in Registers
    /\ \A r \in Registers : Table[r] \in Nat /\ Table[r] \in Bytes /\ Table[r] # Alien
    /\ Blank \in [Registers -> Bytes]
  <1>1. Table \in Seq(Nat) /\ Table # <<>> /\ Buses \in Seq({"none", "other", "chip"})
    BY ClockChipAssumption
  <1>2. Len(Table) \in Nat /\ Len(Table) > 0 /\ Len(Buses) \in Nat
    BY <1>1
  <1>3. \A r \in 1 .. Len(Table) : Table[r] \in Nat
    BY <1>1
  <1>4. \A r \in Registers : Table[r] \in Bytes /\ Table[r] # Alien
    BY <1>3 DEF Registers, Bytes, Alien
  <1>5. Blank \in [Registers -> Bytes]
    BY ClockChipAssumption DEF Bytes
  <1> QED
    BY <1>2, <1>3, <1>4, <1>5 DEF Registers, Sanity

LEMMA BusAfterTypes ==
    ASSUME NEW b \in 0 .. Len(Buses)
    PROVE  BusAfter(b) \in 0 .. Len(Buses)
  BY TableTypes DEF BusAfter

LEMMA InitTyped == Init => TypeInv
<1>1. SUFFICES ASSUME Init PROVE TypeInv
  OBVIOUS
<1>2. NoTool \in Tools
  BY TableTypes DEF NoTool, Tools, ToolSteps, ToolResults
<1>3. NoCheck \in Servers
  BY TableTypes DEF NoCheck, Servers
<1>4. runs \in 0 .. MaxRuns /\ pointer \in 0 .. Len(Table)
  BY <1>1, TableTypes, ClockChipAssumption DEF Init
<1>5. ReadInTable
  BY <1>1 DEF Init, ReadInTable, NoTool
<1>6. QED
  BY <1>1, <1>2, <1>3, <1>4, <1>5, TableTypes DEF Init, TypeInv, TypeOK

\* What the steps of a run do to its record keeps its type.
LEMMA ToolTypes ==
    ASSUME tool \in Tools
    PROVE  /\ \A pc \in ToolSteps : [tool EXCEPT !.pc = pc] \in Tools
           /\ \A result \in ToolResults :
                [tool EXCEPT !.pc = "idle", !.result = result] \in Tools
           /\ \A b \in 0 .. Len(Buses) : [tool EXCEPT !.bus = b, !.pc = "find"] \in Tools
           /\ \A d \in SUBSET Registers : [tool EXCEPT !.disturbed = d] \in Tools
           /\ tool.at <= Len(Table) => [tool EXCEPT !.at = @ + 1] \in Tools /\ NextEntry \in Tools
<1>1. \A pc \in ToolSteps : [tool EXCEPT !.pc = pc] \in Tools
  BY DEF Tools
<1>2. \A result \in ToolResults : [tool EXCEPT !.pc = "idle", !.result = result] \in Tools
  BY DEF Tools, ToolSteps
<1>3. \A b \in 0 .. Len(Buses) : [tool EXCEPT !.bus = b, !.pc = "find"] \in Tools
  BY DEF Tools, ToolSteps
<1>4. \A d \in SUBSET Registers : [tool EXCEPT !.disturbed = d] \in Tools
  BY DEF Tools
<1>6. ASSUME tool.at <= Len(Table)
      PROVE  [tool EXCEPT !.at = @ + 1] \in Tools /\ NextEntry \in Tools
  <2>1. tool.at + 1 \in 0 .. Len(Table) + 1
    BY <1>6, TableTypes DEF Tools
  <2>2. FirstStep(tool.command) \in ToolSteps
    BY DEF FirstStep, ToolSteps
  <2>3. QED
    BY <2>1, <2>2 DEF Tools, NextEntry
<1>7. QED
  BY <1>1, <1>2, <1>3, <1>4, <1>6

Services == {"inactive", "activating", "active", "failed"}

Resetters == {"no", "service", "hand"}

LEMMA StartTyped ==
    ASSUME TypeInv, NEW by \in {"service", "hand"}, NEW command \in {"program", "verify"},
           NEW verify \in BOOLEAN, NEW reset \in BOOLEAN, NEW only \in SUBSET Registers,
           NEW bus \in 0 .. Len(Buses), StartTool(by, command, verify, reset, only, bus)
    PROVE  /\ tool' \in Tools /\ ReadInTable'
           /\ runs' \in 0 .. MaxRuns /\ UNCHANGED chip
<1>1. runs' \in 0 .. MaxRuns
  BY ClockChipAssumption DEF StartTool, TypeInv, TypeOK
<1>2. BusAfter(0) \in 0 .. Len(Buses) /\ FirstStep(command) \in {"write", "check"}
  BY BusAfterTypes, TableTypes DEF FirstStep
<1>3. 1 \in 0 .. Len(Table) + 1
  BY TableTypes
<1>4. tool' \in Tools
  BY <1>2, <1>3 DEF StartTool, Tools, ToolSteps, ToolResults
<1>5. tool'.pc # "read"
  BY <1>2 DEF StartTool
<1>6. QED
  BY <1>1, <1>4, <1>5 DEF StartTool, ReadInTable

LEMMA EndTyped ==
    ASSUME TypeInv, NEW result \in {"ok", "mismatch", "error"}, EndTool(result)
    PROVE  tool' \in Tools /\ ReadInTable' /\ service' \in Services
<1>1. tool' \in Tools
  BY ToolTypes DEF EndTool, TypeInv, TypeOK, ToolResults
<1>2. tool'.pc = "idle"
  BY DEF EndTool, TypeInv, TypeOK, Tools
<1>3. service' \in Services
  BY DEF EndTool, TypeInv, TypeOK, Services
<1>4. QED
  BY <1>1, <1>2, <1>3 DEF ReadInTable

LEMMA AdvanceTyped ==
    ASSUME TypeInv, NEW pc \in ToolSteps \ {"read"}, Advance(pc)
    PROVE  tool' \in Tools /\ ReadInTable' /\ service' \in Services
<1>1. tool' \in Tools
  BY ToolTypes DEF Advance, TypeInv, TypeOK
<1>2. tool'.pc # "read"
  BY DEF Advance, TypeInv, TypeOK, Tools
<1>3. QED
  BY <1>1, <1>2 DEF Advance, ReadInTable, TypeInv, TypeOK, Services

LEMMA TryNextTyped ==
    ASSUME TypeInv, TryNextBus
    PROVE  tool' \in Tools /\ ReadInTable' /\ service' \in Services
<1>1. CASE EndTool("error")
  BY <1>1, EndTyped
<1>2. CASE tool' = [tool EXCEPT !.bus = BusAfter(tool.bus), !.pc = "find"] /\ UNCHANGED service
  <2>1. BusAfter(tool.bus) \in 0 .. Len(Buses)
    BY BusAfterTypes DEF TypeInv, TypeOK, Tools
  <2>2. tool' \in Tools
    BY <1>2, <2>1, ToolTypes DEF TypeInv, TypeOK
  <2>3. tool'.pc = "find"
    BY <1>2 DEF TypeInv, TypeOK, Tools
  <2>4. QED
    BY <1>2, <2>2, <2>3 DEF ReadInTable, TypeInv, TypeOK, Services
<1>3. QED
  BY <1>1, <1>2 DEF TryNextBus

LEMMA NextEntryTyped ==
    ASSUME TypeInv, tool.at <= Len(Table)
    PROVE  NextEntry \in Tools /\ NextEntry.pc # "read"
<1>1. NextEntry \in Tools
  BY ToolTypes DEF TypeInv, TypeOK
<1>2. NextEntry.pc = FirstStep(tool.command)
  BY DEF NextEntry, TypeInv, TypeOK, Tools
<1>3. QED
  BY <1>1, <1>2 DEF FirstStep

LEMMA SelectTyped ==
    ASSUME TypeInv, NEW b, NEW r \in 0 .. Len(Table), Select(b, r)
    PROVE  pointer' \in 0 .. Len(Table)
BY DEF Select, TypeInv, TypeOK

\* Every step of a run keeps the types.
LEMMA ToolStepTyped == TypeInv /\ ToolStep => TypeInv'
<1>1. SUFFICES ASSUME TypeInv, ToolStep PROVE TypeInv'
  OBVIOUS
<1> USE DEF Services, Resetters
<1>2. SUFFICES /\ regs' \in [Registers -> Bytes] /\ in_reset' \in Resetters
               /\ pointer' \in 0 .. Len(Table)
               /\ tool' \in Tools /\ ReadInTable' /\ service' \in Services
               /\ UNCHANGED <<server, runs>>
  BY <1>1 DEF TypeInv, TypeOK
<1>3. /\ tool \in Tools /\ ReadInTable /\ service \in Services
      /\ regs \in [Registers -> Bytes] /\ in_reset \in Resetters /\ pointer \in 0 .. Len(Table)
  BY <1>1 DEF TypeInv, TypeOK
<1>4. Sanity \in 0 .. Len(Table) /\ 0 \in 0 .. Len(Table)
  BY TableTypes
<1>5. FirstStep(tool.command) \in ToolSteps \ {"read"}
  BY DEF FirstStep, ToolSteps
<1>6. CASE FindSelect
  <2>1. /\ tool' \in Tools /\ ReadInTable' /\ service' \in Services
    BY <1>1, <1>6, AdvanceTyped, TryNextTyped DEF FindSelect, ToolSteps
  <2>2. pointer' \in 0 .. Len(Table)
    BY <1>1, <1>3, <1>4, <1>6, SelectTyped DEF FindSelect
  <2>3. QED
    BY <1>3, <1>6, <2>1, <2>2 DEF FindSelect
<1>7. CASE FindRead
  BY <1>1, <1>3, <1>5, <1>7, AdvanceTyped, TryNextTyped DEF FindRead, chip
<1>8. CASE SkipEntry
  <2>1. tool' \in Tools
    BY <1>3, <1>8, ToolTypes DEF SkipEntry
  <2>2. tool'.pc # "read"
    BY <1>3, <1>8 DEF SkipEntry, Tools
  <2>3. QED
    BY <1>3, <1>8, <2>1, <2>2 DEF SkipEntry, ReadInTable, chip
<1>9. CASE WriteEntry
  <2>1. tool.at \in Registers /\ tool.at \in 0 .. Len(Table)
    BY <1>3, <1>9, TableTypes DEF WriteEntry, Included, Tools
  <2>2. regs' \in [Registers -> Bytes]
    BY <1>3, <1>9, <2>1, TableTypes DEF WriteEntry
  <2>3. tool' \in Tools
    BY <1>1, <1>3, <1>9, <2>1, ToolTypes, NextEntryTyped DEF WriteEntry, ToolSteps
  <2>4. tool'.pc # "read"
    BY <1>1, <1>3, <1>9, NextEntryTyped DEF WriteEntry, Tools
  <2>5. pointer' \in 0 .. Len(Table)
    BY <1>1, <1>9, <2>1, SelectTyped DEF WriteEntry
  <2>6. QED
    BY <1>3, <1>9, <2>2, <2>3, <2>4, <2>5 DEF WriteEntry, ReadInTable
<1>10. CASE SelectEntry
  <2>1. tool.at \in Registers /\ tool.at \in 0 .. Len(Table)
    BY <1>3, <1>10, TableTypes DEF SelectEntry, Included, Tools
  <2>2. tool' \in Tools
    BY <1>3, <1>10, ToolTypes DEF SelectEntry, ToolSteps
  <2>3. tool'.at = tool.at
    BY <1>3, <1>10 DEF SelectEntry, Tools
  <2>4. pointer' \in 0 .. Len(Table)
    BY <1>1, <1>10, <2>1, SelectTyped DEF SelectEntry
  <2>5. QED
    BY <1>3, <1>10, <2>1, <2>2, <2>3, <2>4 DEF SelectEntry, ReadInTable
<1>11. CASE CheckEntry
  <2>1. tool.at <= Len(Table)
    BY <1>3, <1>11, TableTypes DEF CheckEntry, ReadInTable
  <2>2. CASE tool' = NextEntry /\ UNCHANGED service
    BY <1>1, <1>3, <1>11, <2>1, <2>2, NextEntryTyped DEF CheckEntry, ReadInTable, chip
  <2>3. CASE EndTool("mismatch")
    BY <1>1, <1>3, <1>11, <2>3, EndTyped DEF CheckEntry, chip
  <2>4. QED
    BY <1>11, <2>2, <2>3 DEF CheckEntry
<1>12. CASE EntriesDone
  BY <1>1, <1>3, <1>12, AdvanceTyped, EndTyped DEF EntriesDone, ToolSteps, chip
<1>13. CASE AssertReset
  <2>1. tool' \in Tools /\ ReadInTable' /\ service' \in Services
    BY <1>1, <1>13, AdvanceTyped DEF AssertReset, ToolSteps
  <2>2. QED
    BY <1>1, <1>3, <1>4, <1>13, <2>1, SelectTyped DEF AssertReset, WriteReset, Tools
<1>14. CASE ReleaseReset
  <2>1. tool' \in Tools /\ ReadInTable' /\ service' \in Services
    BY <1>1, <1>14, EndTyped DEF ReleaseReset
  <2>2. QED
    BY <1>1, <1>3, <1>4, <1>14, <2>1, SelectTyped DEF ReleaseReset, WriteReset
<1>15. CASE RunCut
  BY <1>1, <1>3, <1>15, EndTyped DEF RunCut, chip
<1>16. QED
  BY <1>1, <1>6, <1>7, <1>8, <1>9, <1>10, <1>11, <1>12, <1>13, <1>14, <1>15 DEF ToolStep

\* What the server's checks do to their record keeps its type.
LEMMA ServerStepTyped == TypeInv /\ ServerStep => TypeInv'
<1>1. SUFFICES ASSUME TypeInv, ServerStep PROVE TypeInv'
  OBVIOUS
<1>2. /\ server \in Servers /\ tool \in Tools /\ ReadInTable
      /\ pointer \in 0 .. Len(Table)
      /\ Sanity \in 0 .. Len(Table)
  BY <1>1, TableTypes DEF TypeInv, TypeOK
<1>3. SUFFICES /\ server' \in Servers /\ tool' \in Tools /\ ReadInTable'
               /\ pointer' \in 0 .. Len(Table)
               /\ UNCHANGED <<regs, in_reset, service, runs>>
  BY <1>1 DEF TypeInv, TypeOK
<1>4. \A found \in BOOLEAN : EndPreflight(found) => server' \in Servers
  BY <1>2 DEF EndPreflight, Servers
<1>5. ASSUME ProbeNextBus PROVE server' \in Servers
  <2>1. BusAfter(server.bus) \in 0 .. Len(Buses)
    BY <1>2, BusAfterTypes DEF Servers
  <2>2. QED
    BY <1>2, <1>4, <1>5, <2>1 DEF ProbeNextBus, Servers
<1>6. CASE StartPreflight
  BY <1>2, <1>6, TableTypes DEF StartPreflight, Servers, chip, ReadInTable
<1>7. CASE CheckUnit
  <2>1. BusAfter(0) \in 0 .. Len(Buses) /\ BusSetting \in 0 .. Len(Buses) /\ UnitActive \in BOOLEAN
    BY BusAfterTypes, TableTypes, ClockChipAssumption DEF UnitActive
  <2>2. server' \in Servers
    BY <1>2, <1>7, <2>1 DEF CheckUnit, Servers
  <2>3. QED
    BY <1>2, <1>7, <2>2 DEF CheckUnit, chip, ReadInTable
<1>8. CASE ProbeSelect
  <2>1. CASE ProbeNextBus /\ UNCHANGED <<pointer, tool>>
    BY <1>2, <1>5, <1>8, <2>1 DEF ProbeSelect, ReadInTable
  <2>2. CASE /\ Select(server.bus, Sanity)
             /\ server' = [server EXCEPT !.pc = "read"]
             /\ tool' = IF tool.pc = "read" /\ OnChip(server.bus)
                        THEN [tool EXCEPT !.disturbed = @ \cup {tool.at}] ELSE tool
    <3>1. server' \in Servers
      BY <1>2, <2>2 DEF Servers
    <3>2. pointer' \in 0 .. Len(Table)
      BY <1>1, <1>2, <2>2, SelectTyped
    <3>3. CASE tool' = tool
      BY <1>2, <1>8, <3>1, <3>2, <3>3 DEF ProbeSelect, ReadInTable
    <3>4. CASE tool.pc = "read" /\ tool' = [tool EXCEPT !.disturbed = @ \cup {tool.at}]
      <4> DEFINE seen == tool.disturbed \cup {tool.at}
      <4>1. seen \in SUBSET Registers
        BY <1>2, <3>4 DEF ReadInTable, Tools
      <4>2. tool' = [tool EXCEPT !.disturbed = seen]
        BY <3>4
      <4> HIDE DEF seen
      <4>3. tool' \in Tools
        BY <1>2, <4>1, <4>2, ToolTypes
      <4>4. tool'.pc = tool.pc /\ tool'.at = tool.at
        BY <1>2, <4>2 DEF Tools
      <4>5. QED
        BY <1>2, <1>8, <3>1, <3>2, <4>3, <4>4 DEF ProbeSelect, ReadInTable
    <3>5. QED
      BY <2>2, <3>3, <3>4
  <2>3. QED
    BY <1>8, <2>1, <2>2 DEF ProbeSelect
<1>9. CASE ProbeRead
  BY <1>2, <1>4, <1>5, <1>9 DEF ProbeRead, chip, ReadInTable
<1>10. QED
  BY <1>1, <1>6, <1>7, <1>8, <1>9 DEF ServerStep

LEMMA NoToolTyped == NoTool \in Tools /\ NoTool.pc = "idle" /\ NoCheck \in Servers
<1>1. NoTool \in Tools
  BY TableTypes DEF NoTool, Tools, ToolSteps, ToolResults
<1>2. NoCheck \in Servers
  BY TableTypes DEF NoCheck, Servers
<1>3. QED
  BY <1>1, <1>2 DEF NoTool

LEMMA StepTyped == TypeInv /\ [Next]_vars => TypeInv'
<1>1. SUFFICES ASSUME TypeInv, [Next]_vars PROVE TypeInv'
  OBVIOUS
<1>2. CASE StartService
  <2>1. BusSetting \in 0 .. Len(Buses) /\ Registers \in SUBSET Registers
    BY ClockChipAssumption
  <2>2. tool' \in Tools /\ ReadInTable' /\ runs' \in 0 .. MaxRuns /\ UNCHANGED chip
    BY <1>1, <1>2, <2>1, StartTyped DEF StartService
  <2>3. QED
    BY <1>1, <1>2, <2>2, NoToolTyped DEF StartService, TypeInv, TypeOK, chip
<1>3. CASE RunByHand
  <2>1. PICK verify \in BOOLEAN, reset \in BOOLEAN, only \in Selections,
             bus \in {BusSetting} \cup BusIds :
               \/ StartTool("hand", "program", verify, reset, only, bus)
               \/ StartTool("hand", "verify", TRUE, FALSE, only, bus)
    BY <1>3 DEF RunByHand
  <2>2. bus \in 0 .. Len(Buses) /\ only \in SUBSET Registers
    BY ClockChipAssumption, TableTypes DEF BusIds
  <2>3. tool' \in Tools /\ ReadInTable' /\ runs' \in 0 .. MaxRuns /\ UNCHANGED chip
    BY <1>1, <2>1, <2>2, StartTyped
  <2>4. QED
    BY <1>1, <1>3, <2>3 DEF RunByHand, TypeInv, TypeOK, chip
<1>4. CASE ToolStep
  BY <1>1, <1>4, ToolStepTyped
<1>5. CASE ServerStep
  BY <1>1, <1>5, ServerStepTyped
<1>6. CASE PowerCycle
  <2>1. tool' \in Tools /\ tool'.pc = "idle" /\ server' \in Servers
    BY <1>6, NoToolTyped DEF PowerCycle
  <2>2. regs' \in [Registers -> Bytes] /\ pointer' \in 0 .. Len(Table)
    BY <1>6, TableTypes DEF PowerCycle
  <2>3. QED
    BY <1>1, <1>6, <2>1, <2>2 DEF PowerCycle, TypeInv, TypeOK, ReadInTable
<1>7. CASE UNCHANGED vars
  BY <1>1, <1>7 DEF vars, chip, TypeInv, TypeOK, ReadInTable
<1>8. QED
  BY <1>1, <1>2, <1>3, <1>4, <1>5, <1>6, <1>7 DEF Next

\* Every reachable state has the shape TypeOK gives it.
THEOREM Typing == Spec => []TypeOK
<1>1. TypeInv => TypeOK
  BY DEF TypeInv
<1>2. QED
  BY <1>1, InitTyped, StepTyped, PTL DEF Spec

-------------------------------------------------------------------------------
(***************************************************************************)
(* The unit's state stands for the whole table                             *)
(***************************************************************************)
\* The entries before place n hold what the table says.
WrittenBefore(n) == \A r \in Registers : r < n => regs[r] = Table[r]

ServiceRun == tool.by = "service" /\ tool.pc # "idle"

\* clockchip.service always programs all of the table and reads each entry back.
ServiceRunIsFull ==
    ServiceRun =>
        tool.command = "program" /\ tool.verify /\ tool.only = Registers /\ tool.reset

\* While it runs, nothing says that the chip is in order.
ServiceRunAlone ==
    ServiceRun => service # "active" /\ ~server.active /\ server.result # "ok"

\* The entries behind it are written; and the one at hand is, once it is to be checked and
\* the run is on the chip's bus. On another bus the check fails, so the run does not get on.
ServiceRunProgress ==
    ServiceRun =>
        /\ tool.at # 0
        /\ tool.pc \in {"find", "found"} => tool.at = 1
        /\ tool.pc \in {"write", "check", "read"} => WrittenBefore(tool.at)
        /\ tool.pc \in {"check", "read"} /\ tool.at \in Registers /\ OnChip(tool.bus)
             => regs[tool.at] = Table[tool.at]
        /\ tool.at > 1 => OnChip(tool.bus)
        /\ tool.pc \in {"assert", "release"} => Programmed /\ tool.at > 1

\* The service did not leave the chip in reset.
NotLeft == in_reset # "service"

StateTells ==
    service = "active" \/ server.active \/ server.result = "ok" => Programmed /\ NotLeft

\* Why a collection may trust the unit's state; GateMeansProgrammed alone is not inductive.
GateInv == TypeInv /\ ServiceRunIsFull /\ ServiceRunAlone /\ ServiceRunProgress /\ StateTells

LEMMA InitGate == Init => GateInv
<1>1. SUFFICES ASSUME Init PROVE GateInv
  OBVIOUS
<1>2. ~ServiceRun /\ service # "active" /\ ~server.active /\ server.result # "ok"
  BY <1>1 DEF Init, ServiceRun, NoTool, NoCheck
<1>3. QED
  BY <1>1, <1>2, InitTyped DEF GateInv, ServiceRunIsFull, ServiceRunAlone, ServiceRunProgress, StateTells

\* A run's end tells the unit nothing but what the entries say.
LEMMA EndKeepsGate ==
    ASSUME GateInv, NEW result \in {"ok", "mismatch", "error"}, EndTool(result),
           UNCHANGED <<regs, server>>, result = "ok" /\ ServiceRun => Programmed /\ NotLeft',
           NotLeft => NotLeft', tool.pc # "idle"
    PROVE  ServiceRunIsFull' /\ ServiceRunAlone' /\ ServiceRunProgress' /\ StateTells'
<1>1. tool'.pc = "idle"
  BY DEF EndTool, GateInv, TypeInv, TypeOK, Tools
<1>2. ~ServiceRun' /\ (Programmed => Programmed')
  BY <1>1 DEF ServiceRun, Programmed
<1>3. service' = "active" => Programmed /\ NotLeft'
  BY DEF EndTool, GateInv, StateTells, ServiceRun, TypeInv, TypeOK, Tools
<1>4. StateTells'
  BY <1>2, <1>3 DEF StateTells, GateInv
<1>5. QED
  BY <1>2, <1>4 DEF ServiceRunIsFull, ServiceRunAlone, ServiceRunProgress

\* A step of a run that goes on.
LEMMA RunKeepsGate ==
    ASSUME GateInv, UNCHANGED <<service, server>>, Programmed => Programmed',
           tool'.by = tool.by, tool'.command = tool.command, tool'.verify = tool.verify,
           tool'.only = tool.only, tool'.reset = tool.reset, tool.pc # "idle",
           ServiceRun => ServiceRunProgress', NotLeft => NotLeft' \/ ServiceRun
    PROVE  ServiceRunIsFull' /\ ServiceRunAlone' /\ ServiceRunProgress' /\ StateTells'
<1>1. ServiceRun' => ServiceRun
  BY DEF ServiceRun
<1>2. ServiceRunProgress'
  BY <1>1 DEF ServiceRunProgress
<1>3. ServiceRunIsFull' /\ ServiceRunAlone'
  BY <1>1 DEF GateInv, ServiceRunIsFull, ServiceRunAlone
<1>4. StateTells'
  BY DEF GateInv, ServiceRunAlone, StateTells
<1>5. QED
  BY <1>2, <1>3, <1>4

LEMMA TryNextKeepsGate ==
    ASSUME GateInv, TryNextBus, UNCHANGED <<regs, in_reset, server>>, tool.pc \in {"find", "found"}
    PROVE  ServiceRunIsFull' /\ ServiceRunAlone' /\ ServiceRunProgress' /\ StateTells'
<1>1. CASE EndTool("error")
  BY <1>1, EndKeepsGate DEF NotLeft
<1>2. CASE tool' = [tool EXCEPT !.bus = BusAfter(tool.bus), !.pc = "find"] /\ UNCHANGED service
  <2>1. /\ tool'.by = tool.by /\ tool'.command = tool.command /\ tool'.verify = tool.verify
        /\ tool'.only = tool.only /\ tool'.reset = tool.reset /\ tool'.pc = "find" /\ tool'.at = tool.at
    BY <1>2 DEF GateInv, TypeInv, TypeOK, Tools
  <2>2. ServiceRun => ServiceRunProgress'
    BY <2>1 DEF GateInv, ServiceRun, ServiceRunProgress
  <2>3. Programmed => Programmed'
    BY DEF Programmed
  <2>4. QED
    BY <1>2, <2>1, <2>2, <2>3, RunKeepsGate DEF NotLeft
<1>3. QED
  BY <1>1, <1>2 DEF TryNextBus

\* Going on with the entry behind.
LEMMA NextEntryFields ==
    ASSUME TypeInv
    PROVE  /\ NextEntry.by = tool.by /\ NextEntry.command = tool.command
           /\ NextEntry.verify = tool.verify /\ NextEntry.only = tool.only /\ NextEntry.reset = tool.reset
           /\ NextEntry.bus = tool.bus
           /\ NextEntry.pc = FirstStep(tool.command) /\ NextEntry.at = tool.at + 1
BY DEF NextEntry, TypeInv, TypeOK, Tools

LEMMA ToolStepKeepsGate == GateInv /\ ToolStep => GateInv'
<1>1. SUFFICES ASSUME GateInv, ToolStep PROVE GateInv'
  OBVIOUS
<1>2. TypeInv /\ TypeInv'
  BY <1>1, ToolStepTyped DEF GateInv
<1>3. SUFFICES ServiceRunIsFull' /\ ServiceRunAlone' /\ ServiceRunProgress' /\ StateTells'
  BY <1>2 DEF GateInv
<1>4. /\ tool \in Tools /\ regs \in [Registers -> Bytes]
      /\ tool.at \in Nat /\ ReadInTable
  BY <1>2, TableTypes DEF TypeInv, TypeOK, Tools
<1>5. ServiceRun => FirstStep(tool.command) = "write"
  BY <1>1 DEF GateInv, ServiceRunIsFull, FirstStep
<1>6. CASE FindSelect
  <2>1. CASE Advance("found")
    <3>1. /\ tool'.by = tool.by /\ tool'.command = tool.command /\ tool'.verify = tool.verify
          /\ tool'.only = tool.only /\ tool'.reset = tool.reset /\ tool'.pc = "found" /\ tool'.at = tool.at
      BY <1>4, <2>1 DEF Advance, Tools
    <3>2. ServiceRun => ServiceRunProgress'
      BY <1>1, <1>6, <3>1 DEF FindSelect, GateInv, ServiceRun, ServiceRunProgress
    <3>3. QED
      BY <1>1, <1>6, <2>1, <3>1, <3>2, RunKeepsGate DEF NotLeft, FindSelect, Advance, Programmed
  <2>2. QED
    BY <1>1, <1>6, <2>1, TryNextKeepsGate DEF FindSelect
<1>7. CASE FindRead
  <2>1. CASE Advance(FirstStep(tool.command))
    <3>1. /\ tool'.by = tool.by /\ tool'.command = tool.command /\ tool'.verify = tool.verify
          /\ tool'.only = tool.only /\ tool'.reset = tool.reset /\ tool'.pc = FirstStep(tool.command) /\ tool'.at = tool.at
      BY <1>4, <2>1 DEF Advance, Tools
    <3>2. ASSUME ServiceRun PROVE ServiceRunProgress'
      <4>1. tool'.at = 1 /\ tool'.pc = "write"
        BY <1>1, <1>5, <1>7, <3>1, <3>2 DEF FindRead, GateInv, ServiceRunProgress
      <4>2. WrittenBefore(1)'
        BY TableTypes DEF WrittenBefore
      <4>3. QED
        BY <4>1, <4>2 DEF ServiceRunProgress
    <3>3. QED
      BY <1>1, <1>7, <2>1, <3>1, <3>2, RunKeepsGate DEF NotLeft, FindRead, Advance, Programmed, chip
  <2>2. QED
    BY <1>1, <1>7, <2>1, TryNextKeepsGate DEF FindRead, chip
<1>8. CASE SkipEntry
  <2>1. /\ tool'.by = tool.by /\ tool'.command = tool.command /\ tool'.verify = tool.verify
        /\ tool'.only = tool.only /\ tool'.reset = tool.reset
    BY <1>4, <1>8 DEF SkipEntry, Tools
  <2>2. tool.at \notin tool.only /\ (ServiceRun => tool.only = Registers)
    BY <1>1, <1>8 DEF SkipEntry, Included, GateInv, ServiceRunIsFull
  <2>3. ASSUME ServiceRun PROVE FALSE
    <3>1. tool.at # 0
      BY <1>1, <2>3 DEF GateInv, ServiceRunProgress
    <3>2. QED
      BY <1>4, <1>8, <2>2, <2>3, <3>1, TableTypes DEF SkipEntry
  <2>4. QED
    BY <1>1, <1>8, <2>1, <2>3, RunKeepsGate DEF NotLeft, SkipEntry, chip, Programmed
<1>9. CASE WriteEntry
  <2>1. tool.at \in Registers
    BY <1>4, <1>9, TableTypes DEF WriteEntry, Included, TypeInv, TypeOK, Tools
  <2>2. \A r \in Registers : regs[r] = Table[r] => regs'[r] = Table[r]
    BY <1>4, <1>9, <2>1 DEF WriteEntry
  <2>3. OnChip(tool.bus) => regs'[tool.at] = Table[tool.at]
    BY <1>4, <1>9, <2>1 DEF WriteEntry
  <2>4. /\ tool'.by = tool.by /\ tool'.command = tool.command /\ tool'.verify = tool.verify
        /\ tool'.only = tool.only /\ tool'.reset = tool.reset
    BY <1>2, <1>4, <1>9, NextEntryFields DEF WriteEntry, Tools
  <2>5. ASSUME ServiceRun PROVE ServiceRunProgress'
    <3>1. tool' = [tool EXCEPT !.pc = "check"]
      BY <1>1, <1>9, <2>5 DEF WriteEntry, GateInv, ServiceRunIsFull
    <3>2. tool'.pc = "check" /\ tool'.at = tool.at /\ tool'.bus = tool.bus
      BY <1>4, <3>1 DEF Tools
    <3>3. WrittenBefore(tool.at) /\ tool.at # 0
      BY <1>1, <1>9, <2>5 DEF WriteEntry, GateInv, ServiceRunProgress
    <3>4. WrittenBefore(tool.at)'
      BY <2>2, <3>2, <3>3 DEF WrittenBefore
    <3>5. tool.at > 1 => OnChip(tool.bus)
      BY <1>1, <2>5 DEF GateInv, ServiceRunProgress
    <3>6. QED
      BY <2>3, <3>2, <3>3, <3>4, <3>5 DEF ServiceRunProgress, OnChip
  <2>6. QED
    BY <1>1, <1>9, <2>2, <2>4, <2>5, RunKeepsGate DEF NotLeft, WriteEntry, Programmed
<1>10. CASE SelectEntry
  <2>1. /\ tool'.by = tool.by /\ tool'.command = tool.command /\ tool'.verify = tool.verify
        /\ tool'.only = tool.only /\ tool'.reset = tool.reset /\ tool'.pc = "read" /\ tool'.at = tool.at
        /\ tool'.bus = tool.bus
    BY <1>4, <1>10 DEF SelectEntry, Tools
  <2>2. ASSUME ServiceRun PROVE ServiceRunProgress'
    BY <1>1, <1>10, <2>1, <2>2
       DEF SelectEntry, GateInv, ServiceRunProgress, WrittenBefore, OnChip
  <2>3. QED
    BY <1>1, <1>10, <2>1, <2>2, RunKeepsGate DEF NotLeft, SelectEntry, Programmed
<1>11. CASE CheckEntry
  <2>1. tool.at \in Registers /\ tool.pc = "read" /\ UNCHANGED <<regs, in_reset, server>>
    BY <1>4, <1>11 DEF CheckEntry, ReadInTable, chip
  <2>2. CASE ByteRead(tool.bus) = Table[tool.at]
    <3>1. tool' = NextEntry /\ UNCHANGED service
      BY <1>11, <2>2 DEF CheckEntry
    <3>2. OnChip(tool.bus)
      BY <2>1, <2>2, TableTypes DEF ByteRead
    <3>3. ASSUME ServiceRun PROVE ServiceRunProgress'
      <4>1. tool'.pc = "write" /\ tool'.at = tool.at + 1 /\ tool'.bus = tool.bus
        BY <1>2, <1>5, <3>1, <3>3, NextEntryFields
      <4>2. WrittenBefore(tool.at) /\ regs[tool.at] = Table[tool.at]
        BY <1>1, <2>1, <3>2, <3>3 DEF GateInv, ServiceRunProgress
      <4>3. WrittenBefore(tool.at)'
        BY <1>4, <2>1, <4>1, <4>2 DEF WrittenBefore, Registers
      <4>4. QED
        BY <1>4, <3>2, <4>1, <4>3 DEF ServiceRunProgress, OnChip
    <3>4. QED
      BY <1>1, <1>2, <2>1, <3>1, <3>3, NextEntryFields, RunKeepsGate DEF NotLeft, Programmed
  <2>3. CASE EndTool("mismatch")
    BY <1>1, <2>1, <2>3, EndKeepsGate DEF NotLeft
  <2>4. QED
    BY <1>11, <2>2, <2>3 DEF CheckEntry
<1>12. CASE EntriesDone
  <2>1. ServiceRun => Programmed
    BY <1>1, <1>4, <1>12, TableTypes
       DEF EntriesDone, GateInv, ServiceRunProgress, WrittenBefore, Programmed
  <2>2. CASE tool.command = "program" /\ tool.reset
    <3>0. Advance("assert")
      BY <1>12, <2>2 DEF EntriesDone
    <3>1. /\ tool'.by = tool.by /\ tool'.command = tool.command /\ tool'.verify = tool.verify
          /\ tool'.only = tool.only /\ tool'.reset = tool.reset /\ tool'.pc = "assert" /\ tool'.at = tool.at
          /\ tool'.bus = tool.bus
      BY <1>4, <3>0 DEF Advance, Tools
    <3>2. Programmed => Programmed'
      BY <1>12 DEF EntriesDone, chip, Programmed
    <3>3. ServiceRun => ServiceRunProgress'
      BY <1>1, <1>4, <1>12, <2>1, <3>1, <3>2, TableTypes
         DEF EntriesDone, GateInv, ServiceRunProgress, OnChip
    <3>4. QED
      BY <1>1, <1>12, <3>0, <3>1, <3>2, <3>3, RunKeepsGate DEF NotLeft, EntriesDone, Advance, chip
  <2>3. CASE ~(tool.command = "program" /\ tool.reset)
    <3>1. EndTool("ok")
      BY <1>12, <2>3 DEF EntriesDone
    <3>2. ~ServiceRun
      BY <1>1, <2>3 DEF GateInv, ServiceRunIsFull
    <3>3. QED
      BY <1>1, <1>12, <3>1, <3>2, EndKeepsGate DEF NotLeft, EntriesDone, chip
  <2>4. QED
    BY <2>2, <2>3
<1>13. CASE AssertReset
  <2>1. /\ tool'.by = tool.by /\ tool'.command = tool.command /\ tool'.verify = tool.verify
        /\ tool'.only = tool.only /\ tool'.reset = tool.reset /\ tool'.pc = "release" /\ tool'.at = tool.at
        /\ tool'.bus = tool.bus
    BY <1>4, <1>13 DEF AssertReset, Advance, Tools
  <2>2. Programmed => Programmed'
    BY <1>13 DEF AssertReset, WriteReset, Programmed
  <2>3. ServiceRun => ServiceRunProgress'
    BY <1>1, <1>13, <2>1, <2>2 DEF AssertReset, GateInv, ServiceRunProgress, OnChip
  <2>4. QED
    <3>1. NotLeft => NotLeft' \/ ServiceRun
      BY <1>4, <1>13 DEF AssertReset, WriteReset, NotLeft, ServiceRun, Tools
    <3>2. QED
      BY <1>1, <1>13, <2>1, <2>2, <2>3, <3>1, RunKeepsGate DEF AssertReset, WriteReset, Advance
<1>14. CASE ReleaseReset
  <2>1. ServiceRun => Programmed /\ NotLeft'
    BY <1>1, <1>14 DEF ReleaseReset, WriteReset, GateInv, ServiceRunProgress, NotLeft
  <2>2. QED
    BY <1>1, <1>14, <2>1, EndKeepsGate DEF NotLeft, ReleaseReset, WriteReset
<1>15. CASE RunCut
  BY <1>1, <1>15, EndKeepsGate DEF NotLeft, RunCut, chip
<1>16. QED
  BY <1>1, <1>6, <1>7, <1>8, <1>9, <1>10, <1>11, <1>12, <1>13, <1>14, <1>15 DEF ToolStep

\* A check keeps what it saw of the unit; the registers are no concern of its.
LEMMA ServerStepKeepsGate == GateInv /\ ServerStep => GateInv'
<1>1. SUFFICES ASSUME GateInv, ServerStep PROVE GateInv'
  OBVIOUS
<1>2. TypeInv /\ TypeInv' /\ server \in Servers /\ tool \in Tools
  BY <1>1, ServerStepTyped DEF GateInv, TypeInv, TypeOK
<1>3. UNCHANGED <<regs, in_reset, service>>
  BY <1>1 DEF ServerStep, StartPreflight, CheckUnit, ProbeSelect, ProbeRead, chip
<1>4. /\ tool'.by = tool.by /\ tool'.command = tool.command /\ tool'.verify = tool.verify
      /\ tool'.only = tool.only /\ tool'.reset = tool.reset
      /\ tool'.pc = tool.pc /\ tool'.at = tool.at /\ tool'.bus = tool.bus
  BY <1>1, <1>2 DEF ServerStep, StartPreflight, CheckUnit, ProbeSelect, ProbeRead, chip, Tools
<1>5. ServiceRunIsFull' /\ ServiceRunProgress'
  BY <1>1, <1>3, <1>4 DEF GateInv, ServiceRunIsFull, ServiceRunProgress, ServiceRun, Programmed,
         WrittenBefore, OnChip
<1>6. ASSUME NEW found \in BOOLEAN, EndPreflight(found)
      PROVE  /\ server'.active = server.active
             /\ server'.result = "ok" => server.active
  BY <1>2, <1>6 DEF EndPreflight, Servers
<1>7. ASSUME ProbeNextBus
      PROVE  /\ server'.active = server.active
             /\ server'.result = "ok" => server.active \/ server.result = "ok"
  BY <1>2, <1>6, <1>7 DEF ProbeNextBus, Servers
<1>8. server'.active \/ server'.result = "ok" =>
        server.active \/ server.result = "ok" \/ service = "active"
  <2>1. CASE StartPreflight
    BY <2>1 DEF StartPreflight
  <2>2. CASE CheckUnit
    BY <1>2, <2>2 DEF CheckUnit, UnitActive, Servers
  <2>3. CASE ProbeSelect
    BY <1>2, <1>7, <2>3 DEF ProbeSelect, Servers
  <2>4. CASE ProbeRead
    BY <1>6, <1>7, <2>4 DEF ProbeRead
  <2>5. QED
    BY <1>1, <2>1, <2>2, <2>3, <2>4 DEF ServerStep
<1>9. StateTells'
  BY <1>1, <1>3, <1>8 DEF GateInv, StateTells, Programmed, NotLeft
<1>10. ServiceRunAlone'
  BY <1>1, <1>3, <1>4, <1>8 DEF GateInv, ServiceRunAlone, ServiceRun
<1>11. QED
  BY <1>2, <1>5, <1>9, <1>10 DEF GateInv

LEMMA StepKeepsGate == GateInv /\ [Next]_vars => GateInv'
<1>1. SUFFICES ASSUME GateInv, [Next]_vars PROVE GateInv'
  OBVIOUS
<1>2. TypeInv /\ TypeInv'
  BY <1>1, StepTyped DEF GateInv
<1>3. CASE StartService
  <2>1. /\ tool'.by = "service" /\ tool'.command = "program" /\ tool'.verify = TRUE
        /\ tool'.only = Registers /\ tool'.reset = TRUE /\ tool'.at = 1 /\ tool'.pc \in {"find", "write"}
    BY <1>3 DEF StartService, StartTool, FirstStep
  <2>2. ~server'.active /\ server'.result = "none" /\ service' # "active"
    BY <1>3 DEF StartService, NoCheck
  <2>3. WrittenBefore(tool.at)'
    BY <2>1, TableTypes DEF WrittenBefore
  <2>4. ServiceRunIsFull' /\ ServiceRunProgress'
    BY <2>1, <2>3 DEF ServiceRunIsFull, ServiceRunProgress, Registers
  <2>5. QED
    BY <1>2, <2>2, <2>4 DEF GateInv, ServiceRunAlone, StateTells
<1>4. CASE RunByHand
  <2>1. tool'.by = "hand" /\ UNCHANGED <<regs, in_reset, service, server>>
    BY <1>4 DEF RunByHand, StartTool, chip
  <2>2. StateTells'
    BY <1>1, <2>1 DEF GateInv, StateTells, Programmed, NotLeft
  <2>3. QED
    BY <1>2, <2>1, <2>2
       DEF GateInv, ServiceRunIsFull, ServiceRunAlone, ServiceRunProgress, ServiceRun
<1>5. CASE ToolStep
  BY <1>1, <1>5, ToolStepKeepsGate
<1>6. CASE ServerStep
  BY <1>1, <1>6, ServerStepKeepsGate
<1>7. CASE PowerCycle
  <2>1. ~ServiceRun' /\ service' # "active" /\ ~server'.active /\ server'.result # "ok"
    BY <1>7 DEF PowerCycle, ServiceRun, NoTool, NoCheck
  <2>2. QED
    BY <1>2, <2>1
       DEF GateInv, ServiceRunIsFull, ServiceRunAlone, ServiceRunProgress, StateTells
<1>8. CASE UNCHANGED vars
  BY <1>1, <1>2, <1>8 DEF vars, chip, GateInv, ServiceRunIsFull, ServiceRunAlone,
         ServiceRunProgress, ServiceRun, StateTells, Programmed, NotLeft, WrittenBefore, OnChip
<1>9. QED
  BY <1>1, <1>3, <1>4, <1>5, <1>6, <1>7, <1>8 DEF Next

\* A preflight that finds the clock chip in order means that the whole table is in it, and that
\* no run of the service was cut between the two writes of the reset, whatever runs by hand,
\* cut runs and power cycles came in between.
THEOREM GateIsSound == Spec => []GateMeansProgrammed
<1>1. GateInv => GateMeansProgrammed
  BY DEF GateInv, StateTells, NotLeft, GateMeansProgrammed
<1>2. QED
  BY <1>1, InitGate, StepKeepsGate, PTL DEF Spec

-------------------------------------------------------------------------------
(***************************************************************************)
(* What a run that ends is right about                                     *)
(***************************************************************************)
NoResultYet == tool.pc # "idle" => tool.result = "none"

\* Between the two transfers of a read, the pointer is where the run put it, or where a
\* preflight that disturbed the run put it.
PointerHeld ==
    tool.pc = "read" /\ OnChip(tool.bus) =>
        pointer = tool.at \/ (tool.at \in tool.disturbed /\ pointer = Sanity)

\* Only a run that programs writes, and it reads an entry back only after writing it.
ReadBackIsWritten ==
    /\ tool.pc = "write" => tool.command = "program"
    /\ tool.command = "program" /\ tool.pc \in {"check", "read"} =>
         /\ tool.at \in Registers /\ Included
         /\ OnChip(tool.bus) => regs[tool.at] = Table[tool.at]

\* The entries behind the one at hand were compared.
ComparedBefore ==
    tool.pc # "idle" /\ tool.verify => \A r \in tool.only : r < tool.at => ShownRight(r)

ResetComesLast == tool.pc \in {"assert", "release"} => tool.at > Len(Table)

RunInv ==
    /\ TypeInv
    /\ NoResultYet
    /\ PointerHeld
    /\ ReadBackIsWritten
    /\ ComparedBefore
    /\ ResetComesLast
    /\ OkRunIsRight
    /\ MismatchMeansShared

LEMMA InitRuns == Init => RunInv
<1>1. SUFFICES ASSUME Init PROVE RunInv
  OBVIOUS
<1>2. tool.pc = "idle" /\ tool.result = "none"
  BY <1>1 DEF Init, NoTool
<1>3. QED
  BY <1>1, <1>2, InitTyped DEF RunInv, NoResultYet, PointerHeld, ReadBackIsWritten,
     ComparedBefore, ResetComesLast, OkRunIsRight, MismatchMeansShared

\* A run that has just started, or none after a power cycle.
LEMMA NewRun ==
    ASSUME TypeInv', tool'.result = "none", tool'.pc \in {"idle", "find", "write", "check"},
           tool'.at <= 1, tool'.command = "program" => tool'.pc # "check",
           tool'.pc = "write" => tool'.command = "program"
    PROVE  RunInv'
<1>1. PointerHeld' /\ ReadBackIsWritten' /\ NoResultYet' /\ ResetComesLast'
  BY DEF PointerHeld, ReadBackIsWritten, NoResultYet, ResetComesLast
<1>2. ComparedBefore'
  BY TableTypes DEF ComparedBefore, TypeInv, TypeOK, Tools
<1>3. OkRunIsRight' /\ MismatchMeansShared'
  BY DEF OkRunIsRight, MismatchMeansShared
<1>4. QED
  BY <1>1, <1>2, <1>3 DEF RunInv

EndTells(result) ==
    /\ result = "ok" /\ tool.verify => \A r \in tool.only : ShownRight(r)
    /\ result = "ok" /\ tool.command = "program" /\ tool.reset /\ OnChip(tool.bus) => in_reset' = "no"
    /\ result = "mismatch" /\ tool.command = "program" /\ OnChip(tool.bus) =>
         tool.at \in tool.disturbed

\* A run's end, when its result tells what it should.
LEMMA EndKeepsRun ==
    ASSUME RunInv, TypeInv', NEW result \in {"ok", "mismatch", "error"}, EndTool(result),
           UNCHANGED regs, EndTells(result)
    PROVE  RunInv'
<1>1. /\ tool'.pc = "idle" /\ tool'.result = result
      /\ tool'.command = tool.command /\ tool'.verify = tool.verify /\ tool'.reset = tool.reset
      /\ tool'.only = tool.only /\ tool'.bus = tool.bus /\ tool'.disturbed = tool.disturbed
      /\ tool'.at = tool.at
  BY DEF EndTool, RunInv, TypeInv, TypeOK, Tools
<1>3. PointerHeld' /\ ReadBackIsWritten' /\ NoResultYet' /\ ResetComesLast' /\ ComparedBefore'
  BY <1>1 DEF PointerHeld, ReadBackIsWritten, NoResultYet, ResetComesLast, ComparedBefore
<1>4. OkRunIsRight'
  BY <1>1 DEF EndTells, OkRunIsRight, ShownRight, OnChip
<1>5. MismatchMeansShared'
  BY <1>1 DEF EndTells, MismatchMeansShared, OnChip
<1>6. QED
  BY <1>3, <1>4, <1>5 DEF RunInv

LEMMA ErrorKeepsRun ==
    ASSUME RunInv, TypeInv', EndTool("error"), UNCHANGED regs
    PROVE  RunInv'
BY EndKeepsRun DEF EndTells

SameRun ==
    /\ tool'.command = tool.command /\ tool'.verify = tool.verify /\ tool'.reset = tool.reset
    /\ tool'.only = tool.only /\ tool'.result = tool.result
    /\ tool.disturbed \subseteq tool'.disturbed

\* A step after which the run goes on on the bus that it is on or is yet to find.
LEMMA RunGoesOn ==
    ASSUME RunInv, TypeInv', SameRun, tool.pc # "idle", tool'.pc # "idle",
           PointerHeld', ReadBackIsWritten', ComparedBefore', ResetComesLast'
    PROVE  RunInv'
<1>1. tool'.result = "none"
  BY DEF RunInv, NoResultYet, SameRun
<1>2. NoResultYet' /\ OkRunIsRight' /\ MismatchMeansShared'
  BY <1>1 DEF NoResultYet, OkRunIsRight, MismatchMeansShared
<1>3. QED
  BY <1>2 DEF RunInv

\* The run looks for the chip, or has found it: it has touched no entry.
LEMMA FindingKeepsRun ==
    ASSUME RunInv, TypeInv', SameRun, UNCHANGED regs, tool.pc \in {"find", "found"},
           tool'.pc \in {"find", "found", FirstStep(tool.command)}, tool'.at = tool.at
    PROVE  RunInv'
<1>1. /\ tool'.pc \in {"find", "found", "write", "check"}
      /\ tool.command = "program" => tool'.pc # "check"
      /\ tool'.pc = "write" => tool.command = "program"
  BY DEF FirstStep
<1>2. ComparedBefore'
  BY <1>1 DEF RunInv, ComparedBefore, ShownRight, SameRun
<1>3. PointerHeld' /\ ReadBackIsWritten' /\ ResetComesLast'
  BY <1>1 DEF PointerHeld, ReadBackIsWritten, ResetComesLast, SameRun
<1>4. QED
  BY <1>1, <1>2, <1>3, RunGoesOn

LEMMA TryNextKeepsRun ==
    ASSUME RunInv, TypeInv', TryNextBus, UNCHANGED regs, tool.pc \in {"find", "found"}
    PROVE  RunInv'
<1>1. CASE EndTool("error")
  BY <1>1, ErrorKeepsRun
<1>2. CASE tool' = [tool EXCEPT !.bus = BusAfter(tool.bus), !.pc = "find"] /\ UNCHANGED service
  <2>1. SameRun /\ tool'.pc = "find" /\ tool'.at = tool.at
    BY <1>2 DEF SameRun, RunInv, TypeInv, TypeOK, Tools
  <2>2. QED
    BY <2>1, FindingKeepsRun
<1>3. QED
  BY <1>1, <1>2 DEF TryNextBus

\* The entry at hand is done with: it need not be compared, or is right as far as a read tells.
LEMMA NextEntryKeepsRun ==
    ASSUME RunInv, TypeInv', UNCHANGED regs, tool.at \in Registers,
           tool'.at = tool.at + 1, tool'.pc = FirstStep(tool.command), SameRun, tool.pc # "idle",
           tool.verify /\ Included => ShownRight(tool.at)
    PROVE  RunInv'
<1>1. tool'.pc \in {"write", "check"} /\ (tool.command = "program" <=> tool'.pc = "write")
  BY DEF FirstStep
<1>2. PointerHeld' /\ ReadBackIsWritten' /\ ResetComesLast'
  BY <1>1 DEF RunInv, PointerHeld, ReadBackIsWritten, ResetComesLast, SameRun
<1>3. ComparedBefore'
  <2>1. ASSUME tool.verify, NEW r \in tool.only, r < tool.at + 1
        PROVE  ShownRight(r)
    <3>1. r \in Nat /\ tool.at \in Nat
      BY TableTypes DEF RunInv, TypeInv, TypeOK, Tools
    <3>2. CASE r < tool.at
      BY <2>1, <3>2 DEF RunInv, ComparedBefore
    <3>3. CASE r = tool.at
      BY <2>1, <3>3 DEF Included
    <3>4. QED
      BY <2>1, <3>1, <3>2, <3>3
  <2>2. QED
    BY <2>1 DEF ComparedBefore, ShownRight, SameRun
<1>4. QED
  BY <1>1, <1>2, <1>3, RunGoesOn

LEMMA WriteEntryKeepsRun ==
    ASSUME RunInv, TypeInv', WriteEntry
    PROVE  RunInv'
<1>1. tool \in Tools /\ regs \in [Registers -> Bytes] /\ TypeInv /\ tool.pc = "write"
  BY DEF RunInv, TypeInv, TypeOK, WriteEntry
<1>2. tool.at \in Registers /\ Included /\ tool.at \in Nat
  BY <1>1, TableTypes DEF WriteEntry, Included, Tools
<1>3. /\ \A r \in Registers : regs'[r] = regs[r] \/ regs'[r] = Table[r]
      /\ OnChip(tool.bus) => regs'[tool.at] = Table[tool.at]
  BY <1>1, <1>2 DEF WriteEntry
<1>5. CASE tool.verify
  <2>1. tool' = [tool EXCEPT !.pc = "check"]
    BY <1>5 DEF WriteEntry
  <2>2. SameRun /\ tool'.pc = "check" /\ tool'.at = tool.at /\ tool'.bus = tool.bus
    BY <1>1, <2>1 DEF SameRun, Tools
  <2>3. ReadBackIsWritten' /\ PointerHeld' /\ ResetComesLast'
    BY <1>2, <1>3, <2>2 DEF ReadBackIsWritten, PointerHeld, ResetComesLast, SameRun, Included, OnChip
  <2>4. ComparedBefore'
    <3>1. tool.only \subseteq Registers
      BY <1>1 DEF Tools
    <3>2. tool.command = "program" /\ tool'.command = "program"
      BY <1>1, <2>2 DEF RunInv, ReadBackIsWritten, SameRun
    <3>3. QED
      BY <1>1, <1>3, <2>2, <3>1, <3>2 DEF RunInv, ComparedBefore, ShownRight, SameRun
  <2>5. QED
    BY <1>1, <2>2, <2>3, <2>4, RunGoesOn
<1>6. CASE ~tool.verify
  <2>1. tool' = NextEntry
    BY <1>6 DEF WriteEntry
  <2>2. SameRun /\ tool'.pc = FirstStep(tool.command)
    BY <1>1, <2>1 DEF NextEntry, SameRun, Tools
  <2>3. /\ tool'.pc \in {"write", "check"} /\ (tool.command = "program" <=> tool'.pc = "write")
        /\ ~tool'.verify
    BY <1>6, <2>2 DEF FirstStep, SameRun
  <2>4. ReadBackIsWritten' /\ PointerHeld' /\ ResetComesLast' /\ ComparedBefore'
    BY <2>2, <2>3 DEF ReadBackIsWritten, PointerHeld, ResetComesLast, ComparedBefore, SameRun
  <2>5. QED
    BY <1>1, <2>2, <2>3, <2>4, RunGoesOn
<1>7. QED
  BY <1>5, <1>6

\* Of two equal bytes, the read one is the entry's own, or the sanity register's.
LEMMA CheckEntryKeepsRun ==
    ASSUME RunInv, TypeInv', CheckEntry
    PROVE  RunInv'
<1>1. tool \in Tools /\ regs \in [Registers -> Bytes] /\ TypeInv /\ tool.pc = "read"
  BY DEF RunInv, TypeInv, TypeOK, CheckEntry
<1>2. tool.at \in Registers /\ UNCHANGED regs
  BY <1>1 DEF CheckEntry, TypeInv, ReadInTable, chip
<1>3. OnChip(tool.bus) =>
        /\ pointer = tool.at \/ (tool.at \in tool.disturbed /\ pointer = Sanity)
        /\ ByteRead(tool.bus) = regs[pointer]
  BY <1>1, <1>2, TableTypes DEF RunInv, PointerHeld, ByteRead, Registers
<1>5. CASE ByteRead(tool.bus) = Table[tool.at]
  <2>1. tool' = NextEntry
    BY <1>5 DEF CheckEntry
  <2>2. OnChip(tool.bus)
    BY <1>2, <1>5, TableTypes DEF ByteRead
  <2>3. tool.command = "program" => regs[tool.at] = Table[tool.at]
    BY <1>1, <2>2 DEF RunInv, ReadBackIsWritten
  <2>4. ShownRight(tool.at)
    BY <1>1, <1>3, <1>5, <2>2, <2>3 DEF ShownRight, Tools
  <2>5. SameRun /\ tool'.at = tool.at + 1 /\ tool'.pc = FirstStep(tool.command)
    BY <1>1, <2>1 DEF NextEntry, SameRun, Tools
  <2>6. QED
    BY <1>1, <1>2, <2>4, <2>5, NextEntryKeepsRun
<1>6. CASE ByteRead(tool.bus) # Table[tool.at]
  <2>1. EndTool("mismatch")
    BY <1>6 DEF CheckEntry
  <2>2. tool.command = "program" /\ OnChip(tool.bus) => tool.at \in tool.disturbed
    BY <1>1, <1>3, <1>6 DEF RunInv, ReadBackIsWritten
  <2>3. EndTells("mismatch")
    BY <2>2 DEF EndTells
  <2>4. QED
    BY <1>2, <2>1, <2>3, EndKeepsRun
<1>7. QED
  BY <1>5, <1>6

\* At the end of the table, every included entry has been compared.
LEMMA AllCompared ==
    ASSUME RunInv, tool.pc # "idle", tool.at > Len(Table), tool.verify
    PROVE  \A r \in tool.only : ShownRight(r)
<1>1. \A r \in tool.only : r < tool.at
  BY TableTypes DEF RunInv, TypeInv, TypeOK, Tools
<1>2. QED
  BY <1>1 DEF RunInv, ComparedBefore

LEMMA ToolStepKeepsRun == RunInv /\ ToolStep => RunInv'
<1>1. SUFFICES ASSUME RunInv, ToolStep PROVE RunInv'
  OBVIOUS
<1>2. TypeInv /\ TypeInv' /\ tool \in Tools
  BY <1>1, ToolStepTyped DEF RunInv, TypeInv, TypeOK
<1>3. CASE FindSelect
  <2>1. CASE Advance("found")
    <3>1. SameRun /\ tool'.pc = "found" /\ tool'.at = tool.at
      BY <1>2, <2>1 DEF Advance, SameRun, Tools
    <3>2. QED
      BY <1>1, <1>2, <1>3, <3>1, FindingKeepsRun DEF FindSelect
  <2>2. QED
    BY <1>1, <1>2, <1>3, <2>1, TryNextKeepsRun DEF FindSelect
<1>4. CASE FindRead
  <2>1. CASE Advance(FirstStep(tool.command))
    <3>1. SameRun /\ tool'.pc = FirstStep(tool.command) /\ tool'.at = tool.at
      BY <1>2, <2>1 DEF Advance, SameRun, Tools
    <3>2. QED
      BY <1>1, <1>2, <1>4, <3>1, FindingKeepsRun DEF FindRead, chip
  <2>2. QED
    BY <1>1, <1>2, <1>4, <2>1, TryNextKeepsRun DEF FindRead, chip
<1>5. CASE SkipEntry
  <2>1. SameRun /\ tool'.pc = tool.pc /\ tool'.at = tool.at + 1 /\ tool'.bus = tool.bus
    BY <1>2, <1>5 DEF SkipEntry, SameRun, Tools
  <2>2. tool.command = "program" => tool.pc = "write"
    BY <1>1, <1>5 DEF SkipEntry, RunInv, ReadBackIsWritten
  <2>3. PointerHeld' /\ ReadBackIsWritten' /\ ResetComesLast'
    BY <1>1, <1>5, <2>1, <2>2
       DEF SkipEntry, RunInv, PointerHeld, ReadBackIsWritten, ResetComesLast, SameRun, chip
  <2>4. ComparedBefore'
    <3>1. \A r \in tool.only : r < tool.at + 1 => r < tool.at
      BY <1>2, <1>5, TableTypes DEF SkipEntry, Included, Tools
    <3>2. QED
      BY <1>1, <1>5, <2>1, <3>1 DEF SkipEntry, RunInv, ComparedBefore, ShownRight, SameRun, chip
  <2>5. QED
    BY <1>1, <1>2, <1>5, <2>1, <2>3, <2>4, RunGoesOn DEF SkipEntry
<1>6. CASE WriteEntry
  BY <1>1, <1>2, <1>6, WriteEntryKeepsRun
<1>7. CASE SelectEntry
  <2>1. /\ SameRun /\ tool'.pc = "read" /\ tool'.at = tool.at /\ tool'.bus = tool.bus
        /\ tool.pc = "check" /\ UNCHANGED regs
    BY <1>2, <1>7 DEF SelectEntry, SameRun, Tools
  <2>2. PointerHeld'
    BY <1>7, <2>1 DEF SelectEntry, Select, PointerHeld, OnChip
  <2>3. ReadBackIsWritten' /\ ResetComesLast' /\ ComparedBefore'
    BY <1>1, <2>1 DEF RunInv, ReadBackIsWritten, ResetComesLast, ComparedBefore, ShownRight, SameRun,
         Included, OnChip
  <2>4. QED
    BY <1>1, <1>2, <2>1, <2>2, <2>3, RunGoesOn
<1>8. CASE CheckEntry
  BY <1>1, <1>2, <1>8, CheckEntryKeepsRun
<1>9. CASE EntriesDone
  <2>1. tool.pc \in {"write", "check"} /\ tool.at > Len(Table) /\ UNCHANGED <<regs, in_reset>>
    BY <1>9 DEF EntriesDone, chip
  <2>2. CASE tool.command = "program" /\ tool.reset
    <3>1. Advance("assert")
      BY <1>9, <2>2 DEF EntriesDone
    <3>2. SameRun /\ tool'.pc = "assert" /\ tool'.at = tool.at
      BY <1>2, <3>1 DEF Advance, SameRun, Tools
    <3>3. PointerHeld' /\ ReadBackIsWritten' /\ ResetComesLast' /\ ComparedBefore'
      BY <1>1, <2>1, <3>2 DEF RunInv, PointerHeld, ReadBackIsWritten, ResetComesLast,
         ComparedBefore, ShownRight, SameRun
    <3>4. QED
      BY <1>1, <1>2, <2>1, <3>2, <3>3, RunGoesOn
  <2>3. CASE ~(tool.command = "program" /\ tool.reset)
    <3>1. EndTool("ok")
      BY <1>9, <2>3 DEF EntriesDone
    <3>2. EndTells("ok")
      BY <1>1, <2>1, <2>3, AllCompared DEF EndTells
    <3>3. QED
      BY <1>1, <1>2, <2>1, <3>1, <3>2, EndKeepsRun
  <2>4. QED
    BY <2>2, <2>3
<1>10. CASE AssertReset
  <2>1. SameRun /\ tool.pc = "assert" /\ tool'.pc = "release" /\ tool'.at = tool.at /\ UNCHANGED regs
    BY <1>2, <1>10 DEF AssertReset, WriteReset, Advance, SameRun, Tools
  <2>2. PointerHeld' /\ ReadBackIsWritten' /\ ResetComesLast' /\ ComparedBefore'
    BY <1>1, <2>1 DEF RunInv, PointerHeld, ReadBackIsWritten, ResetComesLast,
         ComparedBefore, ShownRight, SameRun
  <2>3. QED
    BY <1>1, <1>2, <2>1, <2>2, RunGoesOn
<1>11. CASE ReleaseReset
  <2>1. tool.pc = "release" /\ EndTool("ok") /\ UNCHANGED regs /\ (OnChip(tool.bus) => in_reset' = "no")
    BY <1>11 DEF ReleaseReset, WriteReset
  <2>2. tool.at > Len(Table)
    BY <1>1, <2>1 DEF RunInv, ResetComesLast
  <2>3. EndTells("ok")
    BY <1>1, <2>1, <2>2, AllCompared DEF EndTells
  <2>4. QED
    BY <1>1, <1>2, <2>1, <2>3, EndKeepsRun
<1>12. CASE RunCut
  BY <1>1, <1>2, <1>12, ErrorKeepsRun DEF RunCut, chip
<1>13. QED
  BY <1>1, <1>3, <1>4, <1>5, <1>6, <1>7, <1>8, <1>9, <1>10, <1>11, <1>12 DEF ToolStep

\* A preflight moves the pointer between a run's two transfers, and the run is then disturbed.
LEMMA ServerStepKeepsRun == RunInv /\ ServerStep => RunInv'
<1>1. SUFFICES ASSUME RunInv, ServerStep PROVE RunInv'
  OBVIOUS
<1>2. TypeInv /\ TypeInv' /\ server \in Servers /\ tool \in Tools
  BY <1>1, ServerStepTyped DEF RunInv, TypeInv, TypeOK
<1>3. UNCHANGED <<regs, in_reset>>
  BY <1>1 DEF ServerStep, StartPreflight, CheckUnit, ProbeSelect, ProbeRead, chip
<1>4. /\ SameRun /\ tool'.pc = tool.pc /\ tool'.at = tool.at /\ tool'.bus = tool.bus
      /\ tool.disturbed \subseteq tool'.disturbed
  <2>1. tool' = tool \/ tool' = [tool EXCEPT !.disturbed = @ \cup {tool.at}]
    BY <1>1 DEF ServerStep, StartPreflight, CheckUnit, ProbeSelect, ProbeRead
  <2>2. CASE tool' = tool
    BY <2>2 DEF SameRun
  <2>3. CASE tool' = [tool EXCEPT !.disturbed = @ \cup {tool.at}]
    BY <1>2, <2>3 DEF SameRun, Tools
  <2>4. QED
    BY <2>1, <2>2, <2>3
<1>5. \/ UNCHANGED pointer
      \/ pointer' = Sanity /\ (tool.pc = "read" => tool.at \in tool'.disturbed)
  <2>1. CASE ProbeSelect
    <3>1. CASE UNCHANGED pointer
      BY <3>1
    <3>2. CASE /\ Select(server.bus, Sanity)
               /\ tool' = IF tool.pc = "read" /\ OnChip(server.bus)
                          THEN [tool EXCEPT !.disturbed = @ \cup {tool.at}] ELSE tool
      BY <1>2, <3>2 DEF Select, Tools
    <3>3. QED
      BY <2>1, <3>1, <3>2 DEF ProbeSelect
  <2>2. CASE ~ProbeSelect
    BY <1>1, <2>2 DEF ServerStep, StartPreflight, CheckUnit, ProbeRead, chip
  <2>3. QED
    BY <2>1, <2>2
<1>6. NoResultYet' /\ ReadBackIsWritten' /\ ComparedBefore' /\ ResetComesLast'
  BY <1>1, <1>3, <1>4 DEF RunInv, NoResultYet, ReadBackIsWritten, ComparedBefore,
     ResetComesLast, ShownRight, SameRun, Included, OnChip
<1>7. PointerHeld'
  BY <1>1, <1>4, <1>5 DEF RunInv, PointerHeld, OnChip
<1>8. OkRunIsRight' /\ MismatchMeansShared'
  BY <1>1, <1>3, <1>4 DEF RunInv, OkRunIsRight, ShownRight, MismatchMeansShared, SameRun, OnChip
<1>9. QED
  BY <1>2, <1>6, <1>7, <1>8 DEF RunInv

LEMMA StepKeepsRun == RunInv /\ [Next]_vars => RunInv'
<1>1. SUFFICES ASSUME RunInv, [Next]_vars PROVE RunInv'
  OBVIOUS
<1>2. TypeInv /\ TypeInv' /\ tool \in Tools
  BY <1>1, StepTyped DEF RunInv, TypeInv, TypeOK
<1>3. ASSUME NEW by, NEW command \in {"program", "verify"}, NEW verify, NEW reset, NEW only, NEW bus,
             StartTool(by, command, verify, reset, only, bus)
      PROVE  RunInv'
  <2>1. /\ tool'.result = "none" /\ tool'.at = 1 /\ tool'.command = command
        /\ tool'.pc \in {"find", FirstStep(command)} /\ UNCHANGED regs
    BY <1>3 DEF StartTool, chip
  <2>2. /\ tool'.pc \in {"find", "write", "check"}
        /\ tool'.command = "program" => tool'.pc # "check"
        /\ tool'.pc = "write" => tool'.command = "program"
    BY <2>1 DEF FirstStep
  <2>3. QED
    BY <1>2, <2>1, <2>2, NewRun
<1>4. CASE StartService
  BY <1>3, <1>4 DEF StartService
<1>5. CASE RunByHand
  BY <1>3, <1>5 DEF RunByHand
<1>6. CASE ToolStep
  BY <1>1, <1>6, ToolStepKeepsRun
<1>7. CASE ServerStep
  BY <1>1, <1>7, ServerStepKeepsRun
<1>8. CASE PowerCycle
  <2>1. tool'.pc = "idle" /\ tool'.result = "none" /\ tool'.at = 0
    BY <1>8 DEF PowerCycle, NoTool
  <2>2. QED
    BY <1>2, <2>1, NewRun
<1>9. CASE UNCHANGED vars
  BY <1>1, <1>2, <1>9 DEF vars, chip, RunInv, NoResultYet, PointerHeld, ReadBackIsWritten,
     Included, ComparedBefore, ShownRight, ResetComesLast, OkRunIsRight, MismatchMeansShared
<1>10. QED
  BY <1>1, <1>4, <1>5, <1>6, <1>7, <1>8, <1>9 DEF Next

\* A run of clockchip_tool that ends well has every register that it wrote and compared as the
\* table has it; one that it only compared may instead be one whose read was disturbed while the
\* sanity register held the value looked for. A run that pulsed the reset leaves the chip out of
\* it. This is for every power-up content of the registers.
THEOREM OkIsRight == Spec => []OkRunIsRight
<1>1. RunInv => OkRunIsRight
  BY DEF RunInv
<1>2. QED
  BY <1>1, InitRuns, StepKeepsRun, PTL DEF Spec

\* On the chip, only a preflight between the two transfers of verify_register makes a run that
\* programs end with a mismatch.
THEOREM MismatchIsShared == Spec => []MismatchMeansShared
<1>1. RunInv => MismatchMeansShared
  BY DEF RunInv
<1>2. QED
  BY <1>1, InitRuns, StepKeepsRun, PTL DEF Spec

===============================================================================
