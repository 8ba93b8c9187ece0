# A TLA+ model of DAPHNE slow control

DAPHNE is a detector read-out board. This project models the software of this
repository that configures and supervises its analogue front ends (AFEs): the Rust
server on the board's Linux side, the real-time runtime (RPU) that owns the AFE
hardware, and the OPC UA bridge that polls the boards. Paths below are relative to the
repository.

## 1. The system

```
 OPC UA client --> opcua-bridge --ZMQ--> daphne-sc-server --RPMsg--> daphne-sc-rpu --> AFEs, DACs
   (browse,         poll workers          one request loop           one frame          SPI, MMIO
    methods)        server loop           preflight gate             interlock
```

One command travels like this. A ZMQ envelope reaches `router::run`. If its type is one of
those sent to the RPU, `LinuxPreflight::check` collects a dozen facts about the board, or
takes the status it collected less than a second ago. `handle_payload` validates the command
and, if the preflight is ready, gives it to `RpmsgAfeTransport`. That turns it into one or
more numbered frames and exchanges them, one reply for each frame, with the RPU. The RPU
refuses everything but a status query unless its interlock is ready, stages the records of a
front-end configuration and writes them to the hardware on the Apply frame. The bridge, on
another machine, has one ZMQ client per board, shared between a poll worker and the OPC UA
server loop.

### Inventory

| component (source) | state | operations | what makes it correct |
|---|---|---|---|
| RPU runtime (`daphne-sc-rpu/src/lib.rs`) | heartbeat, interlock inputs, fault code, `ConfigState` | `handle_frame`, `set_interlock` | nothing is touched unless the interlock is ready; its counts agree with what the backend has staged |
| MMIO backend, DACs (`daphne-sc-rpu/src/mmio.rs`) | `StagedConfig`, trim and offset halves, cached attenuation, bias, VBIAS | stage, apply, DAC writes and readbacks | a configuration is applied as a whole or as a prefix; readbacks say what the DACs put out |
| MMIO backend, AFE registers (`mmio.rs`, `daphne-sc-core/src/afe_functions.rs`) | the AFE's registers and its readout mode | `read_register`, `write_register`, `write_afe_function`, reset, the functions of an apply | a field is written without its neighbours, and an answer is what the AFE holds |
| MMIO backend, alignment (`mmio.rs`) | delay and bit slip registers, VTC | `align_frontend` | the best delay is the middle of the widest run; VTC on again whatever happens |
| wire ABI (`daphne-sc-core/src/rpu_wire.rs`) | none | a command to its frames, encode, decode | consecutive numbers, never 0, one record for every slot |
| RPMsg transport (`daphne-sc-server/src/rpmsg.rs`) | next sequence, last fault, the device with what is still in it | `open`, `submit`, `status` | a success is the answer to this command and to no other |
| preflight gate (`preflight.rs`) | cached status and its time | `check` | fails closed; opens again by itself |
| router and handlers (`router.rs`, `handlers.rs`) | none between two requests | one request at a time | no path reaches the RPU around the gate |
| clock chip (`clockchip.rs`, `i2c.rs`, `clockchip_tool.rs`, `clockchip.service`) | the chip's registers and the pointer, the unit's state | program, verify, the preflight's probe | a gate that opens means the whole table is in the chip |
| status collector, endpoint | none | reads | |
| bridge: DAPHNE client (`daphne_client.cpp`) | message id, the socket with late replies in it | `Poll`, `Execute` | an answer goes to the request it answers |
| bridge: workers and server loop (`main.cpp`) | `pollersRunning`, `clientMutex`, `status`, `lastGoodStatus`, the OPC UA nodes | `daphnePollWorker`, `updateNodes`, `daphneMethodCallback`, `stopPollers` | no board starves another; the nodes of a board are of one poll; the loop serves; shutdown ends |
| bridge: power supply (`main.cpp`) | the open device, what is on its line | `poll`, `setOutput`, `setVoltage`, `setCurrent` | a reading is the answer to its own query |

What is hard in it: late replies on three links whose sender has given up (RPMsg, ZMQ, SCPI); a
multi-frame configuration that is interrupted, refused in part by the interlock, or torn by
a busy wait; facts about the board that change while they are collected and after; caches
that are written before the hardware; DAC words that carry a second channel's half; an AFE
whose words mean something else after a read that was cut; two processes that select and
read registers of one I2C chip; a scan whose runs touch either end; a mutex between a worker
and a server loop; and restarts of the processes while the hardware stays as it is.
`PROJECT.json` lists each of these hazards at its line, with the properties that watch it.

## 2. Modules

| module | models | role |
|---|---|---|
| `RpuRuntime` | runtime, interlock, staging, apply | open component: any frame at any time |
| `RequestAnswer` | what a caller of the transport may rely on | abstract specification |
| `AfeLink` | RPMsg transport, wire sequences, both queues, restarts; extends `RpuRuntime` and sends it its frames | composition of host and RPU; implements `RequestAnswer` and `RpuRuntime` |
| `PreflightGate` | router loop, gate, dispatch of handlers | the server above the transport |
| `AfeMmio` | DAC writes and caches behind the runtime's hardware calls | below `RpuRuntime` |
| `AfeRegisters` | the AFE's registers word by word, and the function table | below `RpuRuntime`, beside `AfeMmio` |
| `FrontendAlign` | the delay and bit slip scans, and the handler's read-back of them | below `RpuRuntime` |
| `ClockChip` | `clockchip_tool` and the preflight's probe on one chip | beside the server, below its gate |
| `Bridge` | client, workers, server loop, shutdown, with external board servers | above `PreflightGate`, over ZMQ |
| `PowerSupply` | the bridge's SCPI supply and its line | beside `Bridge`, in the same process |
| `AfeLink_proofs`, `PreflightGate_proofs`, `AfeMmio_proofs`, `AfeRegisters_proofs`, `FrontendAlign_proofs`, `ClockChip_proofs`, `Bridge_proofs`, `PowerSupply_proofs` | theorems and their proofs | each extends its module; the theorems of `RpuRuntime` are in `AfeLink_proofs` |
| `MC_*` | instances for TLC | |

The action names are the source's function names, or say which way out of a function is
taken. `PROJECT.json` maps every definition to its lines.
Definitions marked `Mutant:` are faulty variants of the definition that follows them. No
specification uses them; each one stands for a plausible bug, and the properties are tested by
putting it in the place of the right definition.

**RpuRuntime.** `HandleFrame` is one call of `handle_frame`, with one action for each way
through it: undecodable, status, interlocked, single operation, bad record, begin, the two
kinds of records accepted, anything out of order rejected, and four outcomes of Apply
(complete, torn, miscounted, rejected). An apply starts with the reset of all AFEs, which takes
their records back (`AfesAfterReset`), and then writes the slots in order. The contents of a record (trim, bias, gains) are
abstracted to its stamp, the value of the heartbeat when its frame was handled. That
is all the properties need to say whose record is where, and how old it is. Operations of a
single frame share no state with the staged configuration and are the op `Single`; what they
do is in `AfeMmio`, `AfeRegisters` and `FrontendAlign`. The interlock moves between any two
frames.

**RequestAnswer.** Requests, the frames the RPU has run, each known by its request and its place in
it, and answers; no numbers or queues. A request may end in a failure at any time and its frames may be
run later. But the frames of every request, the abandoned ones too, are run one after the other
from the first on, none twice and none after a later request's, and a success is told only
when the last frame of the request asked was the last one run.

**AfeLink.** One action for each step of `transact` and its error exits. RPMsg is external:
two FIFO queues that lose nothing; the RPU handles its queue at its own pace, so that a
reply may come after the host has given up. The host reads one message for each transaction
and never drains the device. Sequence numbers follow the u64 arithmetic of
`reserve_sequences` and of `status`, which differ, modulo `SequenceMax + 1`. `ServerRestarts` is a
new process that numbers from 1, over a device that keeps its unread replies or loses them.
History variables: `request` and `origin` tell whose frame was handled when, `place` which frame of
its request it was, and `sizes` how many frames each request has; `clean` tells
whether the link was empty when the number 1 was last given out. Where it was not, an old reply can carry a new
frame's number, and a request be answered success for it; so every statement
about a success has `clean` as its premise, and this is as much as the code keeps.

**PreflightGate.** `Receive` to `Answer` is one pass of the loop. A collection runs check by
check and the board changes between any two steps. The cache holds the collection and when
it ended. What a check reads (systemd, sysfs, I2C, endpoint registers) is external: it holds
or does not. `needs_preflight` and the dispatch of the handler are separate definitions, as
they are in the code. `Restart` loses everything but the board.

**AfeMmio.** A command is the list of writes it makes, in the code's order; each write is an
action with its outcomes: done, or a busy wait that runs out before or after the value has
reached the DAC. A bias staged as 0 has its place in the list and is passed over (`SkipBias`), so
that every record has as many entries as the next. That the channels of a configuration come in
slot order, and slots in the order of an AFE's channels, is an assumption on the constant
`Configurations`: `StagedConfig` is an array over channel ids, and `daphne-sc-core/src/afe.rs:50`
takes an id modulo `CHANNELS_PER_AFE` for the channel. A trim or offset word carries two halves, each with the address bits packed
by `afe_hw.rs` and the value; `SetByWord` says which outputs it sets. That the DAC obeys the
address bits is an assumption about a part that is not in the repository. `Restart` gives
new caches over hardware that stays.

**AfeRegisters.** The same form, one level lower: a command is the words that it sends to the
AFE's control register, with a busy wait before each of them that may run out. The AFE is external and has
two modes; a command that is cut between its trigger and its idle word leaves the next direct write
to be taken as an address. The trigger and the idle word are writes of register 0, and that
register is modelled as the code uses it: it is written in both modes and read out in neither, its bit
`REGISTER_READOUT_ENABLE` is the mode, and its bit `SOFTWARE_RESET` sets the registers to 0. A "read" of it
gives what the read port held before, and a function of register 0 is formed from
that: so a write of `REGISTER_READOUT_ENABLE` may also reset the AFE.
`AFE_FUNCTIONS` is the code's table by its bit fields; `mask` refuses the one field whose bits are the wrong
way round. Words are 16 bits wide, as in the code.

**FrontendAlign.** `ScanDelay` is one tap, `ScanSlip` one bit slip, `VerifyRead` one of the last
snapshots. The link of an AFE is external: an eye, a phase, and any words outside of the eye.
`best` and `current` are the two runs of the code's scan; `scanned` is the history that the
result is compared with. `ReadBack` is the handler, which leaves a failed read-back out of its
vectors.

**ClockChip.** One action for each I2C transfer. The tool, by the service or by hand, goes
through buses, table, read-backs and the two writes of the reset, and is cut anywhere. The
server's probe goes through the buses beside it. Each transfer of one may come between the
two of the other, because `read_register` is a write of the pointer and then a read. After power-up each
register holds a byte of its own (`Blank`). `in_reset` says whose run asserted the reset, and the
history `tool.disturbed` which registers a preflight selected over while they were read.

**Bridge.** A thread is at a place in its code and may hold a board's `clientMutex`. `Send`,
`ReceiveStale`, `ReceiveReply`, `SendTimesOut` and `ReceiveTimesOut` are `SendRequest`; the
stage says which request it is (snapshot, test register, general info, method). Board servers
are external: they answer in order and may lose a request. This repository's server copies the
message id into `correl_id`; the legacy C++ daphneServer (`opcua-bridge/README.md:116`) is not in the repository,
and the client takes a `correl_id` of 0 for an answer to whatever it asked (`daphne_client.cpp:371`), so
the boards of `Unnumbering` may leave it 0. `updateNodes` copies a board's statuses under `statusMutex`
(`CopyStatus`) and writes the nodes after the unlock (`PublishBoard`); a worker may store a poll in
between. The nodes are those of the registry's namespace that only a snapshot carries (`native`), those that the
legacy subset carries too (`shared`), the one that says which of the two made them (`snapshot`), and
those of the bridge's own legacy namespace (`legacy`), which are written with status Good and with the zeroes of a poll that
failed. `stopPollers` also joins the power supply's worker; its queries have deadlines
(`PowerSupply`) and it looks at the same flag, so it is no step here. The message
id is 64 bits wide in the code and `IdMax` wide here; an id is used again only when no message
on the link carries it, so reuse adds no behaviour. Fake and disabled boards send nothing and
are left out. `Status.Quality` says "Stale" for a part of the time in which the OPC UA status
code is Uncertain; only the status code is modelled.

**PowerSupply.** A poll is one query after the other, a query is `SendQuery` and then reads until
an end of line or the deadline. The supply is external: it answers in order, late or never, and
a reply comes in one piece or two. A reply carries the age of its query as history: this poll's, one since
the device was opened, or one from before. `late` is the history of the two cases that
the code cannot tell: a piece taken for a whole reply, and a reply that outlives the device
being closed and opened. Methods run between polls, as `powerClientMutex` has it; they read no
reply.

## 3. What TLC checks

| run | bounds | properties | states |
|---|---|---|---|
| `rpu_runtime` | 2 AFE slots, 1 channel slot, counts to 2, 2 fault codes, 8 frames | `RuntimeTypeOK`, `StagingAgreement`, `StagedSinceBegin`, `TornApplyIsPrefix`, `HardwareOnlyOnFullStage` | 386 k |
| `afe_link` | 1 AFE, 1 channel, 3 commands, 3 requests, 12 frames, numbers to 6, 1 restart | `TypeOK`, `FramesNumbered`, `SuccessIsCurrent`, `SuccessAfterOwnBegin`, `RuntimeSpec`, `Promised`, `RequestsEnd` | 464 k |
| `preflight_gate` | 2 checks, TTL 2, 4 ticks, 2 read-backs | `TypeOK`, `SubmitOnlyChecked`, `RejectOnlySick` | 783 k |
| `afe_mmio` | 2 AFEs, 2 outputs a DAC, 1-bit values, 2 configurations, 2 commands | `TypeOK`, `CachesSound`, `CompletedWriteHolds`, `BiasOnAtAskedValue` | 329 k |
| `afe_registers` | 5 functions (2 of register 0), 2 values, 2 direct writes, 3 profiles; no bound on the number of commands | `TypeOK`, `OkMeansWritten`, `FailedApplyIsPrefix`, `OnlyOwnField` | 1749 k |
| `frontend_align` | 2 AFEs, 5 taps, 2 slips, 1 verifying read | `TypeOK`, `DelayIsMiddleOfLongestRun`, `AlignedInEye`, `VtcOnAgain`, `FullAnswerIsByAfe` | 1762 k |
| `clock_chip` | 3 registers, 2 buses, 4 selections, 3 runs of the tool | `TypeOK`, `GateMeansProgrammed`, `OkRunIsRight`, `MismatchMeansShared` | 342 k |
| `bridge` | 1 board that may leave replies unnumbered, 1 worker, 2 ids, 1 method call | `TypeOK`, `AnswersAreOwn`, `NodesAreOfOnePoll`, `NoAnswerLost` | 878 k |
| `bridge_boards` | 2 boards on the legacy subset, 1 worker, no method call | `PollsGoOn`, `StopEnds` | 211 k |
| `power_supply` | a tty, 3 commands and pieces on the line; no bound on the number of polls | `TypeOK`, `OkPollIsOwn` | 281 k |

Why these bounds are enough:

- `rpu_runtime`: the shortest bad history of the staging area is Begin, two records (two
  slots, or one slot twice), a torn Apply and a second Begin with its records. That is seven
  frames. A second AFE slot is what makes "the same slot twice" differ from "two slots"; more
  slots add no case. For every value of the bounds there is the proof.
- `afe_link`: three requests are an abandoned one, one that meets its remains, and one that
  shows what they did to it. Twelve frames are three configurations of four frames. Six numbers
  are two more than the longest command needs, so that a command meets the end of the number
  space at every distance, and a status query steps over it. One restart is an old process
  and a new one; most of the properties are proved for any number of them.
- `preflight_gate`: the time between two collections, a hit and an expiry fit into four
  ticks with a TTL of two; two checks are needed for one to change while the other is read.
- `afe_mmio`: two outputs a DAC give one that an unset half hits and one that it does not; a
  second AFE shows that writes stay in their own. Two commands, with restarts between and
  inside them, give an old cache and its next use.
- `afe_registers`: two functions of one register, with the neighbours a profile writes, and the
  malformed one, and both functions of register 0; a value that the table allows one of them and not the other,
  and one for both. One direct write sets every bit of a register, the other resets the AFE. Three profiles: all good, and bad in the middle and near the end.
- `frontend_align`: with five taps there are runs of one length at either end and in the
  middle, and eyes wide and narrow. Of two AFEs one may fail before or behind the other. Two slips
  are one that fits and one that does not.
- `clock_chip`: one register whose value is its own, one whose value is the sanity register's
  (as three of the code's table are), and that register. The first and the last power up with each
  other's values, so that the byte of a wrong register can look right; the selections have
  the sanity register in them, leave it out, or are that register alone. Another device answers on the first
  bus. Three runs: one cut, one partial by hand, one more after a power cycle.
- `bridge`: the board's snapshots are measured and its `GeneralInfo` is zero, which tells an old good poll from a new
  one; two ids let a late reply meet a
  later request; a reply that came late is of an earlier stage, poll or method call, numbered or not. Two boards on one worker
  are the least for starvation, and for a worker that stops between two boards.
- `power_supply`: a query may be sent while a late reply in two pieces is still on the line. More on
  the line only puts the answers off by more than one. Four give 2958 k states and no error.

Deadlock is checked in every passing run but the bridge's two, in which it ends for good after
`stopPollers`. The other models never stop: the interlock, the board, a restart or the next
poll can always take a step.

### Fairness

- `AfeLink!FairSpec`: `WF(HostStep)`. The server is a loop in one process, `poll` returns at its
  timeout, and its write blocks on nothing modelled. Nothing is assumed of the RPU: a request
  must end even if it never answers.
- `Bridge!FairSpec`: weak fairness for each worker and for the server loop's own steps. Threads
  are scheduled and every receive has a deadline. Weak fairness is all that can be
  assumed of waiting for `clientMutex`: a `std::mutex` makes no promise to a waiter while
  others take it again and again. Nothing is assumed of the boards, the clients and the
  timer.

### Runs that refute a document

Each of these checks one sentence of the documentation and ends in a counterexample.

- `afe_link_applied` (`SuccessMeansConfigured`; `docs/rpu-wire-abi.md:67`): a request is given
  up after its records are staged; of the next one, Begin and the records are interlocked
  and Apply is not. It applies the old records and is a success, because
  `submit_afe_command` looks at the last reply only. With the Begin applied this cannot
  happen: `SuccessAfterOwnBegin` holds.
- `bridge_loop` (`LoopReturns`; `opcua-bridge/README.md:199`): a method call waits in the server
  loop for a mutex that a worker with a dead board keeps taking again.

### Known limits that the models show, without a run of their own

- A half is cached before its write; when the write times out the readback gives what was never
  put out (`PairCacheSound` has the exception; `docs/rpu-afe-boundary.md:23`).
- An unset companion half is sent as the number 0, and that names output 0. A configuration of
  channel 0 and of the last channel of the other DAC of the pair sets output 0 and sets it back
  to 0, and is answered Applied. `CompletedWriteHolds` holds for whole AFEs.
- After a restart over a device that was not empty, an old reply may pass for a new one
  (without `clean` in `SuccessIsCurrent` TLC finds it).
- After a command that was cut in readout mode the AFE takes the first direct write for an
  address, and the write is answered Applied with what the register held (`unsure` in
  `OkMeansWritten`).
- A `clockchip_tool verify` may end well with a wrong register: a preflight selects the sanity
  register between the two transfers of a read, and that holds the value asked for, as what powered up or as
  the table's own (`ShownRight`). A run that programs first has no such case.
- A late reply without a number passes for the answer to a later request of its type, where a server
  sends such replies (`Exempt`). A snapshot is safe, as it names its request inside.
- After a failed poll the nodes of the bridge's own namespace are Good and show zeroes, and after
  a fallback to the legacy subset the nodes only a snapshot carries keep what they showed, Good too.
- A write of `REGISTER_READOUT_ENABLE` may reset the AFE, as register 0 cannot be read back and what is
  written back to it is an old value of the read port.
- The server of this repository fills `GeneralInfo` with zeroes and the bridge publishes them as
  Good (`opcua-bridge/README.md:148`).
- A SCPI reply that was cut by the deadline, or that outlives its device, puts the
  answers off by one, in this poll and perhaps in the next ones (`late` in `OkPollIsOwn`).

## 4. What is proved

TLAPS proves these for every value of the constants (any number of slots, records, frames,
restarts, checks, outputs, taps, registers, buses, boards and workers, any TTL and any length of
a line), from the named assumptions `RuntimeAssumption`, `LinkAssumption`, `GateAssumption`,
`MmioAssumption`, `RegistersAssumption`, `AlignAssumption`, `ClockChipAssumption`,
`BridgeAssumption` and `PowerAssumption`. They say little more than that the constants are natural numbers, and that
commands and configurations are what the server's and the RPU's types let them be. Every
inductive invariant below was an invariant of the module's run before it was proved.

All safety invariants, action properties and refinements of the passing runs are theorems.

`AfeLink_proofs`, about `RuntimeSpec`, that is for frames in any order, whoever sends them:

- `RuntimeTyping`: `RuntimeSpec => []RuntimeTypeOK`.
- `RuntimeAgreement`: `RuntimeSpec => []StagingAgreement`, that is: the runtime's counts and the backend's staged
  slots agree. It is inductive together with `RuntimeTypeOK`; the argument is that one more slot
  raises the number of staged slots by one at most (`OneMoreSlot`), while the count is
  raised by exactly one.
- `OnlyStagedSinceBegin`, `TornPrefix`: from the inductive invariant `StagingInv`, which adds
  to the two properties that no stamp in the staging area or the hardware is ahead of the
  heartbeat (`StampsPast`). Without it a new record could be older than one already written.
  A torn apply keeps the staging area, and once the counts are complete no more records are
  accepted, so that the prefix written stays one until the next Begin, whose stamp is newer
  than all of it.
- `FullStage`: the action property `HardwareOnlyOnFullStage`, from the invariants above.

`AfeLink_proofs`, about the link, over the inductive invariant `LinkInv`, a conjunction of six parts:

- `NumberInv`: types, `FramesNumbered`, and that the numbers of a command are below the next one
  unless that has wrapped (`BelowNext`, without which the property is not inductive). From it
  `Numbered`, that is `Spec => []FramesNumbered`, for every number space that has room for the
  longest command.
- `InOrder`: unless the numbers began anew over what was left on the link, they rise along the
  replies and then the frames, and none is past the host's. A reply that carries the awaited
  number is then the last thing on the link (`NothingBehind`).
- `SenderInv`: the requests of the frames run, and of those still queued, never go back, and the ones
  of the request under way are as many as it has sent.
- `NewestReply` and `SuccessInv`: the last reply on the link is the RPU's last one, and a success
  found the link empty. From these `Current`, that is `Spec => []SuccessIsCurrent`.
- `FallenBehind`: once a reply is late nothing but a restart lets the link catch up
  (`BacklogStays`).
- `DrivesRuntime`: `Spec => RuntimeSpec`; every step of the link is a step of `RpuRuntime` or leaves it as it is,
  so that all of the above hold on the link.
- `KeepsPromise`: `Spec => Promised`, the refinement of `RequestAnswer`: the initial states map to
  initial states, and each action to a step or a stutter. The RPU's frames are mapped to pairs of request and
  place; that they come one after the other, each once, also those of an abandoned request, is
  the conjunct `IndexInv` of the invariant: along what was run and what is still queued each
  frame follows the one before it.
- `Typing`: `Spec => []TypeOK`. The types of the RPU's half are not proved again: they are
  `RuntimeTyping`, with `DrivesRuntime` for its premise (`RuntimeTyped`). The senders on the
  link are known requests because of `SenderInv`.
- `OwnBegin`: `Spec => []SuccessAfterOwnBegin`. What the link says (`LinkInv`) is too little: the
  property is about records two queues away from the host. `PlaceInv` ties the RPU to the host's
  place in its command: what is left to send is the rest of the command, the newest frame on the
  link is the one waited for, and after one matching reply the two go in step. `StagingOwn` says what
  the RPU then has staged: the counts of this request's Begin, and no more records counted than this
  request sent. Equality means that each of its slots holds its own record. Records may be fewer, when
  the interlock refused some; but Apply wants all that were announced, so the one that is
  accepted writes this request's records and no others.

`PreflightGate_proofs`, over the inductive invariant `GateInv`:

- every result in a status, the cached one too, was true of the board at some time since its
  collection began (`Witnessed`). This survives changes of the board because `changed`
  remembers the last one;
- a cached status is complete, and a request that needs the preflight reaches its handler
  with a complete status that is young enough (`Gated`).
- From it: `SubmitChecked`, `RejectSick`, and `SuccessReady`: an AFE command or status query that is
  answered success had every check passed, and a command was submitted (`SuccessMeansReady`).
- `Typing`: `Spec => []TypeOK`. That an alignment makes no more submits than its command and its
  read-backs is not inductive; that submits and read-backs left add up (`SubmitsCounted`) is.

`docs/preflight-contract.md:3` asks that the prerequisites be healthy before a command is sent, and
knows no cache. With the code's cache a prerequisite may have been failing for up to one TTL
when a command passes; `SubmitOnlyChecked` states exactly that much, and no more can be promised.

`FrontendAlign_proofs`, over `ScanInv` and `AlignInv`:

- `ScanInv`: `current` is the run that ends at the tap scanned last and cannot be made longer to
  the left, and `best` is the first longest run behind it (`ScanSoFar`). From it `Typing`, `DelayIsBest` and `VtcIsOnAgain`.
- `AlignInv`: each AFE the alignment is through with and whose eye is wide is in place. A run
  that contains an eye of more than half of the taps is the longest one, and its middle is in the
  eye although words outside may make it longer (`MiddleInEye`); there some slip rotates the word into the expected
  one (`SomeSlipMatches`). From it `WideEyesAlign`, and `FullAnswer` for the handler's vectors.

`ClockChip_proofs`:

- `Typing`, and `GateIsSound` from `GateInv`: while the unit is active the chip holds
  the table. Only a run of the service makes it active, and that is always a full one; it gets past an entry
  only on the chip's own bus, since on another the read-back fails (`ServiceRunProgress`). What later
  runs write is the table's, and a power cycle ends the unit too. Nor was a service run cut in the
  reset, which only a run by hand can be while the unit is active.
- `OkIsRight` and `MismatchIsShared` from `RunInv`: between the two transfers of a read the pointer is
  where the run put it, or at the sanity register, and then the history knows of the preflight
  (`PointerHeld`); an entry is read back only after it was written (`ReadBackIsWritten`), and
  the entries behind the one at hand compared equal, or to the sanity register's byte
  (`ComparedBefore`). This is for every content the registers may power up with. The reset comes last, so that no
  run that ends well leaves the chip in it.

`AfeMmio_proofs`, over one inductive invariant, `MmioInv`:

- a cached half is unset or names its own channel (`HalvesOwn`), so that a word sets the channel's output
  and its companion's, or output 0 of the other DAC. Channels and companions are of different DACs
  (`Companions`), which is what makes `PairCacheSound` inductive. `CachesFollow` is that and the single
  outputs, where VBIAS is behind its cache only between the DAC and the enable register
  (`ScalarInv`, `EnableInv`).
- `BiasAsAsked`, the action property, from `EnableInv`: the entry that enables stands behind the one
  that sets the DAC, with the same value.
- `AppliedHolds`: `Spec => []CompletedWriteHolds`. In the middle of a command it does not hold: the
  unset halves of high channels put output 0 to 0 while the low ones are written. `Progress` says why the end
  is right: each channel asked for has its write to come, or is as asked with its half cached and no
  write to it or to a lower channel to come (`Settled`). A write then disturbs no settled channel, as its companion's
  half is unset only when the companion's own write is to come. This needs the order
  of the channels (`InChannelOrder`), which is the order in which the code walks them.
- `Typing`: among the rest, every entry of the lists that `WholeBoard` and `ApplyWrites` make by
  arithmetic on the index is a write of an AFE and a channel that exist.

`AfeRegisters_proofs`, over one inductive invariant, `RegistersInv`:

- `OnlyOwnFields`, `OkIsWritten`, `FailedIsPrefix` and `Typing`, one for each property of the run. They
  hold for any functions of the table, any 16-bit values and direct writes, and any
  set of staged records. The functions of register 0 are where neighbours do change: `OnlyOwnField` lets
  a command that writes register 0, beside a reset and an apply, put all registers to 0, and no other.
- `Underway` is the heart of it. A command is known by the number of steps it has taken: `RestFrom` is
  what it has left to do, `At` what the steps taken have brought about. A read is so many words in, with the
  AFE in the mode that goes with them (`Reading`); the second word of a read of register 0 ends the mode; a field to write has been read, formed, sent
  or read back (`WritingAt`); the fields before it hold their values, and in an apply the fields
  behind it are 0 since the reset (`Contents`). A word on its way is still the register it goes
  to with one of its command's fields replaced (`WordOnWay`): nothing sets that register between the read and the
  write. Without these no property is inductive. That a write leaves its neighbours alone depends
  on a value that was read some words earlier.
- A command that is cut between a read's trigger and its idle word leaves the AFE in readout mode, and the
  next direct write is then taken for an address. `unsure` remembers this until a command is
  answered ok, and what is said about contents is said while it is false. An apply begins with the reset
  that ends such a state, so it is never unsure (`Types`).
- Words are sums: `Replace` takes a word apart into what is above a field, the field and what is below
  it, and puts it together with another field (`IsSum`). The powers of two are
  a table (`Pow2`), since the provers know nothing of `^`. That the fields of one register are apart is
  checked entry by entry (`TableApart`).
- The steps of an apply are found by arithmetic on the index, 14 to a field.

`Bridge_proofs`, over `BridgeInv`:

- `OwnAnswers` and `NoReplyTaken`, for any set of servers that leave replies unnumbered: a board's mutex is held by the thread that sends or waits there, and by
  that one only (`MutexHeld`). What carries the awaited id on a board's link is of the request under
  way (`AwaitedIsCurrent`); a new id is on no message of the link.
- `OnePoll`: `Spec => []NodesAreOfOnePoll`. A status that is good is the last good one, present and equal, in
  what the workers store and in the copies `updateNodes` writes from (`GoodRemembered`). Without it
  the value could be older than the quality. It says nothing of a poll stored
  after the copy: the nodes show that one at the next update.
- `Typing`.

`PowerSupply_proofs`, over `PowerInv`:

- `OkPollsAreOwn`: `Spec => []OkPollIsOwn`. The line, as one stream from what was read to what the supply
  has still to say, holds at most one reply since the device was opened, in one piece or two, and that is to the
  query under way (`LineInv`, `OneReply`); the supply has at most one query of that age (`OneCommand`), and then the
  stream has no reply of it. What is older comes first (`OldFirst`). The invariant is stated for a
  device that is open while `late` is false; the two cases that set `late` are those that no reader of the line
  can tell.
- `Typing`.

What is only model-checked, and why:

- `RequestsEnd`, `StopEnds`, `PollsGoOn`: liveness under fairness needs `ENABLED`, which is out of
  the prover's reach.
- The two runs that refute a document end in counterexamples, and have nothing to prove.

There are no recursive operators in any module.

## 5. What is not modelled, and why

- `set_reset` held down and `set_power_state`: what the AFE does then is not in the code.
  What register 0 does is not in the code either, beyond the names of its two functions and the words of the
  readout; what the model makes of it is external and stated at the head of `AfeRegisters`.
- Status collector, endpoint status: they read and reply, and keep nothing. The SMBus word reads
  of `i2c.rs` serve the collector.
- Sample by sample translation of a v8 snapshot, the OPC UA namespace, roles and login,
  configuration files: data without protocol.
- The values written to the power supply and their bounds, its fake and disabled modes, and
  what an unconfigured tty does to bytes.
- Register and DAC i/o itself does not fail, in the code or here; only busy waits do.
- `pollErrorCount`, diagnostics, texts of replies, `last_fault`, ages of readings: no decision depends on them.
- The schemas, the installer, smoke clients and the node reader.

`RpuRuntime::apply_command` (lib.rs:179) matches on every `RpuWireOp` but `ReadAlignment`, which
the wire ABI has, without a wildcard, so the crates of this commit do not build together. The
model takes such a frame for any other single operation, and `FrontendAlign` takes the answer to
it as external.

## 6. Plan

Done, in order of importance: 1. `RpuRuntime` and its proofs. 2. `AfeLink` with restarts, its
refinements of `RpuRuntime` and `RequestAnswer`, and their proofs. 3. `PreflightGate` and its
proofs. 4. `AfeMmio` and its proofs. 5. `Bridge` and its proofs. 6. `FrontendAlign` and its
proofs. 7. `ClockChip` and its proofs. 8. `AfeRegisters` and its proofs. 9. `PowerSupply` and its proofs.

Left:

1. The bridge's client as a second implementation of `RequestAnswer`, per board.
