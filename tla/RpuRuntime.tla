------------------------------ MODULE RpuRuntime ------------------------------
(***************************************************************************)
(* The real-time side of AFE slow control: RpuRuntime::handle_frame with   *)
(* its interlock and its ConfigState, and, behind the AfeHardware trait,   *)
(* the staging area of AfeMmioBackend (StagedConfig) and the front-end     *)
(* configuration the hardware holds.                                       *)
(*                                                                         *)
(* What a record says (attenuation, bias, trim, ...) is abstracted to its  *)
(* stamp: the value of the heartbeat counter when its frame was handled.   *)
(* A slot of the staging area, and a slot of the hardware, holds the stamp *)
(* of the record that was put there last, NoRecord (0) if none was.        *)
(*                                                                         *)
(* Single-frame operations (registers, DACs, reset, power, alignment,      *)
(* functions) neither read nor write the staged configuration; they are    *)
(* the op "Single" here and are not written into hw, which is the image    *)
(* left by ApplyConfigureFrontend alone, its own reset of the AFEs         *)
(* included.                                                               *)
(***************************************************************************)
EXTENDS Integers, FiniteSets

CONSTANTS
    AfeCount,      \* AFE slots of StagedConfig, 5 in the code
    ChannelCount,  \* channel slots of StagedConfig, 40 in the code
    MaxRecords,    \* largest record count of a Begin frame, 2^16 - 1 in the code
    Conditions,    \* the boolean inputs of the interlock
    FaultCodes,    \* fault codes of the safety loop, 0 for none
    SequenceMax,   \* largest sequence number, 2^64 - 1 in the code
    MaxFrames      \* bound: frames handled in a behaviour

ASSUME RuntimeAssumption ==
    /\ AfeCount \in Nat \ {0}
    /\ ChannelCount \in Nat \ {0}
    /\ MaxRecords \in Nat
    /\ MaxFrames \in Nat
    /\ FaultCodes \subseteq Nat
    /\ 0 \in FaultCodes
    /\ SequenceMax \in Nat \ {0}

AfeSlots == 0 .. AfeCount - 1
ChannelSlots == 0 .. ChannelCount - 1

NoRecord == 0

Counts == 0 .. MaxRecords

(***************************************************************************)
(* A command frame is its sequence number, which the runtime only copies   *)
(* into the reply, and what it commands. Begin announces the record        *)
(* counts, a record names the slot it fills. "BadRecord" is a Begin or a   *)
(* record with a value beyond 16 bits, or a record that names no slot;     *)
(* "Undecodable" is a frame that RpuWireCommand::decode refuses.           *)
(***************************************************************************)
Commands ==
    [op : {"Status", "Apply", "Single", "BadRecord", "Undecodable"}]
        \cup [op : {"Begin"}, afe_count : Counts, channel_count : Counts]
        \cup [op : {"ConfigureAfe"}, slot : AfeSlots]
        \cup [op : {"ConfigureChannel"}, slot : ChannelSlots]

Sequences == 1 .. SequenceMax

Frames == [sequence : Sequences, command : Commands]

Replies == [sequence : Sequences \cup {0},
            status : {"Applied", "Rejected", "Interlocked", "Fault"}]

VARIABLES
    heartbeat,      \* frames handled so far
    conditions,     \* the interlock inputs that are true
    fault_code,     \* the fault of the safety loop
    config_state,   \* RpuRuntime.config_state: what the runtime counts
    staged_config,  \* AfeMmioBackend.staged_config: what the backend stores
    hw,             \* the configuration in the hardware
    reply           \* the reply to the last frame

rpuVars == <<heartbeat, conditions, fault_code, config_state, staged_config, hw, reply>>

(***************************************************************************)
(* State                                                                   *)
(***************************************************************************)
Stamps == 0 .. MaxFrames

ConfigStates == [active : BOOLEAN, expected_afes : Counts, expected_channels : Counts,
                 received_afes : Counts, received_channels : Counts]

StagedConfigs == [active : BOOLEAN, begun : Stamps,
                  afe_count : Counts, channel_count : Counts,
                  afes : [AfeSlots -> Stamps], channels : [ChannelSlots -> Stamps]]

HwImages == [vbias : Stamps, afes : [AfeSlots -> Stamps], channels : [ChannelSlots -> Stamps]]

Idle == [active |-> FALSE, expected_afes |-> 0, expected_channels |-> 0,
         received_afes |-> 0, received_channels |-> 0]

\* Mutant: the slots are not cleared when a configuration begins.
KeepSlots(stamp, afe_count, channel_count) ==
    [active |-> TRUE, begun |-> stamp, afe_count |-> afe_count, channel_count |-> channel_count,
     afes |-> staged_config.afes, channels |-> staged_config.channels]

\* StagedConfig::new; begun is the stamp of the Begin frame, whose bias_control it keeps.
NewStaging(stamp, afe_count, channel_count) ==
    [active |-> TRUE, begun |-> stamp, afe_count |-> afe_count, channel_count |-> channel_count,
     afes |-> [a \in AfeSlots |-> NoRecord], channels |-> [c \in ChannelSlots |-> NoRecord]]

EmptyStaging ==
    [active |-> FALSE, begun |-> NoRecord, afe_count |-> 0, channel_count |-> 0,
     afes |-> [a \in AfeSlots |-> NoRecord], channels |-> [c \in ChannelSlots |-> NoRecord]]

\* RpuRuntime::new over AfeMmioBackend::new: every interlock input is false.
RuntimeInit ==
    /\ heartbeat = 0
    /\ conditions = {}
    /\ fault_code = 0
    /\ config_state = Idle
    /\ staged_config = EmptyStaging
    /\ hw = [vbias |-> NoRecord, afes |-> [a \in AfeSlots |-> NoRecord],
             channels |-> [c \in ChannelSlots |-> NoRecord]]
    /\ reply = [sequence |-> 0, status |-> "Rejected"]

(***************************************************************************)
(* Guards                                                                  *)
(***************************************************************************)
ReadyForAfe == conditions = Conditions /\ fault_code = 0

\* Mutant: one record more than announced is accepted.
HasAfeSlotInclusive ==
    config_state.active /\ config_state.received_afes <= config_state.expected_afes

HasAfeSlot == config_state.active /\ config_state.received_afes < config_state.expected_afes

HasChannelSlot ==
    config_state.active /\ config_state.received_channels < config_state.expected_channels

RecordsComplete ==
    /\ config_state.active
    /\ config_state.received_afes = config_state.expected_afes
    /\ config_state.received_channels = config_state.expected_channels

StagedAfes == {a \in AfeSlots : staged_config.afes[a] # NoRecord}
StagedChannels == {c \in ChannelSlots : staged_config.channels[c] # NoRecord}

\* Mutant: a slot named twice goes unnoticed because fewer slots than announced will do.
StagedCountsBounded ==
    /\ Cardinality(StagedAfes) <= staged_config.afe_count
    /\ Cardinality(StagedChannels) <= staged_config.channel_count

\* StagedConfig::validate_counts: as many distinct slots filled as Begin announced.
StagedCountsValid ==
    /\ Cardinality(StagedAfes) = staged_config.afe_count
    /\ Cardinality(StagedChannels) = staged_config.channel_count

(***************************************************************************)
(* Handlers. Each gives the reply's status and the new configuration       *)
(* state; HandleFrame adds what every frame does.                          *)
(***************************************************************************)
Answers(f, status) == reply' = [sequence |-> f.sequence, status |-> status]

Refuses(f, status) ==
    Answers(f, status) /\ UNCHANGED <<config_state, staged_config, hw>>

\* There is no sequence to copy: the reply carries 0, which no host frame has.
RejectUndecodable(f) ==
    /\ f.command.op = "Undecodable"
    /\ reply' = [sequence |-> 0, status |-> "Rejected"]
    /\ UNCHANGED <<config_state, staged_config, hw>>

\* Answered before the interlock is looked at.
AnswerStatus(f) ==
    /\ f.command.op = "Status"
    /\ Refuses(f, IF fault_code = 0 THEN "Applied" ELSE "Fault")

RefuseInterlocked(f) ==
    /\ f.command.op \notin {"Status", "Undecodable"}
    /\ ~ReadyForAfe
    /\ Refuses(f, "Interlocked")

\* A wrong target or function name is rejected; a hardware call fails on a busy bit that
\* never clears, a bad slot or a bad value.
RunSingle(f) ==
    /\ f.command.op = "Single"
    /\ ReadyForAfe
    /\ \E status \in {"Applied", "Rejected", "Fault"} : Refuses(f, status)

\* A value that does not fit is rejected before the runtime looks for room, a slot that
\* does not exist is found by the backend after that; neither is staged or counted.
RefuseBadRecord(f) ==
    /\ f.command.op = "BadRecord"
    /\ ReadyForAfe
    /\ \/ Refuses(f, "Rejected")
       \/ (HasAfeSlot \/ HasChannelSlot) /\ Refuses(f, "Fault")

BeginConfigureFrontend(f) ==
    /\ f.command.op = "Begin"
    /\ ReadyForAfe
    /\ staged_config' = NewStaging(heartbeat', f.command.afe_count, f.command.channel_count)
    /\ config_state' = [active |-> TRUE,
                        expected_afes |-> f.command.afe_count, expected_channels |-> f.command.channel_count,
                        received_afes |-> 0, received_channels |-> 0]
    /\ Answers(f, "Applied")
    /\ UNCHANGED hw

\* A second record for a slot replaces the first, and is counted like it.
ConfigureAfe(f) ==
    /\ f.command.op = "ConfigureAfe"
    /\ ReadyForAfe
    /\ HasAfeSlot
    /\ staged_config.active
    /\ staged_config' = [staged_config EXCEPT !.afes[f.command.slot] = heartbeat']
    /\ config_state' = [config_state EXCEPT !.received_afes = @ + 1]
    /\ Answers(f, "Applied")
    /\ UNCHANGED hw

ConfigureChannel(f) ==
    /\ f.command.op = "ConfigureChannel"
    /\ ReadyForAfe
    /\ HasChannelSlot
    /\ staged_config.active
    /\ staged_config' = [staged_config EXCEPT !.channels[f.command.slot] = heartbeat']
    /\ config_state' = [config_state EXCEPT !.received_channels = @ + 1]
    /\ Answers(f, "Applied")
    /\ UNCHANGED hw

RejectUnstaged(f) ==
    /\ ReadyForAfe
    /\ \/ f.command.op = "ConfigureAfe" /\ ~HasAfeSlot
       \/ f.command.op = "ConfigureChannel" /\ ~HasChannelSlot
       \/ f.command.op = "Apply" /\ ~RecordsComplete
    /\ Refuses(f, "Rejected")

(***************************************************************************)
(* AfeMmioBackend::apply_configure_frontend resets the AFEs, which leaves  *)
(* no record in them, then writes the staged channels in slot order, VBIAS *)
(* and the staged AFEs in slot order. HwAfter(done) is the image after the *)
(* first done of these steps; the power-up between them writes no record.  *)
(***************************************************************************)
ApplySteps == 1 + ChannelCount + 1 + AfeCount

\* do_reset: the registers of every AFE go back to their defaults; the DACs keep their outputs.
AfesAfterReset(done) == IF done = 0 THEN hw.afes ELSE [a \in AfeSlots |-> NoRecord]

\* Mutant: the AFEs are written before the channels and VBIAS.
HwAfterAfesFirst(done) ==
    [afes |-> [a \in AfeSlots |->
                 IF 1 + a < done /\ staged_config.afes[a] # NoRecord
                 THEN staged_config.afes[a] ELSE AfesAfterReset(done)[a]],
     channels |-> [c \in ChannelSlots |->
                     IF 1 + AfeCount + c < done /\ staged_config.channels[c] # NoRecord
                     THEN staged_config.channels[c] ELSE hw.channels[c]],
     vbias |-> IF 1 + AfeCount + ChannelCount < done THEN staged_config.begun ELSE hw.vbias]

HwAfter(done) ==
    [channels |-> [c \in ChannelSlots |->
                     IF 1 + c < done /\ staged_config.channels[c] # NoRecord
                     THEN staged_config.channels[c] ELSE hw.channels[c]],
     vbias |-> IF 1 + ChannelCount < done THEN staged_config.begun ELSE hw.vbias,
     afes |-> [a \in AfeSlots |->
                 IF 1 + ChannelCount + 1 + a < done /\ staged_config.afes[a] # NoRecord
                 THEN staged_config.afes[a] ELSE AfesAfterReset(done)[a]]]

ApplyConfigureFrontend(f) ==
    /\ f.command.op = "Apply"
    /\ ReadyForAfe
    /\ RecordsComplete
    /\ staged_config.active
    /\ StagedCountsValid
    /\ hw' = HwAfter(ApplySteps)
    /\ staged_config' = EmptyStaging
    /\ config_state' = Idle
    /\ Answers(f, "Applied")

\* Mutant: the runtime forgets its configuration whether or not the backend applied it.
ApplyTornForgets(f) ==
    /\ f.command.op = "Apply"
    /\ ReadyForAfe
    /\ RecordsComplete
    /\ staged_config.active
    /\ StagedCountsValid
    /\ \E done \in 0 .. ApplySteps : hw' = HwAfter(done)
    /\ config_state' = Idle
    /\ UNCHANGED staged_config
    /\ Answers(f, "Fault")

\* The reset, a write or the final power-up times out: the steps before it stay done,
\* nothing is rolled back and both staging areas stay active.
ApplyTorn(f) ==
    /\ f.command.op = "Apply"
    /\ ReadyForAfe
    /\ RecordsComplete
    /\ staged_config.active
    /\ StagedCountsValid
    /\ \E done \in 0 .. ApplySteps : hw' = HwAfter(done)
    /\ UNCHANGED <<config_state, staged_config>>
    /\ Answers(f, "Fault")

\* Two records named one slot: the runtime's counts are complete, the backend's are not.
ApplyMiscounted(f) ==
    /\ f.command.op = "Apply"
    /\ ReadyForAfe
    /\ RecordsComplete
    /\ ~(staged_config.active /\ StagedCountsValid)
    /\ Refuses(f, "Fault")

HandleFrame(f) ==
    /\ heartbeat < MaxFrames
    /\ heartbeat' = heartbeat + 1
    /\ \/ RejectUndecodable(f)
       \/ AnswerStatus(f)
       \/ RefuseInterlocked(f)
       \/ RunSingle(f)
       \/ RefuseBadRecord(f)
       \/ BeginConfigureFrontend(f)
       \/ ConfigureAfe(f)
       \/ ConfigureChannel(f)
       \/ RejectUnstaged(f)
       \/ ApplyConfigureFrontend(f)
       \/ ApplyTorn(f)
       \/ ApplyMiscounted(f)
    /\ UNCHANGED <<conditions, fault_code>>

\* RpuRuntime::set_interlock, called by the safety loop between two frames.
SetInterlock ==
    /\ conditions' \in SUBSET Conditions
    /\ fault_code' \in FaultCodes
    /\ UNCHANGED <<heartbeat, config_state, staged_config, hw, reply>>

\* A host that sends any frame at any time.
RuntimeNext == SetInterlock \/ \E f \in Frames : HandleFrame(f)

\* Whatever a link delivers, in whatever order and with whatever restarts of the host, is a
\* behaviour of this one; AfeLink has it as a property, so every invariant below holds there.
RuntimeSpec == RuntimeInit /\ [][RuntimeNext]_rpuVars

(***************************************************************************)
(* Properties                                                              *)
(***************************************************************************)
\* Every variable keeps the shape its Rust type and the bounds give it.
RuntimeTypeOK ==
    /\ heartbeat \in Stamps
    /\ conditions \subseteq Conditions
    /\ fault_code \in FaultCodes
    /\ config_state \in ConfigStates
    /\ staged_config \in StagedConfigs
    /\ hw \in HwImages
    /\ reply \in Replies

\* The runtime's ConfigState and the backend's StagedConfig describe one configuration:
\* both active or neither, the same counts, and never more slots filled than records
\* counted, nor more records counted than announced. They are reset in different places
\* (begin, apply, a failed apply), and configure_afe would fail without the agreement.
StagingAgreement ==
    /\ config_state.active = staged_config.active
    /\ config_state.expected_afes = staged_config.afe_count
    /\ config_state.expected_channels = staged_config.channel_count
    /\ Cardinality(StagedAfes) <= config_state.received_afes
    /\ config_state.received_afes <= config_state.expected_afes
    /\ Cardinality(StagedChannels) <= config_state.received_channels
    /\ config_state.received_channels <= config_state.expected_channels

\* A record accepted before the last accepted Begin is never staged: an abandoned or torn
\* configuration leaves nothing behind for the one that begins after it.
StagedSinceBegin ==
    /\ \A a \in StagedAfes : staged_config.active /\ staged_config.afes[a] > staged_config.begun
    /\ \A c \in StagedChannels :
          staged_config.active /\ staged_config.channels[c] > staged_config.begun

\* A torn apply leaves a prefix of its writes that later frames cannot widen: if an AFE
\* slot of the hardware holds a record of the configuration still staged, then all of its
\* records are in, its VBIAS is on, and every one of its channels is written.
TornApplyIsPrefix ==
    (\E a \in AfeSlots : staged_config.active /\ hw.afes[a] > staged_config.begun) =>
        /\ RecordsComplete
        /\ hw.vbias = staged_config.begun
        /\ \A c \in StagedChannels : hw.channels[c] = staged_config.channels[c]

\* docs/rpu-wire-abi.md:55-58: the hardware changes only with the interlock ready, with as
\* many distinct slots filled as Begin announced, every one of them since that Begin, and
\* after as many records as announced: the two counts that are kept apart agree then.
HardwareOnlyOnFullStage ==
    [][hw' # hw =>
         /\ conditions = Conditions /\ fault_code = 0
         /\ config_state.received_afes = Cardinality(StagedAfes)
         /\ Cardinality(StagedAfes) = staged_config.afe_count
         /\ config_state.received_channels = Cardinality(StagedChannels)
         /\ Cardinality(StagedChannels) = staged_config.channel_count
         /\ \A a \in StagedAfes : staged_config.afes[a] > staged_config.begun
         /\ \A c \in StagedChannels : staged_config.channels[c] > staged_config.begun]_rpuVars

===============================================================================
