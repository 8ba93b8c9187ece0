-------------------------------- MODULE AfeMmio --------------------------------
(***************************************************************************)
(* The DAC side of AfeMmioBackend: what SetTrim, SetOffset, SetAttenuation,*)
(* SetBias, SetVbiasControl and ApplyConfigureFrontend write to the DACs   *)
(* of the board, and the caches the read commands answer from.             *)
(*                                                                         *)
(* Trim and offset outputs hang in pairs of DACs: one word carries a half  *)
(* for a low channel (0 .. PerDac - 1) and one for a high channel, each    *)
(* half naming the output it is for. The backend keeps the last half of    *)
(* every channel and sends it along with its companion's next write.       *)
(*                                                                         *)
(* The RPU runs one command at a time. A command is the list of writes it  *)
(* makes, todo; the first one whose busy wait runs out ends the command.   *)
(* A DAC is external: it sets the output its half names.                   *)
(***************************************************************************)
EXTENDS Integers, Sequences

CONSTANTS
    AfeCount,       \* 5 in the code
    PerDac,         \* outputs of a trim or offset DAC, 4 in the code
    MaxValue,       \* largest DAC value, 4095 in the code
    Configurations, \* the staged configurations to apply
    BusyMayStick,   \* whether a busy wait can run out
    MaxCommands     \* bound: commands in a behaviour

Values == 0 .. MaxValue
Afes == 0 .. AfeCount - 1
Channels == 0 .. 2 * PerDac - 1
Banks == {"trim", "offset"}

\* The single outputs: attenuation and bias of each AFE, and VBIAS of the board.
Vbias == [name |-> "vbias", afe |-> 0]
Outputs == {[name |-> n, afe |-> a] : n \in {"attenuation", "bias"}, a \in Afes} \cup {Vbias}

(***************************************************************************)
(* A staged configuration: its channels in slot order with their trim and  *)
(* offset, VBIAS, and its AFEs in slot order with attenuation and bias.    *)
(* A channel's slot is its number on the board, and the slots of an AFE    *)
(* are numbered as its channels are.                                       *)
(***************************************************************************)
ASSUME MmioAssumption ==
    /\ AfeCount \in Nat \ {0}
    /\ PerDac \in Nat \ {0}
    /\ MaxValue \in Nat
    /\ BusyMayStick \in BOOLEAN
    /\ MaxCommands \in Nat
    /\ \A c \in Configurations :
         /\ c.channels \in Seq([afe : Afes, channel : Channels, trim : Values, offset : Values])
         /\ \A i, j \in 1 .. Len(c.channels) :
              i < j /\ c.channels[i].afe = c.channels[j].afe =>
                c.channels[i].channel < c.channels[j].channel
         /\ c.vbias \in Values
         /\ c.afes \in Seq([afe : Afes, attenuation : Values, bias : Values])

VARIABLES
    halves,        \* trim_halves and offset_halves
    cached,        \* attenuation, bias and vbias_control
    vbias_enabled, \* the cached enable
    pair_out,      \* the trim and offset outputs of the DACs
    dac_out,       \* the single outputs of the DACs
    bias_enable,   \* the BIAS_ENABLE register
    todo,          \* writes the running command has yet to make
    command,       \* history: the last command
    result,        \* "none" while a command runs, then "ok" or "timeout"
    commands,      \* commands so far
    pair_history,  \* history: whether the last write to an output timed out
    dac_history

caches == <<halves, cached, vbias_enabled>>
hardware == <<pair_out, dac_out, bias_enable>>
history == <<pair_history, dac_history>>
vars == <<caches, hardware, todo, command, result, commands, history>>

\* Mutant: the channel number is not masked to its address bits.
HalfUnmasked(channel, value) == [address |-> channel, value |-> value]

\* dac_trim_offset_half: the two address bits and the value, gain bit counted in.
Half(channel, value) == [address |-> channel % PerDac, value |-> value]

\* A half that was never set is the number 0, which names output 0.
UnsetHalf == [address |-> 0, value |-> 0]

Companion(channel) == IF channel < PerDac THEN channel + PerDac ELSE channel - PerDac

\* The output that a half sets when it stands where channel's half stands in the word.
OutputOf(channel, half) ==
    IF channel < PerDac THEN half.address ELSE PerDac + half.address

ForEachChannel(x) == [b \in Banks |-> [a \in Afes |-> [c \in Channels |-> x]]]

\* AfeMmioBackend::with_config, over DACs that hold anything: they keep their outputs
\* while the RPU restarts.
Init ==
    /\ halves = ForEachChannel(UnsetHalf)
    /\ cached = [o \in Outputs |-> 0]
    /\ vbias_enabled = FALSE
    /\ \E v \in Values : pair_out = ForEachChannel(v) /\ dac_out = [o \in Outputs |-> v]
    /\ bias_enable \in BOOLEAN
    /\ todo = <<>>
    /\ command = [op |-> "None"]
    /\ result = "ok"
    /\ commands = 0
    /\ pair_history = ForEachChannel("never")
    /\ dac_history = [o \in Outputs |-> "never"]

-------------------------------------------------------------------------------
(***************************************************************************)
(* The writes of a command, in the order in which it makes them            *)
(***************************************************************************)
PairWrite(b, a, c, v) == [kind |-> "pair", bank |-> b, afe |-> a, channel |-> c, value |-> v]

DacWrite(o, v) == [kind |-> "dac", output |-> o, value |-> v]

\* Mutant: the bias is switched on before its DAC is set.
EnableFirst(v, enable) ==
    <<[kind |-> "enable", value |-> v, enable |-> enable], DacWrite(Vbias, v)>>

\* write_vbias_control: the DAC, then the enable register.
VbiasWrites(v, enable) ==
    <<DacWrite(Vbias, v), [kind |-> "enable", value |-> v, enable |-> enable]>>

\* Mutant: the channels are written pair by pair.
WholeAfeByPairs(b, a, v) ==
    [i \in 1 .. 2 * PerDac |->
        PairWrite(b, a, (i - 1) \div 2 + (IF i % 2 = 0 THEN PerDac ELSE 0), v)]

\* write_channel_scalar for the target Afe.
WholeAfe(b, a, v) == [i \in 1 .. 2 * PerDac |-> PairWrite(b, a, i - 1, v)]

\* write_channel_scalar for the target All.
WholeBoard(b, v) ==
    [i \in 1 .. AfeCount * (2 * PerDac) |->
        WholeAfe(b, (i - 1) \div (2 * PerDac), v)[((i - 1) % (2 * PerDac)) + 1]]

\* apply_staged_channel
ChannelWrites(r) ==
    <<PairWrite("trim", r.afe, r.channel, r.trim), PairWrite("offset", r.afe, r.channel, r.offset)>>

\* apply_staged_afe: a bias of 0 is skipped; the registers of the AFE come last.
AfeWrites(r) ==
    <<DacWrite([name |-> "attenuation", afe |-> r.afe], r.attenuation),
      IF r.bias = 0 THEN [kind |-> "skip"] ELSE DacWrite([name |-> "bias", afe |-> r.afe], r.bias),
      [kind |-> "registers"]>>

AllChannelWrites(channels) ==
    [i \in 1 .. 2 * Len(channels) |-> ChannelWrites(channels[(i + 1) \div 2])[2 - (i % 2)]]

AllAfeWrites(afes) ==
    [i \in 1 .. 3 * Len(afes) |-> AfeWrites(afes[(i + 2) \div 3])[((i - 1) % 3) + 1]]

\* apply_configure_frontend; its reset and power-up wait for nothing and touch no DAC.
ApplyWrites(c) ==
    AllChannelWrites(c.channels) \o VbiasWrites(c.vbias, TRUE) \o AllAfeWrites(c.afes)

Start ==
    /\ todo = <<>>
    /\ commands < MaxCommands
    /\ commands' = commands + 1
    /\ result' = "none"
    /\ UNCHANGED <<caches, hardware, history>>

SetChannel(b, a, c, v) ==
    /\ Start
    /\ command' = [op |-> "SetChannel", bank |-> b, afe |-> a, channel |-> c, value |-> v]
    /\ todo' = <<PairWrite(b, a, c, v)>>

SetAfe(b, a, v) ==
    /\ Start
    /\ command' = [op |-> "SetAfe", bank |-> b, afe |-> a, value |-> v]
    /\ todo' = WholeAfe(b, a, v)

SetAll(b, v) ==
    /\ Start
    /\ command' = [op |-> "SetAll", bank |-> b, value |-> v]
    /\ todo' = WholeBoard(b, v)

\* write_scalar
SetScalar(name, a, v) ==
    /\ Start
    /\ command' = [op |-> "SetScalar", name |-> name, afe |-> a, value |-> v]
    /\ todo' = <<DacWrite([name |-> name, afe |-> a], v)>>

SetVbiasControl(v, enable) ==
    /\ Start
    /\ command' = [op |-> "SetVbiasControl", vbias |-> v, enable |-> enable]
    /\ todo' = VbiasWrites(v, enable)

ApplyConfigureFrontend(c) ==
    /\ Start
    /\ command' = [op |-> "Apply", vbias |-> c.vbias, config |-> c]
    /\ todo' = ApplyWrites(c)

-------------------------------------------------------------------------------
(***************************************************************************)
(* One write                                                               *)
(***************************************************************************)
Write == Head(todo)

Running(kind) == todo # <<>> /\ Write.kind = kind

Proceed ==
    /\ todo' = Tail(todo)
    /\ result' = IF Len(todo) = 1 THEN "ok" ELSE "none"
    /\ UNCHANGED <<command, commands>>

GiveUp ==
    /\ BusyMayStick
    /\ todo' = <<>>
    /\ result' = "timeout"
    /\ UNCHANGED <<command, commands>>

\* Mutant: the cached half lacks its address bits.
CacheHalfUnaddressed ==
    halves' = [halves EXCEPT ![Write.bank][Write.afe][Write.channel] =
                 [Half(Write.channel, Write.value) EXCEPT !.address = 0]]

\* The half is cached before anything is written.
CacheHalf ==
    halves' = [halves EXCEPT ![Write.bank][Write.afe][Write.channel] =
                 Half(Write.channel, Write.value)]

\* The outputs that the word sets: the channel's own, and the one its companion's half names.
SetByWord ==
    LET c == Write.channel
        own == halves'[Write.bank][Write.afe][c]
        other == halves'[Write.bank][Write.afe][Companion(c)]
    IN  [d \in {OutputOf(c, own), OutputOf(Companion(c), other)} |->
            IF d = OutputOf(c, own) THEN own.value ELSE other.value]

WritePair ==
    /\ pair_out' = [pair_out EXCEPT ![Write.bank][Write.afe] =
                      [c \in Channels |-> IF c \in DOMAIN SetByWord THEN SetByWord[c] ELSE @[c]]]
    /\ UNCHANGED <<cached, vbias_enabled, dac_out, bias_enable, dac_history>>

PairDone ==
    /\ Running("pair")
    /\ CacheHalf
    /\ WritePair
    /\ pair_history' = [pair_history EXCEPT ![Write.bank][Write.afe] =
                          [c \in Channels |-> IF c \in DOMAIN SetByWord THEN "written" ELSE @[c]]]
    /\ Proceed

MarkPair == pair_history' = [pair_history EXCEPT ![Write.bank][Write.afe][Write.channel] = "timeout"]

\* The wait before the write runs out.
PairNotWritten ==
    /\ Running("pair")
    /\ CacheHalf
    /\ UNCHANGED <<hardware, cached, vbias_enabled, dac_history>>
    /\ MarkPair
    /\ GiveUp

\* The wait after the write runs out.
PairWrittenLate ==
    /\ Running("pair")
    /\ CacheHalf
    /\ WritePair
    /\ MarkPair
    /\ GiveUp

SetDac == dac_out' = [dac_out EXCEPT ![Write.output] = Write.value]

\* The caller remembers the value; write_vbias_control does so after the enable register.
DacDone ==
    /\ Running("dac")
    /\ SetDac
    /\ IF Write.output = Vbias
       THEN UNCHANGED <<cached, dac_history>>
       ELSE /\ cached' = [cached EXCEPT ![Write.output] = Write.value]
            /\ dac_history' = [dac_history EXCEPT ![Write.output] = "written"]
    /\ UNCHANGED <<halves, vbias_enabled, pair_out, bias_enable, pair_history>>
    /\ Proceed

\* A wait of write_dac_route runs out, before or after the conversion is triggered.
DacTimesOut ==
    /\ Running("dac")
    /\ SetDac \/ UNCHANGED dac_out
    /\ dac_history' = [dac_history EXCEPT ![Write.output] = "timeout"]
    /\ UNCHANGED <<caches, pair_out, bias_enable, pair_history>>
    /\ GiveUp

\* A plain register write, which waits for nothing.
EnableBias ==
    /\ Running("enable")
    /\ bias_enable' = Write.enable
    /\ cached' = [cached EXCEPT ![Vbias] = Write.value]
    /\ vbias_enabled' = Write.enable
    /\ dac_history' = [dac_history EXCEPT ![Vbias] = "written"]
    /\ UNCHANGED <<halves, pair_out, dac_out, pair_history>>
    /\ Proceed

\* The AFE's own registers, over SPI; their contents are not modelled.
ProgramRegisters ==
    /\ Running("registers")
    /\ UNCHANGED <<caches, hardware, history>>
    /\ Proceed \/ GiveUp

\* The bias of an AFE that is staged as 0.
SkipBias ==
    /\ Running("skip")
    /\ UNCHANGED <<caches, hardware, history>>
    /\ Proceed

\* The RPU starts again, in the middle of a command or not: the caches are those of a new
\* backend, the DACs and the enable register keep what they have.
Restart ==
    /\ halves' = ForEachChannel(UnsetHalf)
    /\ cached' = [o \in Outputs |-> 0]
    /\ vbias_enabled' = FALSE
    /\ todo' = <<>>
    /\ command' = [op |-> "None"]
    /\ result' = "ok"
    /\ pair_history' = ForEachChannel("never")
    /\ dac_history' = [o \in Outputs |-> "never"]
    /\ UNCHANGED <<hardware, commands>>

Next ==
    \/ \E b \in Banks, v \in Values :
         \/ \E a \in Afes : SetAfe(b, a, v) \/ \E c \in Channels : SetChannel(b, a, c, v)
         \/ SetAll(b, v)
    \/ \E v \in Values :
         \/ \E name \in {"attenuation", "bias"}, a \in Afes : SetScalar(name, a, v)
         \/ \E enable \in BOOLEAN : SetVbiasControl(v, enable)
    \/ \E c \in Configurations : ApplyConfigureFrontend(c)
    \/ PairDone \/ PairNotWritten \/ PairWrittenLate
    \/ DacDone \/ DacTimesOut
    \/ EnableBias
    \/ ProgramRegisters
    \/ SkipBias
    \/ Restart

Spec == Init /\ [][Next]_vars

-------------------------------------------------------------------------------
(***************************************************************************)
(* Properties                                                              *)
(***************************************************************************)
Writes ==
    [kind : {"pair"}, bank : Banks, afe : Afes, channel : Channels, value : Values]
        \cup [kind : {"dac"}, output : Outputs, value : Values]
        \cup [kind : {"enable"}, value : Values, enable : BOOLEAN]
        \cup [kind : {"registers", "skip"}]

HistoryStates == {"never", "written", "timeout"}

TypeOK ==
    /\ halves \in [Banks -> [Afes -> [Channels -> [address : 0 .. PerDac - 1, value : Values]]]]
    /\ cached \in [Outputs -> Values]
    /\ vbias_enabled \in BOOLEAN
    /\ pair_out \in [Banks -> [Afes -> [Channels -> Values]]]
    /\ dac_out \in [Outputs -> Values]
    /\ bias_enable \in BOOLEAN
    /\ todo \in Seq(Writes)
    /\ result \in {"none", "ok", "timeout"}
    /\ result = "none" <=> todo # <<>>
    /\ commands \in 0 .. MaxCommands
    /\ pair_history \in [Banks -> [Afes -> [Channels -> HistoryStates]]]
    /\ dac_history \in [Outputs -> HistoryStates]

\* What ReadTrim and ReadOffset answer for a channel whose output some write has set, and
\* whose own last write did not time out, is what the DAC puts out. The one exception is the
\* first output of a DAC, which may be 0 whatever the cache says: a companion that was never
\* set is sent as the number 0, and that names output 0. A write that timed out is mended by
\* the next one to the channel or to its companion.
PairCacheSound ==
    \A b \in Banks, a \in Afes, c \in Channels :
        pair_history[b][a][c] = "written" =>
            \/ pair_out[b][a][c] = halves[b][a][c].value
            \/ c % PerDac = 0 /\ pair_out[b][a][c] = 0

\* The attenuations, biases and VBIAS that the read commands answer are those of the DACs
\* unless the last write to that DAC timed out, and the bias enable is the register's.
ScalarCacheSound ==
    todo = <<>> =>
        /\ \A o \in Outputs : dac_history[o] = "written" => cached[o] = dac_out[o]
        /\ dac_history[Vbias] # "never" /\ bias_enable # vbias_enabled =>
             dac_history[Vbias] = "timeout"

\* Every cache that readbacks are answered from follows the hardware, up to these exceptions.
CachesSound == PairCacheSound /\ ScalarCacheSound

Staged(c, a) == {i \in DOMAIN c.channels : c.channels[i].afe = a}

\* A command that is answered Applied and that wrote every channel of an AFE, or one output,
\* has left each of them as asked, whatever was cached, unset or timed out before it: later
\* writes of the same command mend what the unset halves of earlier ones did.
CompletedWriteHolds ==
    result = "ok" =>
        /\ command.op \in {"SetAfe", "SetAll"} =>
             \A a \in Afes, c \in Channels :
                 command.op = "SetAll" \/ command.afe = a =>
                     /\ pair_out[command.bank][a][c] = command.value
                     /\ halves[command.bank][a][c] = Half(c, command.value)
        /\ command.op = "SetChannel" =>
             pair_out[command.bank][command.afe][command.channel] = command.value
        /\ command.op = "Apply" =>
             \A a \in Afes :
                 {command.config.channels[i].channel : i \in Staged(command.config, a)} = Channels =>
                     \A i \in Staged(command.config, a) :
                         LET r == command.config.channels[i]
                         IN  /\ pair_out["trim"][a][r.channel] = r.trim
                             /\ pair_out["offset"][a][r.channel] = r.offset

\* The bias is switched on only when its DAC is at the value the same command asked for.
BiasOnAtAskedValue ==
    [][(bias_enable' /\ ~bias_enable) => dac_out'[Vbias] = command.vbias]_vars

===============================================================================
