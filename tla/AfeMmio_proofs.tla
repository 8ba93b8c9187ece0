----------------------------- MODULE AfeMmio_proofs -----------------------------
(***************************************************************************)
(* What AfeMmio promises, for boards and DACs of any size and any staged   *)
(* configurations: the caches that readbacks are answered from follow the  *)
(* DACs, a command that is answered Applied leaves every output it covers  *)
(* as asked, and the bias is switched on at the value asked for.           *)
(***************************************************************************)
EXTENDS AfeMmio, TLAPS

-------------------------------------------------------------------------------
(***************************************************************************)
(* The inductive invariant                                                 *)
(***************************************************************************)
Commands ==
    [op : {"None"}]
        \cup [op : {"SetChannel"}, bank : Banks, afe : Afes, channel : Channels, value : Values]
        \cup [op : {"SetAfe"}, bank : Banks, afe : Afes, value : Values]
        \cup [op : {"SetAll"}, bank : Banks, value : Values]
        \cup [op : {"SetScalar"}, name : {"attenuation", "bias"}, afe : Afes, value : Values]
        \cup [op : {"SetVbiasControl"}, vbias : Values, enable : BOOLEAN]
        \cup [op : {"Apply"}, vbias : Values, config : Configurations]

CommandOK == command \in Commands

\* A cached half that was set names its own output.
HalvesOwn ==
    \A b \in Banks, a \in Afes, c \in Channels :
        halves[b][a][c] = UnsetHalf \/ halves[b][a][c] = Half(c, halves[b][a][c].value)

Enabling(i) == todo[i].kind = "enable"

\* The enable register is written right after the DAC it enables, with the command's value.
EnableInv ==
    /\ \A i \in DOMAIN todo : Enabling(i) =>
         /\ todo[i].value = command.vbias
         /\ IF i = 1 THEN dac_out[Vbias] = todo[i].value
                     ELSE todo[i - 1] = DacWrite(Vbias, todo[i].value)
    /\ \A i \in DOMAIN todo : todo[i].kind = "dac" /\ todo[i].output = Vbias =>
         i + 1 \in DOMAIN todo /\ Enabling(i + 1)

\* What a history says of an output and its cache, in the middle of a command too.
ScalarInv ==
    /\ \A o \in Outputs \ {Vbias} : dac_history[o] = "written" => cached[o] = dac_out[o]
    /\ dac_history[Vbias] = "written" =>
         /\ vbias_enabled = bias_enable
         /\ cached[Vbias] = dac_out[Vbias] \/ (todo # <<>> /\ Enabling(1))

PairOf(i, b, a) == todo[i].kind = "pair" /\ todo[i].bank = b /\ todo[i].afe = a

\* The outputs of one AFE and bank are written in the order of their channels.
InChannelOrder ==
    \A b \in Banks, a \in Afes : \A i, j \in DOMAIN todo :
        i < j /\ PairOf(i, b, a) /\ PairOf(j, b, a) => todo[i].channel < todo[j].channel

Staging(r, b) == IF b = "trim" THEN r.trim ELSE r.offset

\* Every channel of the AFE is staged.
Full(c, a) == {c.channels[i].channel : i \in Staged(c, a)} = Channels

\* The command writes every channel of the AFE, and v to channel c.
Asks(b, a, c, v) ==
    \/ command.op = "SetAfe" /\ command.bank = b /\ command.afe = a /\ command.value = v
    \/ command.op = "SetAll" /\ command.bank = b /\ command.value = v
    \/ /\ command.op = "Apply"
       /\ Full(command.config, a)
       /\ \E i \in Staged(command.config, a) :
            command.config.channels[i].channel = c /\ Staging(command.config.channels[i], b) = v

Pending(b, a, c, v) == \E i \in DOMAIN todo : todo[i] = PairWrite(b, a, c, v)

\* The channel is as asked, and no write to a lower or to this channel of the AFE is to come.
Settled(b, a, c, v) ==
    /\ pair_out[b][a][c] = v
    /\ halves[b][a][c] = Half(c, v)
    /\ \A i \in DOMAIN todo : PairOf(i, b, a) => c < todo[i].channel

Progress ==
    result # "timeout" =>
        \A b \in Banks, a \in Afes, c \in Channels, v \in Values :
            Asks(b, a, c, v) => Pending(b, a, c, v) \/ Settled(b, a, c, v)

\* SetChannel makes one write, which sets its own output.
OneChannel ==
    command.op = "SetChannel" /\ result # "timeout" =>
        \/ todo = <<PairWrite(command.bank, command.afe, command.channel, command.value)>>
        \/ todo = <<>> /\ pair_out[command.bank][command.afe][command.channel] = command.value

MmioInv ==
    /\ TypeOK
    /\ CommandOK
    /\ HalvesOwn
    /\ PairCacheSound
    /\ EnableInv
    /\ ScalarInv
    /\ InChannelOrder
    /\ Progress
    /\ OneChannel

-------------------------------------------------------------------------------
(***************************************************************************)
(* Halves, outputs and writes                                              *)
(***************************************************************************)

\* A half made for a channel names the channel's own output (dac_trim_offset_half).
LEMMA HalfNames ==
    ASSUME NEW c \in Channels, NEW v \in Values
    PROVE  /\ Half(c, v) \in [address : 0 .. PerDac - 1, value : Values]
           /\ Half(c, v).value = v
           /\ OutputOf(c, Half(c, v)) = c
  <1>1. PerDac \in Nat \ {0} /\ c \in Nat /\ c < 2 * PerDac
    BY MmioAssumption DEF Channels
  <1>2. CASE c < PerDac
    <2>1. c % PerDac = c
      BY <1>1, <1>2
    <2> QED
      BY <1>1, <1>2, <2>1 DEF Half, OutputOf
  <1>3. CASE ~(c < PerDac)
    <2>1. PICK k \in Nat : c = PerDac + k /\ k < PerDac
      <3>1. c - PerDac \in Nat /\ c = PerDac + (c - PerDac) /\ c - PerDac < PerDac
        BY <1>1, <1>3
      <3> QED
        BY <3>1
    <2>2. (1 * PerDac + k) % PerDac = k
      BY <1>1, <2>1
    <2>3. c % PerDac = k
      BY <1>1, <2>1, <2>2
    <2> QED
      BY <1>1, <1>3, <2>1, <2>3 DEF Half, OutputOf
  <1> QED
    BY <1>2, <1>3

\* The half that stands beside a channel's belongs to a channel of the other DAC.
LEMMA Companions ==
    ASSUME NEW c \in Channels
    PROVE  /\ Companion(c) \in Channels
           /\ Companion(c) # c
           /\ c < PerDac <=> ~(Companion(c) < PerDac)
           /\ Companion(Companion(c)) = c
  BY MmioAssumption DEF Channels, Companion

\* A half that was never set names the first output of the DAC it is sent to.
LEMMA UnsetNames ==
    ASSUME NEW c \in Channels
    PROVE  /\ OutputOf(c, UnsetHalf) \in Channels
           /\ OutputOf(c, UnsetHalf) = IF c < PerDac THEN 0 ELSE PerDac
           /\ OutputOf(c, UnsetHalf) % PerDac = 0
           /\ UnsetHalf \in [address : 0 .. PerDac - 1, value : Values]
           /\ UnsetHalf.value = 0
  <1>1. PerDac \in Nat \ {0} /\ c \in Nat /\ c < 2 * PerDac /\ 0 \in Values
    BY MmioAssumption DEF Channels, Values
  <1>2. 0 % PerDac = 0 /\ (1 * PerDac + 0) % PerDac = 0
    BY <1>1
  <1>3. PerDac % PerDac = 0
    BY <1>1, <1>2
  <1> QED
    BY <1>1, <1>2, <1>3 DEF Channels, OutputOf, UnsetHalf

\* The fields of a write, by its kind.
LEMMA WriteFields ==
    ASSUME NEW w \in Writes
    PROVE  /\ w.kind \in {"pair", "dac", "enable", "registers", "skip"}
           /\ w.kind = "pair" =>
                /\ w.bank \in Banks /\ w.afe \in Afes /\ w.channel \in Channels /\ w.value \in Values
                /\ w = PairWrite(w.bank, w.afe, w.channel, w.value)
           /\ w.kind = "dac" =>
                w.output \in Outputs /\ w.value \in Values /\ w = DacWrite(w.output, w.value)
           /\ w.kind = "enable" => w.value \in Values /\ w.enable \in BOOLEAN
  BY DEF Writes, PairWrite, DacWrite

LEMMA PairWrites ==
    ASSUME NEW b \in Banks, NEW a \in Afes, NEW c \in Channels, NEW v \in Values
    PROVE  /\ PairWrite(b, a, c, v) \in Writes
           /\ PairWrite(b, a, c, v).kind = "pair"
           /\ PairWrite(b, a, c, v).bank = b
           /\ PairWrite(b, a, c, v).afe = a
           /\ PairWrite(b, a, c, v).channel = c
           /\ PairWrite(b, a, c, v).value = v
  BY DEF PairWrite, Writes

LEMMA DacWrites ==
    ASSUME NEW o \in Outputs, NEW v \in Values
    PROVE  /\ DacWrite(o, v) \in Writes
           /\ DacWrite(o, v).kind = "dac"
           /\ DacWrite(o, v).output = o
           /\ DacWrite(o, v).value = v
  BY DEF DacWrite, Writes

LEMMA OutputNames ==
    /\ Vbias \in Outputs
    /\ \A name \in {"attenuation", "bias"}, a \in Afes :
         [name |-> name, afe |-> a] \in Outputs \ {Vbias}
  <1>1. Vbias \in Outputs
    BY DEF Outputs
  <1>2. ASSUME NEW name \in {"attenuation", "bias"}, NEW a \in Afes
        PROVE  [name |-> name, afe |-> a] \in Outputs \ {Vbias}
    <2>1. [name |-> name, afe |-> a] \in {[name |-> n, afe |-> x] : n \in {"attenuation", "bias"}, x \in Afes}
      OBVIOUS
    <2>2. [name |-> name, afe |-> a].name # Vbias.name
      BY DEF Vbias
    <2>3. [name |-> name, afe |-> a] \in Outputs
      BY <2>1 DEF Outputs
    <2> QED
      BY <2>2, <2>3
  <1> QED
    BY <1>1, <1>2

\* The write at hand is the first of todo, and going on moves the others up.
LEMMA GoingOn ==
    ASSUME todo \in Seq(Writes), todo # <<>>, todo' = Tail(todo)
    PROVE  /\ Write = todo[1] /\ Write \in Writes /\ 1 \in DOMAIN todo
           /\ todo' \in Seq(Writes)
           /\ \A i \in DOMAIN todo' : i \in Nat \ {0} /\ i + 1 \in DOMAIN todo /\ todo'[i] = todo[i + 1]
           /\ \A i \in DOMAIN todo : i \in Nat /\ i > 1 => i - 1 \in DOMAIN todo' /\ todo'[i - 1] = todo[i]
           /\ Len(todo) = 1 <=> todo' = <<>>
  <1>1. Len(todo) \in Nat /\ Len(todo) > 0 /\ DOMAIN todo = 1 .. Len(todo)
    OBVIOUS
  <1>2. Write = todo[1] /\ Write \in Writes /\ 1 \in DOMAIN todo
    BY <1>1 DEF Write
  <1>3. /\ todo' \in Seq(Writes)
        /\ Len(todo') = Len(todo) - 1
        /\ DOMAIN todo' = 1 .. Len(todo) - 1
    BY <1>1
  <1>4. \A i \in 1 .. Len(todo) - 1 : todo'[i] = todo[i + 1]
    BY <1>1
  <1>5. Len(todo) = 1 <=> todo' = <<>>
    <2>1. \A s \in Seq(Writes) : Len(s) = 0 <=> s = <<>>
      OBVIOUS
    <2>2. Len(todo') = 0 <=> todo' = <<>>
      BY <1>3, <2>1, Zenon
    <2>3. Len(todo) = 1 <=> Len(todo') = 0
      BY <1>1, <1>3
    <2> QED
      BY <2>2, <2>3
  <1>6. ASSUME NEW i \in DOMAIN todo, i > 1
        PROVE  i - 1 \in DOMAIN todo' /\ todo'[i - 1] = todo[i]
    <2>1. i \in Nat /\ i - 1 \in 1 .. Len(todo) - 1 /\ (i - 1) + 1 = i
      BY <1>1, <1>6
    <2> QED
      BY <2>1, <1>3, <1>4
  <1> QED
    BY <1>1, <1>2, <1>3, <1>4, <1>5, <1>6

-------------------------------------------------------------------------------
(***************************************************************************)
(* The lists of writes that commands start from                            *)
(***************************************************************************)
LEMMA WholeAfeWrites ==
    ASSUME NEW b \in Banks, NEW a \in Afes, NEW v \in Values
    PROVE  /\ WholeAfe(b, a, v) \in Seq(Writes)
           /\ DOMAIN WholeAfe(b, a, v) = 1 .. 2 * PerDac
           /\ WholeAfe(b, a, v) # <<>>
           /\ \A i \in 1 .. 2 * PerDac :
                i - 1 \in Channels /\ WholeAfe(b, a, v)[i] = PairWrite(b, a, i - 1, v)
  <1> DEFINE n == 2 * PerDac
  <1>1. n \in Nat /\ n > 0
    BY MmioAssumption
  <1>2. \A i \in 1 .. n : i - 1 \in Channels
    BY <1>1 DEF Channels
  <1>3. \A i \in 1 .. n : PairWrite(b, a, i - 1, v) \in Writes
    BY <1>2, PairWrites
  <1>4. [i \in 1 .. n |-> PairWrite(b, a, i - 1, v)] \in Seq(Writes)
    BY <1>1, <1>3
  <1> HIDE DEF n
  <1>5. [i \in 1 .. n |-> PairWrite(b, a, i - 1, v)] # <<>>
    BY <1>1
  <1> QED
    BY <1>2, <1>4, <1>5 DEF WholeAfe, n

\* Where the write of a channel stands when the whole board is written, and what stands where.
LEMMA WholeBoardWrites ==
    ASSUME NEW b \in Banks, NEW v \in Values
    PROVE  /\ WholeBoard(b, v) \in Seq(Writes)
           /\ WholeBoard(b, v) # <<>>
           /\ \A i \in DOMAIN WholeBoard(b, v) : \E a \in Afes, c \in Channels :
                /\ i = a * (2 * PerDac) + c + 1
                /\ WholeBoard(b, v)[i] = PairWrite(b, a, c, v)
           /\ \A a \in Afes, c \in Channels :
                /\ a * (2 * PerDac) + c + 1 \in DOMAIN WholeBoard(b, v)
                /\ WholeBoard(b, v)[a * (2 * PerDac) + c + 1] = PairWrite(b, a, c, v)
  <1> DEFINE n == 2 * PerDac
             m == AfeCount * n
             f == WholeBoard(b, v)
             E(i) == WholeAfe(b, (i - 1) \div n, v)[((i - 1) % n) + 1]
  <1>1. n \in Nat /\ n > 0 /\ Channels = 0 .. n - 1
    BY MmioAssumption DEF Channels
  <1>2. AfeCount \in Nat /\ AfeCount > 0 /\ Afes = 0 .. AfeCount - 1
    BY MmioAssumption DEF Afes
  <1>3. f = [i \in 1 .. m |-> E(i)]
    BY DEF WholeBoard
  <1>4. \A a \in Afes, c \in Channels : E(a * n + c + 1) = PairWrite(b, a, c, v)
    <2> SUFFICES ASSUME NEW a \in Afes, NEW c \in Channels
                 PROVE  E(a * n + c + 1) = PairWrite(b, a, c, v)
      OBVIOUS
    <2> DEFINE i == a * n + c + 1
    <2>0. a * n \in Nat
      <3> HIDE DEF n
      <3> QED
        BY <1>1, <1>2
    <2>1. i - 1 = a * n + c
      BY <1>1, <1>2, <2>0
    <2>2. (a * n + c) % n = c /\ (a * n + c) \div n = a
      <3> HIDE DEF n
      <3> QED
        BY <1>1, <1>2
    <2>3. E(i) = WholeAfe(b, a, v)[c + 1]
      BY <2>1, <2>2
    <2>4. c + 1 \in 1 .. n /\ (c + 1) - 1 = c
      BY <1>1
    <2> QED
      BY <2>3, <2>4, WholeAfeWrites
  <1>5. \A a \in Afes, c \in Channels : a * n + c + 1 \in 1 .. m
    <2> SUFFICES ASSUME NEW a \in Afes, NEW c \in Channels
                 PROVE  a * n + c + 1 \in 1 .. m
      OBVIOUS
    <2> HIDE DEF n
    <2>1. PICK k \in Nat : AfeCount = a + 1 + k
      <3>1. AfeCount - (a + 1) \in Nat /\ AfeCount = a + 1 + (AfeCount - (a + 1))
        BY <1>2
      <3> QED
        BY <3>1
    <2>2. m = a * n + n + k * n
      BY <1>1, <1>2, <2>1
    <2>3. a * n \in Nat /\ k * n \in Nat
      BY <1>1, <1>2, <2>1
    <2> QED
      BY <1>1, <2>2, <2>3
  <1>6. \A i \in 1 .. m : \E a \in Afes, c \in Channels : i = a * n + c + 1
    <2> SUFFICES ASSUME NEW i \in 1 .. m
                 PROVE  \E a \in Afes, c \in Channels : i = a * n + c + 1
      OBVIOUS
    <2> DEFINE a == (i - 1) \div n
               c == (i - 1) % n
    <2> HIDE DEF n
    <2>1. m \in Nat /\ i \in Nat /\ i - 1 \in Nat /\ i - 1 < AfeCount * n
      BY <1>1, <1>2
    <2>2. a \in Int /\ c \in 0 .. n - 1 /\ i - 1 = n * a + c
      BY <1>1, <2>1
    <2> HIDE DEF a, c, m
    <2>3. a >= 0
      <3>1. ASSUME a < 0
            PROVE  FALSE
        <4>1. PICK k \in Nat : a = -1 - k
          <5>1. -1 - a \in Nat /\ a = -1 - (-1 - a)
            BY <2>2, <3>1
          <5> QED
            BY <5>1
        <4>2. n * a = -n - n * k /\ n * k \in Nat
          BY <1>1, <4>1
        <4> QED
          BY <1>1, <2>1, <2>2, <4>2
      <3> QED
        BY <2>2, <3>1
    <2>4. a < AfeCount
      <3>1. ASSUME ~(a < AfeCount)
            PROVE  FALSE
        <4>1. PICK k \in Nat : a = AfeCount + k
          <5>1. a - AfeCount \in Nat /\ a = AfeCount + (a - AfeCount)
            BY <1>2, <2>2, <3>1
          <5> QED
            BY <5>1
        <4>2. n * a = AfeCount * n + n * k /\ n * k \in Nat
          BY <1>1, <1>2, <4>1
        <4> QED
          BY <1>1, <1>2, <2>1, <2>2, <4>2
      <3> QED
        BY <3>1
    <2>5. a \in Afes /\ c \in Channels
      BY <1>1, <1>2, <2>2, <2>3, <2>4
    <2>6. n * a = a * n
      BY <1>1, <2>2
    <2>7. i = a * n + c + 1
      BY <1>1, <2>1, <2>2, <2>6
    <2> QED
      BY <2>5, <2>7
  <1>7. m \in Nat /\ m > 0
    <2>1. 0 \in Afes /\ 0 \in Channels
      BY <1>1, <1>2
    <2>2. 0 * n + 0 + 1 \in 1 .. m
      BY <1>5, <2>1
    <2>3. m \in Nat
      <3> HIDE DEF n
      <3> QED
        BY <1>1, <1>2
    <2> QED
      BY <1>1, <2>2, <2>3
  <1> HIDE DEF E, m, n
  <1>8. \A i \in 1 .. m : E(i) \in Writes
    BY <1>4, <1>6, PairWrites
  <1>9. DOMAIN f = 1 .. m /\ \A i \in 1 .. m : f[i] = E(i)
    BY <1>3
  <1>10. f \in Seq(Writes) /\ f # <<>>
    <2>1. [i \in 1 .. m |-> E(i)] \in Seq(Writes)
      BY <1>7, <1>8
    <2>2. 1 \in DOMAIN f
      BY <1>7, <1>9
    <2> QED
      BY <1>3, <2>1, <2>2
  <1> HIDE DEF f
  <1>11. \A i \in DOMAIN f : \E a \in Afes, c \in Channels :
           i = a * n + c + 1 /\ f[i] = PairWrite(b, a, c, v)
    BY <1>4, <1>6, <1>9
  <1>12. \A a \in Afes, c \in Channels :
           a * n + c + 1 \in DOMAIN f /\ f[a * n + c + 1] = PairWrite(b, a, c, v)
    BY <1>4, <1>5, <1>9
  <1> QED
    BY <1>10, <1>11, <1>12 DEF f, n

StagedChannels == [afe : Afes, channel : Channels, trim : Values, offset : Values]
StagedAfes == [afe : Afes, attenuation : Values, bias : Values]

\* The write of a staged channel to one bank.
Of(r, b) == PairWrite(b, r.afe, r.channel, Staging(r, b))

LEMMA StagedFields ==
    ASSUME NEW r \in StagedChannels, NEW b \in Banks
    PROVE  /\ r.afe \in Afes /\ r.channel \in Channels /\ Staging(r, b) \in Values
           /\ Of(r, b) \in Writes
  <1>1. r.afe \in Afes /\ r.channel \in Channels /\ Staging(r, b) \in Values
    BY DEF StagedChannels, Staging, Banks
  <1> QED
    BY <1>1, PairWrites DEF Of

\* Each staged channel is written to both banks, in the order of the slots.
LEMMA ChannelList ==
    ASSUME NEW channels \in Seq(StagedChannels)
    PROVE  /\ AllChannelWrites(channels) \in Seq(Writes)
           /\ \A i \in DOMAIN AllChannelWrites(channels) : \E k \in 1 .. Len(channels) :
                \/ i = 2 * k - 1 /\ AllChannelWrites(channels)[i] = Of(channels[k], "trim")
                \/ i = 2 * k /\ AllChannelWrites(channels)[i] = Of(channels[k], "offset")
           /\ \A k \in 1 .. Len(channels) :
                /\ 2 * k - 1 \in DOMAIN AllChannelWrites(channels)
                /\ 2 * k \in DOMAIN AllChannelWrites(channels)
                /\ AllChannelWrites(channels)[2 * k - 1] = Of(channels[k], "trim")
                /\ AllChannelWrites(channels)[2 * k] = Of(channels[k], "offset")
  <1> DEFINE n == Len(channels)
             E(i) == ChannelWrites(channels[(i + 1) \div 2])[2 - (i % 2)]
             f == AllChannelWrites(channels)
  <1>1. n \in Nat /\ \A k \in 1 .. n : channels[k] \in StagedChannels
    OBVIOUS
  <1>2. f = [i \in 1 .. 2 * n |-> E(i)]
    BY DEF AllChannelWrites
  <1>3. \A k \in 1 .. n : E(2 * k - 1) = Of(channels[k], "trim") /\ E(2 * k) = Of(channels[k], "offset")
    <2> SUFFICES ASSUME NEW k \in 1 .. n
                 PROVE  E(2 * k - 1) = Of(channels[k], "trim") /\ E(2 * k) = Of(channels[k], "offset")
      OBVIOUS
    <2>1. ((2 * k - 1) + 1) \div 2 = k /\ 2 - ((2 * k - 1) % 2) = 1
      BY <1>1
    <2>2. (2 * k + 1) \div 2 = k /\ 2 - ((2 * k) % 2) = 2
      BY <1>1
    <2>3. /\ ChannelWrites(channels[k])[1] = Of(channels[k], "trim")
          /\ ChannelWrites(channels[k])[2] = Of(channels[k], "offset")
      BY DEF ChannelWrites, Of, Staging
    <2> QED
      BY <2>1, <2>2, <2>3
  <1>4. \A i \in 1 .. 2 * n : \E k \in 1 .. n : i = 2 * k - 1 \/ i = 2 * k
    <2> SUFFICES ASSUME NEW i \in 1 .. 2 * n
                 PROVE  \E k \in 1 .. n : i = 2 * k - 1 \/ i = 2 * k
      OBVIOUS
    <2> DEFINE k == (i + 1) \div 2
    <2>1. k \in 1 .. n /\ (i = 2 * k - 1 \/ i = 2 * k)
      BY <1>1
    <2> QED
      BY <2>1
  <1> HIDE DEF E
  <1>5. \A i \in 1 .. 2 * n : E(i) \in Writes
    BY <1>1, <1>3, <1>4, StagedFields DEF Banks
  <1>6. f \in Seq(Writes)
    <2>1. [i \in 1 .. 2 * n |-> E(i)] \in Seq(Writes)
      BY <1>1, <1>5
    <2> QED
      BY <1>2, <2>1
  <1>7. DOMAIN f = 1 .. 2 * n /\ \A i \in 1 .. 2 * n : f[i] = E(i)
    BY <1>2
  <1> HIDE DEF f
  <1>8. ASSUME NEW i \in DOMAIN f
        PROVE  \E k \in 1 .. n :
                 \/ i = 2 * k - 1 /\ f[i] = Of(channels[k], "trim")
                 \/ i = 2 * k /\ f[i] = Of(channels[k], "offset")
    <2>1. PICK k \in 1 .. n : i = 2 * k - 1 \/ i = 2 * k
      BY <1>4, <1>7
    <2> QED
      BY <1>3, <1>7, <2>1
  <1>9. ASSUME NEW k \in 1 .. n
        PROVE  /\ 2 * k - 1 \in DOMAIN f /\ 2 * k \in DOMAIN f
               /\ f[2 * k - 1] = Of(channels[k], "trim") /\ f[2 * k] = Of(channels[k], "offset")
    <2>1. 2 * k - 1 \in 1 .. 2 * n /\ 2 * k \in 1 .. 2 * n
      BY <1>1
    <2> QED
      BY <1>3, <1>7, <2>1
  <1> QED
    BY <1>6, <1>8, <1>9 DEF f

\* A write that touches neither the pairs nor VBIAS nor its enable register.
Quiet(w) == w.kind \in {"registers", "skip"} \/ (w.kind = "dac" /\ w.output # Vbias)

LEMMA AfeList ==
    ASSUME NEW afes \in Seq(StagedAfes)
    PROVE  /\ AllAfeWrites(afes) \in Seq(Writes)
           /\ \A i \in DOMAIN AllAfeWrites(afes) : Quiet(AllAfeWrites(afes)[i])
  <1> DEFINE n == Len(afes)
             E(i) == AfeWrites(afes[(i + 2) \div 3])[((i - 1) % 3) + 1]
             f == AllAfeWrites(afes)
  <1>1. n \in Nat /\ \A k \in 1 .. n : afes[k] \in StagedAfes
    OBVIOUS
  <1>2. f = [i \in 1 .. 3 * n |-> E(i)]
    BY DEF AllAfeWrites
  <1>3. ASSUME NEW r \in StagedAfes, NEW j \in 1 .. 3
        PROVE  AfeWrites(r)[j] \in Writes /\ Quiet(AfeWrites(r)[j])
    <2>1. r.afe \in Afes /\ r.attenuation \in Values /\ r.bias \in Values
      BY DEF StagedAfes
    <2>2. \A name \in {"attenuation", "bias"}, v \in Values :
            LET w == DacWrite([name |-> name, afe |-> r.afe], v)
            IN  w \in Writes /\ Quiet(w)
      BY <2>1, OutputNames, DacWrites DEF Quiet
    <2>3. \A kind \in {"registers", "skip"} : [kind |-> kind] \in Writes /\ Quiet([kind |-> kind])
      <3> SUFFICES ASSUME NEW kind \in {"registers", "skip"}
                   PROVE  [kind |-> kind] \in Writes /\ Quiet([kind |-> kind])
        OBVIOUS
      <3>1. [kind |-> kind] \in [kind : {"registers", "skip"}]
        OBVIOUS
      <3>2. [kind |-> kind] \in Writes
        BY <3>1, Zenon DEF Writes
      <3> QED
        BY <3>2 DEF Quiet
    <2>4. /\ AfeWrites(r)[1] = DacWrite([name |-> "attenuation", afe |-> r.afe], r.attenuation)
          /\ \/ AfeWrites(r)[2] = [kind |-> "skip"]
             \/ AfeWrites(r)[2] = DacWrite([name |-> "bias", afe |-> r.afe], r.bias)
          /\ AfeWrites(r)[3] = [kind |-> "registers"]
      BY DEF AfeWrites
    <2>5. j = 1 \/ j = 2 \/ j = 3
      OBVIOUS
    <2> QED
      BY <2>1, <2>2, <2>3, <2>4, <2>5
  <1>4. \A i \in 1 .. 3 * n : (i + 2) \div 3 \in 1 .. n /\ ((i - 1) % 3) + 1 \in 1 .. 3
    BY <1>1
  <1>5. \A i \in 1 .. 3 * n : E(i) \in Writes /\ Quiet(E(i))
    BY <1>1, <1>3, <1>4
  <1> HIDE DEF E
  <1>6. [i \in 1 .. 3 * n |-> E(i)] \in Seq(Writes)
    BY <1>1, <1>5
  <1> QED
    BY <1>2, <1>5, <1>6

\* apply_configure_frontend: the channels, then VBIAS and its enable, then writes that touch neither.
LEMMA ApplyList ==
    ASSUME NEW c \in Configurations
    PROVE  LET f == ApplyWrites(c)
               g == AllChannelWrites(c.channels)
               n == Len(g)
           IN  /\ f \in Seq(Writes) /\ f # <<>> /\ n \in Nat
               /\ c.channels \in Seq(StagedChannels) /\ c.vbias \in Values
               /\ DOMAIN g = 1 .. n
               /\ \A i \in DOMAIN f : i \in Nat \ {0}
               /\ \A i \in 1 .. n : i \in DOMAIN f /\ f[i] = g[i]
               /\ n + 1 \in DOMAIN f /\ f[n + 1] = DacWrite(Vbias, c.vbias)
               /\ n + 2 \in DOMAIN f /\ f[n + 2] = [kind |-> "enable", value |-> c.vbias, enable |-> TRUE]
               /\ \A i \in DOMAIN f : i > n + 2 => Quiet(f[i])
  <1> DEFINE f == ApplyWrites(c)
             g == AllChannelWrites(c.channels)
             h == VbiasWrites(c.vbias, TRUE)
             q == AllAfeWrites(c.afes)
             n == Len(g)
  <1>1. c.channels \in Seq(StagedChannels) /\ c.vbias \in Values /\ c.afes \in Seq(StagedAfes)
    BY MmioAssumption DEF StagedChannels, StagedAfes
  <1>2. g \in Seq(Writes) /\ n \in Nat /\ DOMAIN g = 1 .. n
    BY <1>1, ChannelList
  <1>3. q \in Seq(Writes) /\ \A i \in 1 .. Len(q) : Quiet(q[i])
    BY <1>1, AfeList
  <1>4. /\ h = <<DacWrite(Vbias, c.vbias), [kind |-> "enable", value |-> c.vbias, enable |-> TRUE]>>
        /\ h \in Seq(Writes) /\ Len(h) = 2
    <2>1. DacWrite(Vbias, c.vbias) \in Writes
      BY <1>1, OutputNames, DacWrites
    <2>2. [kind |-> "enable", value |-> c.vbias, enable |-> TRUE] \in Writes
      BY <1>1 DEF Writes
    <2> QED
      BY <2>1, <2>2 DEF VbiasWrites
  <1>5. f = g \o h \o q
    BY DEF ApplyWrites
  <1> HIDE DEF f, g, h, q
  <1>6. f \in Seq(Writes) /\ Len(f) = n + 2 + Len(q) /\ DOMAIN f = 1 .. Len(f)
    BY <1>2, <1>3, <1>4, <1>5
  <1>7. \A i \in 1 .. n : f[i] = g[i]
    BY <1>2, <1>3, <1>4, <1>5
  <1>8. f[n + 1] = h[1] /\ f[n + 2] = h[2]
    BY <1>2, <1>3, <1>4, <1>5
  <1>9. \A i \in 1 .. Len(f) : i > n + 2 => i - (n + 2) \in 1 .. Len(q) /\ f[i] = q[i - (n + 2)]
    BY <1>2, <1>3, <1>4, <1>5
  <1>10. Len(q) \in Nat
    BY <1>3
  <1>11. h[1] = DacWrite(Vbias, c.vbias) /\ h[2] = [kind |-> "enable", value |-> c.vbias, enable |-> TRUE]
    BY <1>4
  <1>12. f # <<>> /\ n + 1 \in DOMAIN f /\ n + 2 \in DOMAIN f /\ \A i \in 1 .. n : i \in DOMAIN f
    BY <1>2, <1>6, <1>10
  <1>13. \A i \in DOMAIN f : i \in Nat \ {0}
    BY <1>2, <1>6, <1>10
  <1>14. \A i \in DOMAIN f : i > n + 2 => Quiet(f[i])
    BY <1>3, <1>6, <1>9
  <1> QED
    BY <1>1, <1>2, <1>6, <1>7, <1>8, <1>11, <1>12, <1>13, <1>14 DEF f, g

-------------------------------------------------------------------------------
(***************************************************************************)
(* A command starts                                                        *)
(***************************************************************************)

\* What a command starting leaves of the invariant, whatever its list of writes.
LEMMA Starting ==
    ASSUME MmioInv, Start, todo' \in Seq(Writes), todo' # <<>>, command' \in Commands
    PROVE  TypeOK' /\ CommandOK' /\ HalvesOwn' /\ PairCacheSound' /\ ScalarInv'
  <1>1. TypeOK /\ HalvesOwn /\ PairCacheSound /\ ScalarInv /\ todo = <<>>
    BY DEF MmioInv, Start
  <1>2. /\ UNCHANGED <<halves, cached, vbias_enabled, pair_out, dac_out, bias_enable>>
        /\ UNCHANGED <<pair_history, dac_history>>
        /\ result' = "none" /\ commands' = commands + 1 /\ commands < MaxCommands
    BY DEF Start, caches, hardware, history
  <1>3. commands' \in 0 .. MaxCommands
    BY <1>1, <1>2, MmioAssumption DEF TypeOK
  <1>4. TypeOK'
    BY <1>1, <1>2, <1>3 DEF TypeOK
  <1>5. HalvesOwn' /\ PairCacheSound'
    BY <1>1, <1>2 DEF HalvesOwn, PairCacheSound
  <1>6. ScalarInv'
    BY <1>1, <1>2 DEF ScalarInv
  <1> QED
    BY <1>4, <1>5, <1>6 DEF CommandOK

\* A list of pair writes enables nothing.
LEMMA OnlyPairs ==
    ASSUME \A i \in DOMAIN todo' : todo'[i].kind = "pair"
    PROVE  EnableInv'
  BY DEF EnableInv, Enabling

LEMMA SetChannelStarts ==
    ASSUME MmioInv, NEW b \in Banks, NEW a \in Afes, NEW c \in Channels, NEW v \in Values,
           SetChannel(b, a, c, v)
    PROVE  MmioInv'
  <1> DEFINE w == PairWrite(b, a, c, v)
  <1>1. Start /\ todo' = <<w>>
    BY DEF SetChannel
  <1>2. /\ command' \in Commands
        /\ command'.op = "SetChannel" /\ command'.bank = b /\ command'.afe = a
        /\ command'.channel = c /\ command'.value = v
    BY DEF SetChannel, Commands
  <1>3. w \in Writes /\ w.kind = "pair"
    BY PairWrites
  <1> HIDE DEF w
  <1>4. todo' \in Seq(Writes) /\ todo' # <<>> /\ DOMAIN todo' = {1} /\ todo'[1] = w
    BY <1>1, <1>3
  <1>5. TypeOK' /\ CommandOK' /\ HalvesOwn' /\ PairCacheSound' /\ ScalarInv'
    BY <1>1, <1>2, <1>4, Starting
  <1>6. EnableInv'
    BY <1>3, <1>4, OnlyPairs
  <1>7. InChannelOrder'
    BY <1>4 DEF InChannelOrder
  <1>8. Progress'
    BY <1>2 DEF Progress, Asks
  <1>9. OneChannel'
    BY <1>1, <1>2 DEF OneChannel, w
  <1> QED
    BY <1>5, <1>6, <1>7, <1>8, <1>9 DEF MmioInv

LEMMA SetAfeStarts ==
    ASSUME MmioInv, NEW b \in Banks, NEW a \in Afes, NEW v \in Values, SetAfe(b, a, v)
    PROVE  MmioInv'
  <1>1. Start /\ todo' = WholeAfe(b, a, v)
    BY DEF SetAfe
  <1>2. /\ command' \in Commands
        /\ command'.op = "SetAfe" /\ command'.bank = b /\ command'.afe = a /\ command'.value = v
    BY DEF SetAfe, Commands
  <1>3. /\ todo' \in Seq(Writes) /\ todo' # <<>> /\ DOMAIN todo' = 1 .. 2 * PerDac
        /\ \A i \in DOMAIN todo' : i - 1 \in Channels /\ todo'[i] = PairWrite(b, a, i - 1, v)
    BY <1>1, WholeAfeWrites
  <1>4. TypeOK' /\ CommandOK' /\ HalvesOwn' /\ PairCacheSound' /\ ScalarInv'
    BY <1>1, <1>2, <1>3, Starting
  <1>5. \A i \in DOMAIN todo' : todo'[i].kind = "pair" /\ todo'[i].channel = i - 1
    BY <1>3, PairWrites
  <1>6. EnableInv'
    BY <1>5, OnlyPairs
  <1>7. InChannelOrder'
    BY <1>3, <1>5, MmioAssumption DEF InChannelOrder
  <1>8. Progress'
    <2> SUFFICES ASSUME NEW x \in Banks, NEW y \in Afes, NEW c \in Channels, NEW u \in Values,
                        Asks(x, y, c, u)'
                 PROVE  Pending(x, y, c, u)'
      BY DEF Progress
    <2>1. x = b /\ y = a /\ u = v
      BY <1>2 DEF Asks
    <2>2. c + 1 \in DOMAIN todo' /\ (c + 1) - 1 = c
      BY <1>3, MmioAssumption DEF Channels
    <2>3. todo'[c + 1] = PairWrite(x, y, c, u)
      BY <1>3, <2>1, <2>2
    <2> QED
      BY <2>2, <2>3 DEF Pending
  <1>9. OneChannel'
    BY <1>2 DEF OneChannel
  <1> QED
    BY <1>4, <1>6, <1>7, <1>8, <1>9 DEF MmioInv

LEMMA SetAllStarts ==
    ASSUME MmioInv, NEW b \in Banks, NEW v \in Values, SetAll(b, v)
    PROVE  MmioInv'
  <1> DEFINE n == 2 * PerDac
  <1>1. Start /\ todo' = WholeBoard(b, v)
    BY DEF SetAll
  <1>2. command' \in Commands /\ command'.op = "SetAll" /\ command'.bank = b /\ command'.value = v
    BY DEF SetAll, Commands
  <1>3. /\ todo' \in Seq(Writes) /\ todo' # <<>>
        /\ \A i \in DOMAIN todo' : \E a \in Afes, c \in Channels :
             i = a * n + c + 1 /\ todo'[i] = PairWrite(b, a, c, v)
        /\ \A a \in Afes, c \in Channels :
             a * n + c + 1 \in DOMAIN todo' /\ todo'[a * n + c + 1] = PairWrite(b, a, c, v)
    BY <1>1, WholeBoardWrites
  <1>4. TypeOK' /\ CommandOK' /\ HalvesOwn' /\ PairCacheSound' /\ ScalarInv'
    BY <1>1, <1>2, <1>3, Starting
  <1>5. \A i \in DOMAIN todo' : todo'[i].kind = "pair"
    BY <1>3, PairWrites
  <1>6. EnableInv'
    BY <1>5, OnlyPairs
  <1>7. InChannelOrder'
    <2> SUFFICES ASSUME NEW x \in Banks, NEW a \in Afes,
                        NEW i \in DOMAIN todo', NEW j \in DOMAIN todo',
                        i < j, PairOf(i, x, a)', PairOf(j, x, a)'
                 PROVE  todo'[i].channel < todo'[j].channel
      BY DEF InChannelOrder
    <2>1. PICK a1 \in Afes, c1 \in Channels : i = a1 * n + c1 + 1 /\ todo'[i] = PairWrite(b, a1, c1, v)
      BY <1>3
    <2>2. PICK a2 \in Afes, c2 \in Channels : j = a2 * n + c2 + 1 /\ todo'[j] = PairWrite(b, a2, c2, v)
      BY <1>3
    <2>3. a1 = a /\ a2 = a /\ todo'[i].channel = c1 /\ todo'[j].channel = c2
      BY <2>1, <2>2, PairWrites DEF PairOf
    <2>4. a * n \in Nat
      <3>1. a \in Nat /\ n \in Nat
        BY MmioAssumption DEF Afes
      <3> HIDE DEF n
      <3> QED
        BY <3>1
    <2>5. c1 \in Nat /\ c2 \in Nat
      BY MmioAssumption DEF Channels
    <2> HIDE DEF n
    <2>6. c1 < c2
      BY <2>1, <2>2, <2>3, <2>4, <2>5
    <2> QED
      BY <2>3, <2>6
  <1>8. Progress'
    <2> SUFFICES ASSUME NEW x \in Banks, NEW a \in Afes, NEW c \in Channels, NEW u \in Values,
                        Asks(x, a, c, u)'
                 PROVE  Pending(x, a, c, u)'
      BY DEF Progress
    <2>1. x = b /\ u = v
      BY <1>2 DEF Asks
    <2>2. a * n + c + 1 \in DOMAIN todo' /\ todo'[a * n + c + 1] = PairWrite(x, a, c, u)
      BY <1>3, <2>1
    <2> QED
      BY <2>2 DEF Pending
  <1>9. OneChannel'
    BY <1>2 DEF OneChannel
  <1> QED
    BY <1>4, <1>6, <1>7, <1>8, <1>9 DEF MmioInv

LEMMA SetScalarStarts ==
    ASSUME MmioInv, NEW name \in {"attenuation", "bias"}, NEW a \in Afes, NEW v \in Values,
           SetScalar(name, a, v)
    PROVE  MmioInv'
  <1> DEFINE o == [name |-> name, afe |-> a]
             w == DacWrite(o, v)
  <1>1. Start /\ todo' = <<w>>
    BY DEF SetScalar
  <1>2. command' \in Commands /\ command'.op = "SetScalar"
    BY DEF SetScalar, Commands
  <1>3. o \in Outputs \ {Vbias}
    BY OutputNames
  <1>4. w \in Writes /\ w.kind = "dac" /\ w.output # Vbias
    <2> HIDE DEF o
    <2> QED
      BY <1>3, DacWrites
  <1> HIDE DEF w
  <1>5. todo' \in Seq(Writes) /\ todo' # <<>> /\ DOMAIN todo' = {1} /\ todo'[1] = w
    BY <1>1, <1>4
  <1>6. TypeOK' /\ CommandOK' /\ HalvesOwn' /\ PairCacheSound' /\ ScalarInv'
    BY <1>1, <1>2, <1>5, Starting
  <1>7. EnableInv'
    BY <1>4, <1>5 DEF EnableInv, Enabling
  <1>8. InChannelOrder'
    BY <1>4, <1>5 DEF InChannelOrder, PairOf
  <1>9. Progress' /\ OneChannel'
    BY <1>2 DEF Progress, Asks, OneChannel
  <1> QED
    BY <1>6, <1>7, <1>8, <1>9 DEF MmioInv

LEMMA SetVbiasStarts ==
    ASSUME MmioInv, NEW v \in Values, NEW enable \in BOOLEAN, SetVbiasControl(v, enable)
    PROVE  MmioInv'
  <1> DEFINE w == DacWrite(Vbias, v)
             e == [kind |-> "enable", value |-> v, enable |-> enable]
  <1>1. Start /\ todo' = <<w, e>>
    BY DEF SetVbiasControl, VbiasWrites
  <1>2. command' \in Commands /\ command'.op = "SetVbiasControl" /\ command'.vbias = v
    BY DEF SetVbiasControl, Commands
  <1>3. w \in Writes /\ w.kind = "dac"
    BY OutputNames, DacWrites
  <1>4. e \in Writes /\ e.kind = "enable" /\ e.value = v
    BY DEF Writes
  <1> HIDE DEF e
  <1>5. /\ todo' \in Seq(Writes) /\ todo' # <<>> /\ DOMAIN todo' = {1, 2}
        /\ todo'[1] = w /\ todo'[2] = e
    <2> HIDE DEF w
    <2> QED
      BY <1>1, <1>3, <1>4
  <1>6. TypeOK' /\ CommandOK' /\ HalvesOwn' /\ PairCacheSound' /\ ScalarInv'
    BY <1>1, <1>2, <1>5, Starting
  <1>7. EnableInv'
    <2> HIDE DEF w
    <2>1. ASSUME NEW i \in DOMAIN todo', Enabling(i)'
          PROVE  i = 2
      BY <1>3, <1>5, <2>1 DEF Enabling
    <2>2. ASSUME NEW i \in DOMAIN todo', todo'[i].kind = "dac"
          PROVE  i = 1
      BY <1>4, <1>5, <2>2
    <2>3. Enabling(2)' /\ todo'[2].value = v /\ todo'[2 - 1] = DacWrite(Vbias, v)
      BY <1>4, <1>5 DEF Enabling, w
    <2> QED
      BY <1>2, <1>5, <2>1, <2>2, <2>3 DEF EnableInv
  <1>8. InChannelOrder'
    <2> HIDE DEF w
    <2> QED
      BY <1>3, <1>4, <1>5 DEF InChannelOrder, PairOf
  <1>9. Progress' /\ OneChannel'
    BY <1>2 DEF Progress, Asks, OneChannel
  <1> QED
    BY <1>6, <1>7, <1>8, <1>9 DEF MmioInv

LEMMA ApplyStarts ==
    ASSUME MmioInv, NEW c \in Configurations, ApplyConfigureFrontend(c)
    PROVE  MmioInv'
  <1> DEFINE s == c.channels
             g == AllChannelWrites(s)
             n == Len(g)
             m == Len(s)
  <1>1. Start /\ todo' = ApplyWrites(c)
    BY DEF ApplyConfigureFrontend
  <1>2. /\ s \in Seq(StagedChannels) /\ c.vbias \in Values
        /\ m \in Nat /\ \A k \in 1 .. m : s[k] \in StagedChannels
    <2>1. s \in Seq(StagedChannels) /\ c.vbias \in Values
      BY ApplyList
    <2> HIDE DEF s
    <2> QED
      BY <2>1
  <1>3. command' \in Commands /\ command'.op = "Apply" /\ command'.vbias = c.vbias /\ command'.config = c
    BY <1>2 DEF ApplyConfigureFrontend, Commands
  <1>4. /\ todo' \in Seq(Writes) /\ todo' # <<>> /\ n \in Nat
        /\ DOMAIN g = 1 .. n
        /\ \A i \in DOMAIN todo' : i \in Nat \ {0}
        /\ \A i \in 1 .. n : i \in DOMAIN todo' /\ todo'[i] = g[i]
        /\ n + 1 \in DOMAIN todo' /\ todo'[n + 1] = DacWrite(Vbias, c.vbias)
        /\ n + 2 \in DOMAIN todo'
        /\ todo'[n + 2] = [kind |-> "enable", value |-> c.vbias, enable |-> TRUE]
        /\ \A i \in DOMAIN todo' : i > n + 2 => Quiet(todo'[i])
    BY <1>1, ApplyList
  <1>5. TypeOK' /\ CommandOK' /\ HalvesOwn' /\ PairCacheSound' /\ ScalarInv'
    BY <1>1, <1>3, <1>4, Starting
  <1>6. /\ \A i \in 1 .. n : \E k \in 1 .. m :
             \/ i = 2 * k - 1 /\ g[i] = Of(s[k], "trim")
             \/ i = 2 * k /\ g[i] = Of(s[k], "offset")
        /\ \A k \in 1 .. m :
             /\ 2 * k - 1 \in 1 .. n /\ 2 * k \in 1 .. n
             /\ g[2 * k - 1] = Of(s[k], "trim") /\ g[2 * k] = Of(s[k], "offset")
    <2> HIDE DEF s
    <2>1. /\ \A i \in DOMAIN g : \E k \in 1 .. m :
               \/ i = 2 * k - 1 /\ g[i] = Of(s[k], "trim")
               \/ i = 2 * k /\ g[i] = Of(s[k], "offset")
          /\ \A k \in 1 .. m :
               /\ 2 * k - 1 \in DOMAIN g /\ 2 * k \in DOMAIN g
               /\ g[2 * k - 1] = Of(s[k], "trim") /\ g[2 * k] = Of(s[k], "offset")
      BY <1>2, ChannelList
    <2> HIDE DEF g, n, m
    <2> QED
      BY <1>4, <2>1
  <1>7. \A k \in 1 .. m, b \in Banks :
          Of(s[k], b).kind = "pair" /\ Of(s[k], b).bank = b
            /\ Of(s[k], b).afe = s[k].afe /\ Of(s[k], b).channel = s[k].channel
    BY <1>2, StagedFields, PairWrites DEF Of
  <1>8. \A i \in 1 .. n : g[i].kind = "pair"
    BY <1>6, <1>7 DEF Banks
  <1>9. \A i \in DOMAIN todo' : i \in 1 .. n \/ i = n + 1 \/ i = n + 2 \/ i > n + 2
    BY <1>4
  <1>10. todo'[n + 1].kind = "dac"
    BY <1>2, <1>4, OutputNames, DacWrites
  <1>11. todo'[n + 2].kind = "enable" /\ todo'[n + 2].value = c.vbias
    BY <1>4
  <1> HIDE DEF g, n, m, s
  <1>12. \A i \in DOMAIN todo' : todo'[i].kind = "enable" => i = n + 2
    BY <1>4, <1>8, <1>9, <1>10 DEF Quiet
  <1>13. \A i \in DOMAIN todo' : todo'[i].kind = "dac" /\ todo'[i].output = Vbias => i = n + 1
    BY <1>4, <1>8, <1>9, <1>11 DEF Quiet
  <1>14. \A i \in DOMAIN todo' : todo'[i].kind = "pair" => i \in 1 .. n
    BY <1>4, <1>9, <1>10, <1>11 DEF Quiet
  <1>15. EnableInv'
    <2>1. (n + 2) - 1 = n + 1 /\ (n + 1) + 1 = n + 2 /\ n + 2 # 1
      BY <1>4
    <2> QED
      BY <1>3, <1>4, <1>11, <1>12, <1>13, <2>1 DEF EnableInv, Enabling
  <1>16. InChannelOrder'
    <2> SUFFICES ASSUME NEW b \in Banks, NEW a \in Afes,
                        NEW i \in DOMAIN todo', NEW j \in DOMAIN todo',
                        i < j, PairOf(i, b, a)', PairOf(j, b, a)'
                 PROVE  todo'[i].channel < todo'[j].channel
      BY DEF InChannelOrder
    <2>1. i \in 1 .. n /\ j \in 1 .. n /\ todo'[i] = g[i] /\ todo'[j] = g[j]
      BY <1>4, <1>14 DEF PairOf
    <2>2. PICK k \in 1 .. m : \/ i = 2 * k - 1 /\ g[i] = Of(s[k], "trim")
                              \/ i = 2 * k /\ g[i] = Of(s[k], "offset")
      BY <1>6, <2>1
    <2>3. PICK l \in 1 .. m : \/ j = 2 * l - 1 /\ g[j] = Of(s[l], "trim")
                              \/ j = 2 * l /\ g[j] = Of(s[l], "offset")
      BY <1>6, <2>1
    <2>4. "trim" \in Banks /\ "offset" \in Banks
      BY DEF Banks
    <2>5. /\ g[i].bank = b /\ g[i].afe = a /\ g[i].channel = s[k].channel /\ s[k].afe = a
          /\ g[j].bank = b /\ g[j].afe = a /\ g[j].channel = s[l].channel /\ s[l].afe = a
      BY <1>7, <2>1, <2>2, <2>3, <2>4 DEF PairOf
    <2>6. \/ i = 2 * k - 1 /\ j = 2 * l - 1
          \/ i = 2 * k /\ j = 2 * l
      <3>1. CASE b = "trim"
        BY <1>7, <2>2, <2>3, <2>4, <2>5, <3>1
      <3>2. CASE b # "trim"
        BY <1>7, <2>2, <2>3, <2>4, <2>5, <3>2
      <3> QED
        BY <3>1, <3>2
    <2>7. k < l
      BY <1>2, <2>6
    <2>8. s[k].channel < s[l].channel
      BY <2>5, <2>7, MmioAssumption DEF s, m
    <2> QED
      BY <2>1, <2>5, <2>8
  <1>17. Progress'
    <2> SUFFICES ASSUME NEW b \in Banks, NEW a \in Afes, NEW x \in Channels, NEW v \in Values,
                        Asks(b, a, x, v)'
                 PROVE  Pending(b, a, x, v)'
      BY DEF Progress
    <2>1. PICK k \in Staged(c, a) : s[k].channel = x /\ Staging(s[k], b) = v
      BY <1>3 DEF Asks, s
    <2>2. k \in 1 .. m /\ s[k].afe = a
      BY <1>2, <2>1 DEF Staged, s, m
    <2>3. PairWrite(b, a, x, v) = Of(s[k], b)
      BY <2>1, <2>2 DEF Of
    <2>4. CASE b = "trim"
      <3>1. 2 * k - 1 \in DOMAIN todo' /\ todo'[2 * k - 1] = PairWrite(b, a, x, v)
        BY <1>4, <1>6, <2>2, <2>3, <2>4
      <3> QED
        BY <3>1 DEF Pending
    <2>5. CASE b = "offset"
      <3>1. 2 * k \in DOMAIN todo' /\ todo'[2 * k] = PairWrite(b, a, x, v)
        BY <1>4, <1>6, <2>2, <2>3, <2>5
      <3> QED
        BY <3>1 DEF Pending
    <2> QED
      BY <2>4, <2>5 DEF Banks
  <1>18. OneChannel'
    BY <1>3 DEF OneChannel
  <1> QED
    BY <1>5, <1>15, <1>16, <1>17, <1>18 DEF MmioInv

-------------------------------------------------------------------------------
(***************************************************************************)
(* The command goes on, or gives up                                        *)
(***************************************************************************)
LEMMA ProceedTyped ==
    ASSUME MmioInv, todo # <<>>, Proceed
    PROVE  /\ todo' \in Seq(Writes) /\ result' \in {"none", "ok", "timeout"}
           /\ result' = "none" <=> todo' # <<>>
           /\ result' # "timeout" /\ result = "none"
           /\ command' = command /\ commands' \in 0 .. MaxCommands /\ CommandOK'
  BY GoingOn DEF MmioInv, TypeOK, Proceed, CommandOK

LEMMA GiveUpKeeps ==
    ASSUME MmioInv, GiveUp
    PROVE  /\ todo' \in Seq(Writes) /\ todo' = <<>> /\ result' = "timeout"
           /\ commands' \in 0 .. MaxCommands
           /\ CommandOK' /\ EnableInv' /\ InChannelOrder' /\ Progress' /\ OneChannel'
  <1>1. todo' = <<>> /\ DOMAIN todo' = {} /\ result' = "timeout" /\ command' = command /\ commands' = commands
    BY DEF GiveUp
  <1>2. EnableInv' /\ InChannelOrder' /\ Progress' /\ OneChannel'
    BY <1>1 DEF EnableInv, InChannelOrder, Progress, OneChannel
  <1> QED
    BY <1>1, <1>2 DEF MmioInv, TypeOK, CommandOK

LEMMA OrderProceeds ==
    ASSUME MmioInv, todo # <<>>, Proceed
    PROVE  InChannelOrder'
  <1>1. \A i \in DOMAIN todo' : i \in Nat \ {0} /\ i + 1 \in DOMAIN todo /\ todo'[i] = todo[i + 1]
    BY GoingOn DEF MmioInv, TypeOK, Proceed
  <1> SUFFICES ASSUME NEW b \in Banks, NEW a \in Afes, NEW i \in DOMAIN todo', NEW j \in DOMAIN todo',
                      i < j, PairOf(i, b, a)', PairOf(j, b, a)'
               PROVE  todo'[i].channel < todo'[j].channel
    BY DEF InChannelOrder
  <1>2. i + 1 < j + 1 /\ PairOf(i + 1, b, a) /\ PairOf(j + 1, b, a)
    BY <1>1 DEF PairOf
  <1> QED
    BY <1>1, <1>2 DEF MmioInv, InChannelOrder

\* The enable keeps its DAC before it, provided that a write to VBIAS sets the DAC.
LEMMA EnableProceeds ==
    ASSUME MmioInv, todo # <<>>, Proceed,
           \A v \in Values : Write = DacWrite(Vbias, v) => dac_out'[Vbias] = v
    PROVE  EnableInv'
  <1>1. /\ Write = todo[1]
        /\ \A i \in DOMAIN todo' : i \in Nat \ {0} /\ i + 1 \in DOMAIN todo /\ todo'[i] = todo[i + 1]
        /\ \A i \in DOMAIN todo : i \in Nat /\ i > 1 => i - 1 \in DOMAIN todo' /\ todo'[i - 1] = todo[i]
        /\ \A i \in DOMAIN todo : todo[i] \in Writes
        /\ command' = command
    BY GoingOn DEF MmioInv, TypeOK, Proceed
  <1>2. ASSUME NEW i \in DOMAIN todo', Enabling(i)'
        PROVE  /\ todo'[i].value = command'.vbias
               /\ IF i = 1 THEN dac_out'[Vbias] = todo'[i].value
                           ELSE todo'[i - 1] = DacWrite(Vbias, todo'[i].value)
    <2> DEFINE v == todo[i + 1].value
    <2>1. i + 1 \in DOMAIN todo /\ i \in Nat \ {0} /\ todo'[i] = todo[i + 1] /\ Enabling(i + 1) /\ i + 1 # 1
      BY <1>1, <1>2 DEF Enabling
    <2>2. v = command.vbias /\ todo[(i + 1) - 1] = DacWrite(Vbias, v)
      BY <2>1 DEF MmioInv, EnableInv
    <2>3. (i + 1) - 1 = i
      BY <2>1
    <2>4. todo[i] = DacWrite(Vbias, v)
      BY <2>2, <2>3
    <2>5. v \in Values
      BY <1>1, <2>1, WriteFields DEF Enabling
    <2>6. CASE i = 1
      BY <1>1, <2>1, <2>2, <2>4, <2>5, <2>6
    <2>7. CASE i # 1
      <3>1. i > 1 /\ i \in DOMAIN todo
        BY <1>1, <2>1, <2>7, GoingOn DEF MmioInv, TypeOK, Proceed
      <3>2. todo'[i - 1] = todo[i]
        BY <1>1, <3>1
      <3> QED
        BY <1>1, <2>1, <2>2, <2>4, <2>7, <3>2
    <2> QED
      BY <2>6, <2>7
  <1>3. ASSUME NEW i \in DOMAIN todo', todo'[i].kind = "dac", todo'[i].output = Vbias
        PROVE  i + 1 \in DOMAIN todo' /\ Enabling(i + 1)'
    <2>1. i + 1 \in DOMAIN todo /\ i \in Nat \ {0} /\ todo'[i] = todo[i + 1]
      BY <1>1
    <2>2. (i + 1) + 1 \in DOMAIN todo /\ Enabling((i + 1) + 1)
      BY <1>3, <2>1 DEF MmioInv, EnableInv
    <2>3. (i + 1) + 1 > 1 /\ ((i + 1) + 1) - 1 = i + 1
      BY <2>1
    <2>4. i + 1 \in DOMAIN todo' /\ todo'[i + 1] = todo[(i + 1) + 1]
      BY <1>1, <2>2, <2>3
    <2> QED
      BY <2>2, <2>4 DEF Enabling
  <1> QED
    BY <1>2, <1>3 DEF EnableInv

\* Writes that are not to the pairs leave what is pending pending, and what is settled settled.
LEMMA OthersProceed ==
    ASSUME MmioInv, todo # <<>>, Proceed, Write.kind # "pair", UNCHANGED <<halves, pair_out>>
    PROVE  Progress' /\ OneChannel'
  <1>1. /\ Write = todo[1]
        /\ \A i \in DOMAIN todo' : i \in Nat \ {0} /\ i + 1 \in DOMAIN todo /\ todo'[i] = todo[i + 1]
        /\ \A i \in DOMAIN todo : i \in Nat /\ i > 1 => i - 1 \in DOMAIN todo' /\ todo'[i - 1] = todo[i]
        /\ \A i \in DOMAIN todo : i \in Nat \ {0}
    BY GoingOn DEF MmioInv, TypeOK, Proceed
  <1>2. command' = command /\ result = "none" /\ result' # "timeout"
    BY ProceedTyped
  <1>3. ASSUME NEW b \in Banks, NEW a \in Afes, NEW c \in Channels, NEW v \in Values, Asks(b, a, c, v)'
        PROVE  Pending(b, a, c, v)' \/ Settled(b, a, c, v)'
    <2>1. Asks(b, a, c, v)
      BY <1>2, <1>3 DEF Asks
    <2>2. CASE Pending(b, a, c, v)
      <3>1. PICK i \in DOMAIN todo : todo[i] = PairWrite(b, a, c, v)
        BY <2>2 DEF Pending
      <3>2. i # 1
        BY <1>1, <3>1, PairWrites
      <3>3. i - 1 \in DOMAIN todo' /\ todo'[i - 1] = PairWrite(b, a, c, v)
        BY <1>1, <3>1, <3>2
      <3> QED
        BY <3>3 DEF Pending
    <2>3. CASE Settled(b, a, c, v)
      BY <1>1, <2>3 DEF Settled, PairOf
    <2> QED
      BY <1>2, <2>1, <2>2, <2>3 DEF MmioInv, Progress
  <1>4. command.op # "SetChannel"
    <2> SUFFICES ASSUME command.op = "SetChannel"
                 PROVE  FALSE
      OBVIOUS
    <2> DEFINE w == PairWrite(command.bank, command.afe, command.channel, command.value)
    <2>1. todo = <<w>>
      BY <1>2 DEF MmioInv, OneChannel
    <2>2. w.kind = "pair"
      BY DEF PairWrite
    <2> QED
      BY <1>1, <2>1, <2>2
  <1> QED
    BY <1>2, <1>3, <1>4 DEF Progress, OneChannel

-------------------------------------------------------------------------------
(***************************************************************************)
(* A write to a pair of DACs                                               *)
(***************************************************************************)

\* The write at hand, when it goes to a pair.
LEMMA PairAtHand ==
    ASSUME MmioInv, Running("pair")
    PROVE  /\ todo # <<>> /\ Write = todo[1] /\ Write.kind = "pair" /\ 1 \in DOMAIN todo
           /\ Write.bank \in Banks /\ Write.afe \in Afes
           /\ Write.channel \in Channels /\ Write.value \in Values
           /\ Write = PairWrite(Write.bank, Write.afe, Write.channel, Write.value)
  <1>1. todo \in Seq(Writes) /\ todo # <<>> /\ Write.kind = "pair"
    BY DEF MmioInv, TypeOK, Running
  <1>2. Write = todo[1] /\ Write \in Writes /\ 1 \in DOMAIN todo
    BY <1>1 DEF Write
  <1> QED
    BY <1>1, <1>2, WriteFields

LEMMA HalfCached ==
    ASSUME MmioInv, Running("pair"), CacheHalf
    PROVE  /\ halves' \in [Banks -> [Afes -> [Channels -> [address : 0 .. PerDac - 1, value : Values]]]]
           /\ \A b \in Banks, a \in Afes, c \in Channels :
                halves'[b][a][c] = IF b = Write.bank /\ a = Write.afe /\ c = Write.channel
                                   THEN Half(c, Write.value) ELSE halves[b][a][c]
           /\ HalvesOwn'
  <1> DEFINE H == [address : 0 .. PerDac - 1, value : Values]
             h == Half(Write.channel, Write.value)
  <1>1. halves \in [Banks -> [Afes -> [Channels -> H]]]
    BY DEF MmioInv, TypeOK
  <1>2. h \in H /\ h.value = Write.value
    BY PairAtHand, HalfNames
  <1>3. halves' = [halves EXCEPT ![Write.bank][Write.afe][Write.channel] = h]
    BY DEF CacheHalf
  <1> HIDE DEF h, H
  <1>4. halves' \in [Banks -> [Afes -> [Channels -> H]]]
    BY <1>1, <1>2, <1>3, PairAtHand
  <1>5. \A b \in Banks, a \in Afes, c \in Channels :
          halves'[b][a][c] = IF b = Write.bank /\ a = Write.afe /\ c = Write.channel
                             THEN h ELSE halves[b][a][c]
    BY <1>1, <1>3, PairAtHand
  <1>6. HalvesOwn'
    BY <1>2, <1>5 DEF MmioInv, HalvesOwn, h
  <1> QED
    BY <1>4, <1>5, <1>6 DEF H, h

\* What the companion's half sets: the companion's own output, or, when the half was never
\* set, the first output of the companion's DAC; never the output of the channel at hand.
LEMMA CompanionSets ==
    ASSUME MmioInv, Running("pair")
    PROVE  LET c == Write.channel
               d == Companion(c)
               half == halves[Write.bank][Write.afe][d]
               o == OutputOf(d, half)
           IN  /\ o \in Channels /\ o # c /\ half.value \in Values /\ d \in Channels /\ d # c
               /\ o < PerDac <=> ~(c < PerDac)
               /\ half = Half(d, half.value) => o = d
               /\ half # Half(d, half.value) =>
                    half = UnsetHalf /\ half.value = 0 /\ o % PerDac = 0
                      /\ o = (IF d < PerDac THEN 0 ELSE PerDac)
  <1> DEFINE c == Write.channel
             d == Companion(c)
             half == halves[Write.bank][Write.afe][d]
             o == OutputOf(d, half)
  <1>1. c \in Channels /\ d \in Channels /\ d # c /\ (c < PerDac <=> ~(d < PerDac))
    BY PairAtHand, Companions
  <1>2. half \in [address : 0 .. PerDac - 1, value : Values]
    <2> HIDE DEF c, d
    <2> QED
      BY <1>1, PairAtHand DEF MmioInv, TypeOK
  <1>3. half = UnsetHalf \/ half = Half(d, half.value)
    <2> HIDE DEF c, d
    <2> QED
      BY <1>1, PairAtHand DEF MmioInv, HalvesOwn
  <1>4. half.value \in Values
    BY <1>2
  <1> HIDE DEF c, d, half
  <1>5. CASE half = Half(d, half.value)
    <2>1. o = d
      BY <1>1, <1>4, <1>5, HalfNames
    <2> QED
      BY <1>1, <1>4, <1>5, <2>1 DEF c, d, half
  <1>6. CASE half # Half(d, half.value)
    <2>1. half = UnsetHalf
      BY <1>3, <1>6
    <2>2. /\ o \in Channels /\ o = (IF d < PerDac THEN 0 ELSE PerDac)
          /\ o % PerDac = 0 /\ half.value = 0
      BY <1>1, <2>1, UnsetNames
    <2>3. (o < PerDac <=> ~(c < PerDac)) /\ o # c
      BY <1>1, <2>2, MmioAssumption DEF Channels
    <2> QED
      BY <1>1, <1>4, <1>6, <2>1, <2>2, <2>3 DEF c, d, half
  <1> QED
    BY <1>5, <1>6

\* The word sets the output of the channel at hand, and the one its companion's half names.
LEMMA WordSets ==
    ASSUME MmioInv, Running("pair"), CacheHalf
    PROVE  LET c == Write.channel
               half == halves[Write.bank][Write.afe][Companion(c)]
               o == OutputOf(Companion(c), half)
           IN  /\ DOMAIN SetByWord = {c, o}
               /\ SetByWord[c] = Write.value
               /\ SetByWord[o] = half.value
  <1> DEFINE b == Write.bank
             a == Write.afe
             c == Write.channel
             d == Companion(c)
             own == halves'[b][a][c]
             other == halves'[b][a][d]
             half == halves[b][a][d]
             o == OutputOf(d, half)
  <1>1. b \in Banks /\ a \in Afes /\ c \in Channels /\ d \in Channels /\ d # c /\ o # c
    BY PairAtHand, CompanionSets
  <1>2. own = Half(c, Write.value) /\ other = half
    <2> HIDE DEF c, d
    <2>1. own = Half(c, Write.value)
      BY <1>1, HalfCached DEF c
    <2>2. other = half
      BY <1>1, HalfCached DEF c
    <2> QED
      BY <2>1, <2>2
  <1>3. OutputOf(c, own) = c /\ own.value = Write.value
    BY <1>2, PairAtHand, HalfNames
  <1>4. SetByWord = [x \in {OutputOf(c, own), OutputOf(d, other)} |->
                       IF x = OutputOf(c, own) THEN own.value ELSE other.value]
    BY Zenon DEF SetByWord
  <1> HIDE DEF own, other, o
  <1>5. SetByWord = [x \in {c, o} |-> IF x = c THEN Write.value ELSE half.value]
    BY <1>2, <1>3, <1>4 DEF o
  <1> HIDE DEF half, c
  <1> QED
    BY <1>1, <1>5 DEF o, half, c

\* The outputs after a write to a pair.
LEMMA OutputsWritten ==
    ASSUME MmioInv, Running("pair"), CacheHalf, WritePair
    PROVE  LET x == Write.channel
               half == halves[Write.bank][Write.afe][Companion(x)]
               o == OutputOf(Companion(x), half)
           IN  /\ pair_out' \in [Banks -> [Afes -> [Channels -> Values]]]
               /\ \A b \in Banks, a \in Afes, c \in Channels :
                    pair_out'[b][a][c] =
                      IF b = Write.bank /\ a = Write.afe /\ c = x THEN Write.value
                      ELSE IF b = Write.bank /\ a = Write.afe /\ c = o THEN half.value
                      ELSE pair_out[b][a][c]
  <1> DEFINE x == Write.channel
             half == halves[Write.bank][Write.afe][Companion(x)]
             o == OutputOf(Companion(x), half)
             w == SetByWord
             row(r) == [c \in Channels |-> IF c \in DOMAIN w THEN w[c] ELSE r[c]]
  <1>1. pair_out \in [Banks -> [Afes -> [Channels -> Values]]]
    BY DEF MmioInv, TypeOK
  <1>2. /\ Write.bank \in Banks /\ Write.afe \in Afes
        /\ x \in Channels /\ Write.value \in Values /\ half.value \in Values /\ o # x
    BY PairAtHand, CompanionSets
  <1>3. DOMAIN w = {x, o} /\ w[x] = Write.value /\ w[o] = half.value
    BY WordSets
  <1>4. pair_out' = [pair_out EXCEPT ![Write.bank][Write.afe] = row(pair_out[Write.bank][Write.afe])]
    BY DEF WritePair
  <1> HIDE DEF w, x, half, o
  <1>5. \A b \in Banks, a \in Afes, c \in Channels :
          row(pair_out[b][a])[c] = IF c = x THEN Write.value
                                   ELSE IF c = o THEN half.value ELSE pair_out[b][a][c]
    BY <1>3
  <1>6. \A b \in Banks, a \in Afes : row(pair_out[b][a]) \in [Channels -> Values]
    BY <1>1, <1>2, <1>3
  <1> HIDE DEF row
  <1>7. pair_out' \in [Banks -> [Afes -> [Channels -> Values]]]
    BY <1>1, <1>2, <1>4, <1>6
  <1>8. \A b \in Banks, a \in Afes :
          pair_out'[b][a] = IF b = Write.bank /\ a = Write.afe
                            THEN row(pair_out[b][a]) ELSE pair_out[b][a]
    BY <1>1, <1>2, <1>4
  <1>9. \A b \in Banks, a \in Afes, c \in Channels :
          pair_out'[b][a][c] =
            IF b = Write.bank /\ a = Write.afe /\ c = x THEN Write.value
            ELSE IF b = Write.bank /\ a = Write.afe /\ c = o THEN half.value
            ELSE pair_out[b][a][c]
    BY <1>5, <1>8
  <1> QED
    BY <1>7, <1>9 DEF x, half, o

LEMMA PairMarked ==
    ASSUME MmioInv, Running("pair"), MarkPair
    PROVE  /\ pair_history' \in [Banks -> [Afes -> [Channels -> HistoryStates]]]
           /\ \A b \in Banks, a \in Afes, c \in Channels :
                pair_history'[b][a][c] = IF b = Write.bank /\ a = Write.afe /\ c = Write.channel
                                         THEN "timeout" ELSE pair_history[b][a][c]
  <1>1. pair_history \in [Banks -> [Afes -> [Channels -> HistoryStates]]]
    BY DEF MmioInv, TypeOK
  <1>2. "timeout" \in HistoryStates
    BY DEF HistoryStates
  <1>3. pair_history' = [pair_history EXCEPT ![Write.bank][Write.afe][Write.channel] = "timeout"]
    BY DEF MarkPair
  <1> QED
    BY <1>1, <1>2, <1>3, PairAtHand

LEMMA ScalarsStay ==
    ASSUME MmioInv, UNCHANGED <<cached, vbias_enabled, dac_out, bias_enable, dac_history>>,
           todo # <<>>, Write.kind # "enable"
    PROVE  ScalarInv'
  <1>1. cached[Vbias] = dac_out[Vbias] \/ dac_history[Vbias] # "written"
    BY DEF MmioInv, ScalarInv, Enabling, Write
  <1> QED
    BY <1>1 DEF MmioInv, ScalarInv

LEMMA PairNotWrittenKeeps ==
    ASSUME MmioInv, PairNotWritten
    PROVE  MmioInv'
  <1>1. Running("pair") /\ CacheHalf /\ MarkPair /\ GiveUp
    BY DEF PairNotWritten
  <1>2. UNCHANGED <<pair_out, dac_out, bias_enable, cached, vbias_enabled, dac_history>>
    BY DEF PairNotWritten, hardware
  <1>3. TypeOK'
    BY <1>1, <1>2, GiveUpKeeps, HalfCached, PairMarked DEF MmioInv, TypeOK
  <1>4. PairCacheSound'
    <2> SUFFICES ASSUME NEW b \in Banks, NEW a \in Afes, NEW c \in Channels,
                        pair_history'[b][a][c] = "written"
                 PROVE  \/ pair_out'[b][a][c] = halves'[b][a][c].value
                        \/ c % PerDac = 0 /\ pair_out'[b][a][c] = 0
      BY DEF PairCacheSound
    <2>1. ~(b = Write.bank /\ a = Write.afe /\ c = Write.channel)
      BY <1>1, PairMarked
    <2>2. halves'[b][a][c] = halves[b][a][c] /\ pair_history[b][a][c] = "written"
      BY <1>1, <2>1, HalfCached, PairMarked
    <2> QED
      BY <1>2, <2>2 DEF MmioInv, PairCacheSound
  <1>5. ScalarInv'
    BY <1>1, <1>2, PairAtHand, ScalarsStay
  <1> QED
    BY <1>1, <1>3, <1>4, <1>5, GiveUpKeeps, HalfCached DEF MmioInv

\* After a word was written, both outputs it sets are as the cache says.
LEMMA WrittenSound ==
    ASSUME MmioInv, Running("pair"), CacheHalf, WritePair,
           NEW b \in Banks, NEW a \in Afes, NEW c \in Channels,
           \/ pair_history[b][a][c] = "written"
           \/ b = Write.bank /\ a = Write.afe /\ c \in DOMAIN SetByWord
    PROVE  \/ pair_out'[b][a][c] = halves'[b][a][c].value
           \/ c % PerDac = 0 /\ pair_out'[b][a][c] = 0
  <1> DEFINE x == Write.channel
             d == Companion(x)
             half == halves[Write.bank][Write.afe][d]
             o == OutputOf(d, half)
  <1>1. /\ o \in Channels /\ o # x /\ d \in Channels /\ d # x
        /\ half = Half(d, half.value) => o = d
        /\ half # Half(d, half.value) => half.value = 0 /\ o % PerDac = 0
    BY CompanionSets
  <1>2. DOMAIN SetByWord = {x, o}
    BY WordSets
  <1>3. x \in Channels /\ Write.value \in Values /\ Half(x, Write.value).value = Write.value
    BY PairAtHand, HalfNames
  <1>4. pair_out'[b][a][c] =
          IF b = Write.bank /\ a = Write.afe /\ c = x THEN Write.value
          ELSE IF b = Write.bank /\ a = Write.afe /\ c = o THEN half.value
          ELSE pair_out[b][a][c]
    BY OutputsWritten
  <1>5. halves'[b][a][c] = IF b = Write.bank /\ a = Write.afe /\ c = x
                           THEN Half(c, Write.value) ELSE halves[b][a][c]
    BY HalfCached
  <1> HIDE DEF x, d, o
  <1>6. CASE b = Write.bank /\ a = Write.afe /\ c = x
    BY <1>3, <1>4, <1>5, <1>6
  <1>7. CASE b = Write.bank /\ a = Write.afe /\ c = o
    <2>1. CASE half = Half(d, half.value)
      BY <1>1, <1>4, <1>5, <1>7, <2>1
    <2>2. CASE half # Half(d, half.value)
      BY <1>1, <1>4, <1>7, <2>2
    <2> QED
      BY <2>1, <2>2
  <1>8. CASE ~(b = Write.bank /\ a = Write.afe /\ c \in {x, o})
    <2>1. pair_history[b][a][c] = "written"
      BY <1>2, <1>8
    <2> QED
      BY <1>4, <1>5, <1>8, <2>1 DEF MmioInv, PairCacheSound
  <1> QED
    BY <1>6, <1>7, <1>8

LEMMA PairWrittenLateKeeps ==
    ASSUME MmioInv, PairWrittenLate
    PROVE  MmioInv'
  <1>1. Running("pair") /\ CacheHalf /\ WritePair /\ MarkPair /\ GiveUp
    BY DEF PairWrittenLate
  <1>2. UNCHANGED <<cached, vbias_enabled, dac_out, bias_enable, dac_history>>
    BY <1>1 DEF WritePair
  <1>3. TypeOK'
    BY <1>1, <1>2, GiveUpKeeps, HalfCached, OutputsWritten, PairMarked DEF MmioInv, TypeOK
  <1>4. PairCacheSound'
    <2> SUFFICES ASSUME NEW b \in Banks, NEW a \in Afes, NEW c \in Channels,
                        pair_history'[b][a][c] = "written"
                 PROVE  \/ pair_out'[b][a][c] = halves'[b][a][c].value
                        \/ c % PerDac = 0 /\ pair_out'[b][a][c] = 0
      BY DEF PairCacheSound
    <2>1. pair_history[b][a][c] = "written"
      BY <1>1, PairMarked
    <2> QED
      BY <1>1, <2>1, WrittenSound
  <1>5. ScalarInv'
    BY <1>1, <1>2, PairAtHand, ScalarsStay
  <1> QED
    BY <1>1, <1>3, <1>4, <1>5, GiveUpKeeps, HalfCached DEF MmioInv

\* Every channel of an AFE that the command covers is asked for.
LEMMA AsksForAll ==
    ASSUME MmioInv, NEW b \in Banks, NEW a \in Afes, NEW c \in Channels, NEW v \in Values,
           Asks(b, a, c, v), NEW d \in Channels
    PROVE  \E u \in Values : Asks(b, a, d, u)
  <1>1. CASE command.op # "Apply"
    <2>1. Asks(b, a, d, v)
      BY <1>1 DEF Asks
    <2> QED
      BY <2>1
  <1>2. CASE command.op = "Apply"
    <2> DEFINE s == command.config.channels
    <2>1. Full(command.config, a)
      BY <1>2 DEF Asks
    <2>2. PICK i \in Staged(command.config, a) : s[i].channel = d
      BY <2>1 DEF Full
    <2>3. command.config \in Configurations
      BY <1>2 DEF MmioInv, CommandOK, Commands
    <2>4. s \in Seq(StagedChannels)
      BY <2>3, ApplyList
    <2>5. s[i] \in StagedChannels
      <3>1. i \in DOMAIN s
        BY <2>2 DEF Staged
      <3> HIDE DEF s
      <3> QED
        BY <2>4, <3>1
    <2>6. Staging(s[i], b) \in Values
      BY <2>5, StagedFields
    <2>7. Asks(b, a, d, Staging(s[i], b))
      BY <1>2, <2>1, <2>2 DEF Asks
    <2> QED
      BY <2>6, <2>7
  <1> QED
    BY <1>1, <1>2

\* A write to a pair settles its own channel and unsettles none: what an unset companion
\* half clobbers is an output that the command has yet to write.
LEMMA PairProceeds ==
    ASSUME MmioInv, Running("pair"), CacheHalf, WritePair, Proceed
    PROVE  Progress' /\ OneChannel'
  <1> DEFINE bank == Write.bank
             afe == Write.afe
             x == Write.channel
             d == Companion(x)
             half == halves[bank][afe][d]
             o == OutputOf(d, half)
  <1>1. /\ todo # <<>> /\ Write = todo[1] /\ Write.kind = "pair" /\ 1 \in DOMAIN todo
        /\ bank \in Banks /\ afe \in Afes /\ x \in Channels /\ Write.value \in Values
        /\ Write = PairWrite(bank, afe, x, Write.value)
    BY PairAtHand
  <1>2. /\ \A i \in DOMAIN todo' : i \in Nat \ {0} /\ i + 1 \in DOMAIN todo /\ todo'[i] = todo[i + 1]
        /\ \A i \in DOMAIN todo : i \in Nat /\ i > 1 => i - 1 \in DOMAIN todo' /\ todo'[i - 1] = todo[i]
        /\ \A i \in DOMAIN todo : i \in Nat \ {0} /\ todo[i] \in Writes
    BY <1>1, GoingOn DEF MmioInv, TypeOK, Proceed
  <1>3. command' = command /\ result = "none" /\ result' # "timeout"
    BY <1>1, ProceedTyped
  <1>4. \A b \in Banks, a \in Afes, c \in Channels :
          /\ halves'[b][a][c] = IF b = bank /\ a = afe /\ c = x
                                THEN Half(c, Write.value) ELSE halves[b][a][c]
          /\ pair_out'[b][a][c] = IF b = bank /\ a = afe /\ c = x THEN Write.value
                                  ELSE IF b = bank /\ a = afe /\ c = o THEN half.value
                                  ELSE pair_out[b][a][c]
    BY HalfCached, OutputsWritten
  <1>5. /\ o \in Channels /\ o # x /\ d \in Channels /\ d # x
        /\ half = Half(d, half.value) => o = d
        /\ half # Half(d, half.value) => o = (IF d < PerDac THEN 0 ELSE PerDac)
        /\ x < PerDac <=> ~(d < PerDac)
    BY CompanionSets, PairAtHand, Companions
  <1>6. Channels \subseteq Nat /\ PerDac \in Nat
    BY MmioAssumption DEF Channels
  <1> HIDE DEF bank, afe, x, d, half, o
  \* The writes to the AFE at hand that are still to come are to higher channels.
  <1>7. ASSUME NEW i \in DOMAIN todo, i # 1, PairOf(i, bank, afe)
        PROVE  x < todo[i].channel
    <2>1. 1 < i /\ PairOf(1, bank, afe) /\ todo[1].channel = x
      BY <1>1, <1>2, <1>7 DEF PairOf, bank, afe, x
    <2> QED
      BY <1>1, <1>7, <2>1 DEF MmioInv, InChannelOrder
  \* A settled channel of the AFE at hand is lower than the one being written.
  <1>8. ASSUME NEW c \in Channels, NEW v \in Values, Settled(bank, afe, c, v)
        PROVE  c < x
    BY <1>1, <1>8 DEF Settled, PairOf, bank, afe, x
  \* A write that is pending after this one was so before, and is not the one at hand.
  <1>9. ASSUME NEW b \in Banks, NEW a \in Afes, NEW c \in Channels, NEW v \in Values,
               Pending(b, a, c, v), ~(b = bank /\ a = afe /\ c = x)
        PROVE  Pending(b, a, c, v)'
    <2>1. PICK i \in DOMAIN todo : todo[i] = PairWrite(b, a, c, v)
      BY <1>9 DEF Pending
    <2>2. i # 1
      BY <1>1, <1>9, <2>1, PairWrites DEF bank, afe, x
    <2>3. i - 1 \in DOMAIN todo' /\ todo'[i - 1] = PairWrite(b, a, c, v)
      BY <1>2, <2>1, <2>2
    <2> QED
      BY <2>3 DEF Pending
  <1>10. ASSUME NEW b \in Banks, NEW a \in Afes, NEW c \in Channels, NEW v \in Values, Asks(b, a, c, v)'
         PROVE  Pending(b, a, c, v)' \/ Settled(b, a, c, v)'
    <2>1. Asks(b, a, c, v)
      BY <1>3, <1>10 DEF Asks
    <2>2. Pending(b, a, c, v) \/ Settled(b, a, c, v)
      BY <1>3, <2>1 DEF MmioInv, Progress
    <2>3. CASE ~(b = bank /\ a = afe)
      <3>1. CASE Pending(b, a, c, v)
        BY <1>9, <2>3, <3>1
      <3>2. CASE Settled(b, a, c, v)
        <4>1. pair_out'[b][a][c] = v /\ halves'[b][a][c] = Half(c, v)
          BY <1>4, <2>3, <3>2 DEF Settled
        <4>2. \A i \in DOMAIN todo' : PairOf(i, b, a)' => c < todo'[i].channel
          BY <1>2, <3>2 DEF Settled, PairOf
        <4> QED
          BY <4>1, <4>2 DEF Settled
      <3> QED
        BY <2>2, <3>1, <3>2
    <2>4. CASE b = bank /\ a = afe /\ c = x
      <3>1. Write.value = v
        <4>1. PICK i \in DOMAIN todo : todo[i] = PairWrite(bank, afe, x, v)
          BY <1>1, <1>6, <1>8, <2>2, <2>4 DEF Pending
        <4>2. PairOf(i, bank, afe) /\ todo[i].channel = x /\ todo[i].value = v
          BY <1>1, <4>1, PairWrites DEF PairOf
        <4>3. i = 1
          BY <1>1, <1>6, <1>7, <4>2
        <4> QED
          BY <1>1, <4>2, <4>3
      <3>2. pair_out'[b][a][c] = v /\ halves'[b][a][c] = Half(c, v)
        BY <1>4, <2>4, <3>1
      <3>3. \A i \in DOMAIN todo' : PairOf(i, b, a)' => c < todo'[i].channel
        <4>1. ASSUME NEW i \in DOMAIN todo', PairOf(i, b, a)'
              PROVE  c < todo'[i].channel
          <5>1. i + 1 \in DOMAIN todo /\ i + 1 # 1 /\ todo'[i] = todo[i + 1] /\ PairOf(i + 1, bank, afe)
            BY <1>2, <2>4, <4>1 DEF PairOf
          <5> QED
            BY <1>7, <2>4, <5>1
        <4> QED
          BY <4>1
      <3> QED
        BY <3>2, <3>3 DEF Settled
    <2>5. CASE b = bank /\ a = afe /\ c # x
      <3>1. CASE Pending(b, a, c, v)
        BY <1>9, <2>5, <3>1
      <3>2. CASE Settled(b, a, c, v)
        <4>1. c < x /\ pair_out[bank][afe][c] = v /\ halves[bank][afe][c] = Half(c, v)
          BY <1>8, <2>5, <3>2 DEF Settled
        <4>2. halves'[b][a][c] = Half(c, v)
          BY <1>4, <2>5, <4>1
        <4>3. pair_out'[b][a][c] = v
          <5>1. CASE c # o
            BY <1>4, <2>5, <4>1, <5>1
          <5>2. CASE c = o /\ half = Half(d, half.value)
            <6>1. half = Half(c, v) /\ half.value = v
              BY <1>5, <4>1, <5>2, HalfNames DEF half
            <6> QED
              BY <1>4, <2>5, <5>2, <6>1
          <5>3. CASE c = o /\ half # Half(d, half.value)
            <6>1. PICK u \in Values : Asks(bank, afe, d, u)
              BY <1>5, <2>1, <2>5, AsksForAll
            <6>2. Pending(bank, afe, d, u) \/ Settled(bank, afe, d, u)
              BY <1>1, <1>3, <1>5, <6>1 DEF MmioInv, Progress
            <6>3. ~Settled(bank, afe, d, u)
              BY <1>5, <5>3, HalfNames DEF Settled, half
            <6>4. PICK i \in DOMAIN todo : todo[i] = PairWrite(bank, afe, d, u)
              BY <6>2, <6>3 DEF Pending
            <6>5. PairOf(i, bank, afe) /\ todo[i].channel = d
              BY <1>1, <1>5, <6>4, PairWrites DEF PairOf
            <6>6. i # 1
              BY <1>1, <1>5, <6>5 DEF x
            <6>7. x < d
              BY <1>7, <6>5, <6>6
            <6> QED
              BY <1>1, <1>5, <1>6, <4>1, <5>3, <6>7
          <5> QED
            BY <5>1, <5>2, <5>3
        <4>4. \A i \in DOMAIN todo' : PairOf(i, b, a)' => c < todo'[i].channel
          BY <1>2, <3>2 DEF Settled, PairOf
        <4> QED
          BY <4>2, <4>3, <4>4 DEF Settled
      <3> QED
        BY <2>2, <3>1, <3>2
    <2> QED
      BY <2>3, <2>4, <2>5
  <1>11. OneChannel'
    <2> SUFFICES ASSUME command.op = "SetChannel"
                 PROVE  /\ todo' = <<>>
                        /\ pair_out'[command.bank][command.afe][command.channel] = command.value
      BY <1>3 DEF OneChannel
    <2> DEFINE w == PairWrite(command.bank, command.afe, command.channel, command.value)
    <2>1. todo = <<w>>
      BY <1>1, <1>3 DEF MmioInv, OneChannel
    <2>2. todo' = <<>>
      <3> HIDE DEF w
      <3> QED
        BY <2>1 DEF Proceed
    <2>3. Write = w
      <3> HIDE DEF w
      <3> QED
        BY <1>1, <2>1
    <2>4. bank = command.bank /\ afe = command.afe /\ x = command.channel /\ Write.value = command.value
      BY <2>3 DEF bank, afe, x, PairWrite
    <2> QED
      BY <1>1, <1>4, <2>2, <2>4
  <1> QED
    BY <1>10, <1>11 DEF Progress

LEMMA PairDoneKeeps ==
    ASSUME MmioInv, PairDone
    PROVE  MmioInv'
  <1>1. Running("pair") /\ CacheHalf /\ WritePair /\ Proceed
    BY DEF PairDone
  <1>2. UNCHANGED <<cached, vbias_enabled, dac_out, bias_enable, dac_history>>
    BY <1>1 DEF WritePair
  <1>3. todo # <<>> /\ Write.kind = "pair" /\ Write.bank \in Banks /\ Write.afe \in Afes
    BY <1>1, PairAtHand
  <1>4. /\ pair_history' \in [Banks -> [Afes -> [Channels -> HistoryStates]]]
        /\ \A b \in Banks, a \in Afes, c \in Channels :
             pair_history'[b][a][c] =
               IF b = Write.bank /\ a = Write.afe /\ c \in DOMAIN SetByWord
               THEN "written" ELSE pair_history[b][a][c]
    <2> DEFINE w == DOMAIN SetByWord
               row(r) == [c \in Channels |-> IF c \in w THEN "written" ELSE r[c]]
    <2>1. pair_history \in [Banks -> [Afes -> [Channels -> HistoryStates]]]
      BY DEF MmioInv, TypeOK
    <2>2. pair_history' = [pair_history EXCEPT ![Write.bank][Write.afe] =
                             row(pair_history[Write.bank][Write.afe])]
      BY DEF PairDone
    <2> HIDE DEF w
    <2>3. \A b \in Banks, a \in Afes, c \in Channels :
            row(pair_history[b][a])[c] = IF c \in w THEN "written" ELSE pair_history[b][a][c]
      OBVIOUS
    <2>4. "written" \in HistoryStates
      BY DEF HistoryStates
    <2>5. \A b \in Banks, a \in Afes : row(pair_history[b][a]) \in [Channels -> HistoryStates]
      BY <2>1, <2>4
    <2> HIDE DEF row
    <2>6. pair_history' \in [Banks -> [Afes -> [Channels -> HistoryStates]]]
      BY <1>3, <2>1, <2>2, <2>5
    <2>7. \A b \in Banks, a \in Afes :
            pair_history'[b][a] = IF b = Write.bank /\ a = Write.afe
                                  THEN row(pair_history[b][a]) ELSE pair_history[b][a]
      BY <1>3, <2>1, <2>2
    <2> QED
      BY <2>3, <2>6, <2>7 DEF w
  <1>5. TypeOK'
    BY <1>1, <1>2, <1>3, <1>4, ProceedTyped, HalfCached, OutputsWritten DEF MmioInv, TypeOK
  <1>6. PairCacheSound'
    <2> SUFFICES ASSUME NEW b \in Banks, NEW a \in Afes, NEW c \in Channels,
                        pair_history'[b][a][c] = "written"
                 PROVE  \/ pair_out'[b][a][c] = halves'[b][a][c].value
                        \/ c % PerDac = 0 /\ pair_out'[b][a][c] = 0
      BY DEF PairCacheSound
    <2>1. \/ pair_history[b][a][c] = "written"
          \/ b = Write.bank /\ a = Write.afe /\ c \in DOMAIN SetByWord
      BY <1>4
    <2> QED
      BY <1>1, <2>1, WrittenSound
  <1>7. ScalarInv'
    BY <1>2, <1>3, ScalarsStay
  <1>8. EnableInv'
    <2>1. \A v \in Values : Write # DacWrite(Vbias, v)
      BY <1>3, OutputNames, DacWrites
    <2> QED
      BY <1>1, <1>3, <2>1, EnableProceeds
  <1>9. InChannelOrder'
    BY <1>1, <1>3, OrderProceeds
  <1>10. Progress' /\ OneChannel'
    BY <1>1, PairProceeds
  <1> QED
    BY <1>1, <1>3, <1>5, <1>6, <1>7, <1>8, <1>9, <1>10, ProceedTyped, HalfCached DEF MmioInv

-------------------------------------------------------------------------------
(***************************************************************************)
(* The other writes, and a restart                                         *)
(***************************************************************************)
LEMMA DacAtHand ==
    ASSUME MmioInv, Running("dac")
    PROVE  /\ todo # <<>> /\ Write.kind = "dac" /\ Write.output \in Outputs /\ Write.value \in Values
           /\ Write = DacWrite(Write.output, Write.value)
  <1>1. todo \in Seq(Writes) /\ todo # <<>> /\ Write.kind = "dac"
    BY DEF MmioInv, TypeOK, Running
  <1>2. Write \in Writes
    BY <1>1 DEF Write
  <1> QED
    BY <1>1, <1>2, WriteFields

\* SetDac sets the one output and leaves the others.
LEMMA DacSet ==
    ASSUME MmioInv, Running("dac"), SetDac
    PROVE  /\ dac_out' \in [Outputs -> Values]
           /\ \A o \in Outputs :
                dac_out'[o] = IF o = Write.output THEN Write.value ELSE dac_out[o]
  <1>1. dac_out \in [Outputs -> Values]
    BY DEF MmioInv, TypeOK
  <1> QED
    BY <1>1, DacAtHand DEF SetDac

LEMMA DacDoneKeeps ==
    ASSUME MmioInv, DacDone
    PROVE  MmioInv'
  <1>1. Running("dac") /\ SetDac /\ Proceed
    BY DEF DacDone
  <1>2. UNCHANGED <<halves, vbias_enabled, pair_out, bias_enable, pair_history>>
    BY DEF DacDone
  <1>3. /\ todo # <<>> /\ Write.kind = "dac" /\ Write.output \in Outputs /\ Write.value \in Values
        /\ Write = DacWrite(Write.output, Write.value)
    BY <1>1, DacAtHand
  <1>4. /\ cached \in [Outputs -> Values] /\ dac_history \in [Outputs -> HistoryStates]
        /\ "written" \in HistoryStates
    BY DEF MmioInv, TypeOK, HistoryStates
  <1>5. /\ cached' \in [Outputs -> Values] /\ dac_history' \in [Outputs -> HistoryStates]
        /\ \A o \in Outputs :
             IF o = Write.output /\ o # Vbias
             THEN cached'[o] = Write.value
             ELSE cached'[o] = cached[o] /\ dac_history'[o] = dac_history[o]
    <2>1. CASE Write.output = Vbias
      BY <1>3, <1>4, <2>1 DEF DacDone
    <2>2. CASE Write.output # Vbias
      <3>1. /\ cached' = [cached EXCEPT ![Write.output] = Write.value]
            /\ dac_history' = [dac_history EXCEPT ![Write.output] = "written"]
        BY <2>2 DEF DacDone
      <3> QED
        BY <1>3, <1>4, <2>2, <3>1
    <2> QED
      BY <2>1, <2>2
  <1>6. TypeOK'
    BY <1>1, <1>2, <1>3, <1>5, DacSet, ProceedTyped DEF MmioInv, TypeOK
  <1>7. HalvesOwn' /\ PairCacheSound'
    BY <1>2 DEF MmioInv, HalvesOwn, PairCacheSound
  <1>8. EnableInv'
    <2>1. ASSUME NEW v \in Values, Write = DacWrite(Vbias, v)
          PROVE  dac_out'[Vbias] = v
      <3>1. Write.output = Vbias /\ Write.value = v
        BY <2>1, OutputNames, DacWrites
      <3> QED
        BY <1>1, <3>1, OutputNames, DacSet
    <2> QED
      BY <1>1, <1>3, <2>1, EnableProceeds
  <1>9. ScalarInv'
    <2>1. ASSUME NEW o \in Outputs \ {Vbias}, dac_history'[o] = "written"
          PROVE  cached'[o] = dac_out'[o]
      BY <1>1, <1>5, <2>1, DacSet DEF MmioInv, ScalarInv
    <2>2. ASSUME dac_history'[Vbias] = "written"
          PROVE  /\ vbias_enabled' = bias_enable'
                 /\ cached'[Vbias] = dac_out'[Vbias] \/ (todo' # <<>> /\ Enabling(1)')
      <3>1. dac_history[Vbias] = "written" /\ cached'[Vbias] = cached[Vbias]
        BY <1>5, <2>2, OutputNames
      <3>2. ~Enabling(1)
        BY <1>3 DEF Enabling, Write
      <3>3. vbias_enabled' = bias_enable' /\ cached[Vbias] = dac_out[Vbias]
        BY <1>2, <3>1, <3>2 DEF MmioInv, ScalarInv
      <3>4. CASE Write.output = Vbias
        <4>1. todo[1].kind = "dac" /\ todo[1].output = Vbias /\ 1 \in DOMAIN todo
          BY <1>3, <3>4, GoingOn, <1>1 DEF MmioInv, TypeOK, Proceed
        <4>2. 1 + 1 \in DOMAIN todo /\ Enabling(1 + 1)
          BY <4>1 DEF MmioInv, EnableInv
        <4>3. 1 \in DOMAIN todo' /\ todo'[1] = todo[1 + 1]
          BY <1>1, <1>3, <4>2, GoingOn DEF MmioInv, TypeOK, Proceed
        <4> QED
          BY <3>3, <4>2, <4>3 DEF Enabling
      <3>5. CASE Write.output # Vbias
        BY <1>1, <3>1, <3>3, <3>5, DacSet, OutputNames
      <3> QED
        BY <3>4, <3>5
    <2> QED
      BY <2>1, <2>2 DEF ScalarInv
  <1>10. InChannelOrder' /\ CommandOK'
    BY <1>1, <1>3, OrderProceeds, ProceedTyped
  <1>11. Progress' /\ OneChannel'
    BY <1>1, <1>2, <1>3, OthersProceed
  <1> QED
    BY <1>6, <1>7, <1>8, <1>9, <1>10, <1>11 DEF MmioInv

LEMMA DacTimesOutKeeps ==
    ASSUME MmioInv, DacTimesOut
    PROVE  MmioInv'
  <1>1. Running("dac") /\ GiveUp /\ (SetDac \/ UNCHANGED dac_out)
    BY DEF DacTimesOut
  <1>2. UNCHANGED <<halves, cached, vbias_enabled, pair_out, bias_enable, pair_history>>
    BY DEF DacTimesOut, caches
  <1>3. todo # <<>> /\ Write.kind = "dac" /\ Write.output \in Outputs /\ Write.value \in Values
    BY <1>1, DacAtHand
  <1>4. dac_out \in [Outputs -> Values] /\ dac_history \in [Outputs -> HistoryStates]
    BY DEF MmioInv, TypeOK
  <1>5. /\ dac_out' \in [Outputs -> Values]
        /\ \A o \in Outputs : o # Write.output => dac_out'[o] = dac_out[o]
    BY <1>1, <1>4, DacSet
  <1>6. /\ dac_history' \in [Outputs -> HistoryStates]
        /\ \A o \in Outputs :
             dac_history'[o] = IF o = Write.output THEN "timeout" ELSE dac_history[o]
    <2>1. dac_history' = [dac_history EXCEPT ![Write.output] = "timeout"]
      BY DEF DacTimesOut
    <2> QED
      BY <1>3, <1>4, <2>1 DEF HistoryStates
  <1>7. TypeOK'
    BY <1>1, <1>2, <1>5, <1>6, GiveUpKeeps DEF MmioInv, TypeOK
  <1>8. HalvesOwn' /\ PairCacheSound'
    BY <1>2 DEF MmioInv, HalvesOwn, PairCacheSound
  <1>9. ScalarInv'
    <2>1. ASSUME NEW o \in Outputs, dac_history'[o] = "written"
          PROVE  dac_history[o] = "written" /\ dac_out'[o] = dac_out[o]
      BY <1>5, <1>6, <2>1
    <2>2. ~Enabling(1)
      BY <1>3 DEF Enabling, Write
    <2> QED
      BY <1>2, <2>1, <2>2, OutputNames DEF MmioInv, ScalarInv
  <1> QED
    BY <1>1, <1>7, <1>8, <1>9, GiveUpKeeps DEF MmioInv

LEMMA EnableBiasKeeps ==
    ASSUME MmioInv, EnableBias
    PROVE  MmioInv'
  <1>1. todo # <<>> /\ Write.kind = "enable" /\ Proceed
    BY DEF EnableBias, Running
  <1>2. UNCHANGED <<halves, pair_out, dac_out, pair_history>>
    BY DEF EnableBias
  <1>3. /\ Write \in Writes /\ Write = todo[1] /\ 1 \in DOMAIN todo
        /\ Write.value \in Values /\ Write.enable \in BOOLEAN
    BY <1>1, GoingOn, WriteFields DEF MmioInv, TypeOK, Proceed
  <1>4. dac_out[Vbias] = Write.value
    BY <1>1, <1>3 DEF MmioInv, EnableInv, Enabling
  <1>5. /\ cached' \in [Outputs -> Values] /\ cached'[Vbias] = Write.value
        /\ dac_history' \in [Outputs -> HistoryStates]
        /\ \A o \in Outputs \ {Vbias} : cached'[o] = cached[o] /\ dac_history'[o] = dac_history[o]
    <2>1. /\ cached' = [cached EXCEPT ![Vbias] = Write.value]
          /\ dac_history' = [dac_history EXCEPT ![Vbias] = "written"]
      BY DEF EnableBias
    <2>2. cached \in [Outputs -> Values] /\ dac_history \in [Outputs -> HistoryStates]
      BY DEF MmioInv, TypeOK
    <2> QED
      BY <1>3, <2>1, <2>2, OutputNames DEF HistoryStates
  <1>6. bias_enable' = Write.enable /\ vbias_enabled' = Write.enable
    BY DEF EnableBias
  <1>7. TypeOK'
    BY <1>1, <1>2, <1>3, <1>5, <1>6, ProceedTyped DEF MmioInv, TypeOK
  <1>8. HalvesOwn' /\ PairCacheSound'
    BY <1>2 DEF MmioInv, HalvesOwn, PairCacheSound
  <1>9. ScalarInv'
    BY <1>2, <1>4, <1>5, <1>6 DEF MmioInv, ScalarInv
  <1>10. EnableInv'
    <2>1. \A v \in Values : Write # DacWrite(Vbias, v)
      BY <1>1, OutputNames, DacWrites
    <2> QED
      BY <1>1, <2>1, EnableProceeds
  <1>11. InChannelOrder' /\ CommandOK'
    BY <1>1, OrderProceeds, ProceedTyped
  <1>12. Progress' /\ OneChannel'
    BY <1>1, <1>2, OthersProceed
  <1> QED
    BY <1>7, <1>8, <1>9, <1>10, <1>11, <1>12 DEF MmioInv

\* ProgramRegisters and SkipBias leave the DACs and the caches as they are.
LEMMA NothingSetKeeps ==
    ASSUME MmioInv, todo # <<>>, Write.kind \in {"registers", "skip"},
           UNCHANGED <<caches, hardware, history>>, Proceed \/ GiveUp
    PROVE  MmioInv'
  <1>1. /\ UNCHANGED <<halves, cached, vbias_enabled, pair_out, dac_out, bias_enable>>
        /\ UNCHANGED <<pair_history, dac_history>>
    BY DEF caches, hardware, history
  <1>2. TypeOK'
    BY <1>1, ProceedTyped, GiveUpKeeps DEF MmioInv, TypeOK
  <1>3. HalvesOwn' /\ PairCacheSound' /\ ScalarInv'
    BY <1>1, ScalarsStay DEF MmioInv, HalvesOwn, PairCacheSound
  <1>4. CASE GiveUp
    BY <1>2, <1>3, <1>4, GiveUpKeeps DEF MmioInv
  <1>5. CASE Proceed
    <2>1. \A v \in Values : Write # DacWrite(Vbias, v)
      BY OutputNames, DacWrites
    <2>2. EnableInv' /\ InChannelOrder' /\ CommandOK'
      BY <1>5, <2>1, EnableProceeds, OrderProceeds, ProceedTyped
    <2>3. Progress' /\ OneChannel'
      BY <1>1, <1>5, OthersProceed
    <2> QED
      BY <1>2, <1>3, <2>2, <2>3 DEF MmioInv
  <1> QED
    BY <1>4, <1>5

\* A backend that has just been made has written nothing.
LEMMA InitHolds == Init => MmioInv
  <1> SUFFICES ASSUME Init
               PROVE  MmioInv
    OBVIOUS
  <1> DEFINE H == [address : 0 .. PerDac - 1, value : Values]
  <1>1. 0 \in Values /\ UnsetHalf \in H /\ "never" \in HistoryStates /\ 0 \in 0 .. MaxCommands
    BY MmioAssumption DEF Values, UnsetHalf, HistoryStates
  <1> HIDE DEF H
  <1>2. /\ halves \in [Banks -> [Afes -> [Channels -> H]]]
        /\ \A b \in Banks, a \in Afes, c \in Channels : halves[b][a][c] = UnsetHalf
    BY <1>1 DEF Init, ForEachChannel
  <1>3. /\ pair_history \in [Banks -> [Afes -> [Channels -> HistoryStates]]]
        /\ \A b \in Banks, a \in Afes, c \in Channels : pair_history[b][a][c] = "never"
    BY <1>1 DEF Init, ForEachChannel
  <1>4. pair_out \in [Banks -> [Afes -> [Channels -> Values]]] /\ dac_out \in [Outputs -> Values]
    BY DEF Init, ForEachChannel
  <1>5. TypeOK
    <2>1. cached \in [Outputs -> Values] /\ dac_history \in [Outputs -> HistoryStates]
      BY <1>1 DEF Init
    <2>2. todo = <<>> /\ todo \in Seq(Writes) /\ result = "ok"
      BY DEF Init
    <2> QED
      BY <1>1, <1>2, <1>3, <1>4, <2>1, <2>2 DEF Init, TypeOK, H
  <1>6. HalvesOwn /\ PairCacheSound /\ ScalarInv
    BY <1>2, <1>3, OutputNames DEF Init, HalvesOwn, PairCacheSound, ScalarInv
  <1>7. command \in Commands /\ command.op = "None" /\ todo = <<>>
    BY DEF Init, Commands
  <1>8. CommandOK /\ EnableInv /\ InChannelOrder /\ Progress /\ OneChannel
    BY <1>7 DEF CommandOK, EnableInv, InChannelOrder, Progress, Asks, OneChannel
  <1> QED
    BY <1>5, <1>6, <1>8 DEF MmioInv

LEMMA RestartKeeps ==
    ASSUME MmioInv, Restart
    PROVE  MmioInv'
  <1> DEFINE H == [address : 0 .. PerDac - 1, value : Values]
  <1>1. 0 \in Values /\ UnsetHalf \in H /\ "never" \in HistoryStates
    BY MmioAssumption DEF Values, UnsetHalf, HistoryStates
  <1> HIDE DEF H
  <1>2. /\ halves' \in [Banks -> [Afes -> [Channels -> H]]]
        /\ \A b \in Banks, a \in Afes, c \in Channels : halves'[b][a][c] = UnsetHalf
    BY <1>1 DEF Restart, ForEachChannel
  <1>3. /\ pair_history' \in [Banks -> [Afes -> [Channels -> HistoryStates]]]
        /\ \A b \in Banks, a \in Afes, c \in Channels : pair_history'[b][a][c] = "never"
    BY <1>1 DEF Restart, ForEachChannel
  <1>4. UNCHANGED <<pair_out, dac_out, bias_enable, commands>>
    BY DEF Restart, hardware
  <1>5. TypeOK'
    <2>1. cached' \in [Outputs -> Values] /\ dac_history' \in [Outputs -> HistoryStates]
      BY <1>1 DEF Restart
    <2>2. todo' = <<>> /\ todo' \in Seq(Writes) /\ result' = "ok" /\ vbias_enabled' = FALSE
      BY DEF Restart
    <2> QED
      BY <1>1, <1>2, <1>3, <1>4, <2>1, <2>2 DEF MmioInv, TypeOK, H
  <1>6. HalvesOwn' /\ PairCacheSound' /\ ScalarInv'
    BY <1>2, <1>3, OutputNames DEF Restart, HalvesOwn, PairCacheSound, ScalarInv
  <1>7. command' \in Commands /\ command'.op = "None" /\ todo' = <<>>
    BY DEF Restart, Commands
  <1>8. CommandOK' /\ EnableInv' /\ InChannelOrder' /\ Progress' /\ OneChannel'
    BY <1>7 DEF CommandOK, EnableInv, InChannelOrder, Progress, Asks, OneChannel
  <1> QED
    BY <1>5, <1>6, <1>8 DEF MmioInv

-------------------------------------------------------------------------------
(***************************************************************************)
(* The results                                                             *)
(***************************************************************************)
LEMMA StepKeeps == MmioInv /\ [Next]_vars => MmioInv'
  <1> SUFFICES ASSUME MmioInv, [Next]_vars
               PROVE  MmioInv'
    OBVIOUS
  <1>1. CASE \E b \in Banks, v \in Values :
               \/ \E a \in Afes : SetAfe(b, a, v) \/ \E c \in Channels : SetChannel(b, a, c, v)
               \/ SetAll(b, v)
    <2> PICK b \in Banks, v \in Values :
          \/ \E a \in Afes : SetAfe(b, a, v) \/ \E c \in Channels : SetChannel(b, a, c, v)
          \/ SetAll(b, v)
      BY <1>1
    <2> QED
      BY SetAfeStarts, SetChannelStarts, SetAllStarts
  <1>2. CASE \E v \in Values :
               \/ \E name \in {"attenuation", "bias"}, a \in Afes : SetScalar(name, a, v)
               \/ \E enable \in BOOLEAN : SetVbiasControl(v, enable)
    BY <1>2, SetScalarStarts, SetVbiasStarts
  <1>3. CASE \E c \in Configurations : ApplyConfigureFrontend(c)
    BY <1>3, ApplyStarts
  <1>4. CASE PairDone
    BY <1>4, PairDoneKeeps
  <1>5. CASE PairNotWritten
    BY <1>5, PairNotWrittenKeeps
  <1>6. CASE PairWrittenLate
    BY <1>6, PairWrittenLateKeeps
  <1>7. CASE DacDone
    BY <1>7, DacDoneKeeps
  <1>8. CASE DacTimesOut
    BY <1>8, DacTimesOutKeeps
  <1>9. CASE EnableBias
    BY <1>9, EnableBiasKeeps
  <1>10. CASE ProgramRegisters \/ SkipBias
    BY <1>10, NothingSetKeeps DEF ProgramRegisters, SkipBias, Running
  <1>11. CASE Restart
    BY <1>11, RestartKeeps
  <1>12. CASE UNCHANGED vars
    BY <1>12 DEF vars, caches, hardware, history, MmioInv, TypeOK, CommandOK, HalvesOwn, PairCacheSound,
                 EnableInv, Enabling, ScalarInv, InChannelOrder, PairOf, Progress, Asks, Pending,
                 Settled, OneChannel
  <1> QED
    BY <1>1, <1>2, <1>3, <1>4, <1>5, <1>6, <1>7, <1>8, <1>9, <1>10, <1>11, <1>12 DEF Next

LEMMA InvHolds == Spec => []MmioInv
  BY InitHolds, StepKeeps, PTL DEF Spec

\* The variables keep their types; in particular every cached half has the address bits of an
\* output of its DAC (dac_trim_offset_half), and a command is running exactly while it has
\* writes to make.
THEOREM Typing == Spec => []TypeOK
  <1>1. MmioInv => TypeOK
    BY DEF MmioInv
  <1> QED
    BY <1>1, InvHolds, PTL

\* The caches that ReadTrim, ReadOffset, ReadAttenuation, ReadBias and ReadVbiasControl answer
\* from follow the DACs and the enable register, but for writes that timed out and for first
\* outputs that an unset companion half has set to 0.
THEOREM CachesFollow == Spec => []CachesSound
  <1>1. MmioInv => CachesSound
    <2> SUFFICES ASSUME MmioInv
                 PROVE  CachesSound
      OBVIOUS
    <2>1. PairCacheSound /\ ScalarInv
      BY DEF MmioInv
    <2>2. dac_history[Vbias] \in HistoryStates
      BY OutputNames DEF MmioInv, TypeOK
    <2>3. ScalarCacheSound
      BY <2>1, <2>2, OutputNames DEF ScalarInv, ScalarCacheSound, HistoryStates
    <2> QED
      BY <2>1, <2>3 DEF CachesSound
  <1> QED
    BY <1>1, InvHolds, PTL

\* A command that is answered Applied leaves every AFE that it wrote whole, and the one channel
\* of a SetTrim or SetOffset, at the values asked for, whatever was cached, unset or timed out
\* before it (write_channel_scalar, apply_configure_frontend).
THEOREM AppliedHolds == Spec => []CompletedWriteHolds
  <1>1. MmioInv => CompletedWriteHolds
    <2> SUFFICES ASSUME MmioInv, result = "ok"
                 PROVE  CompletedWriteHolds
      BY DEF CompletedWriteHolds
    <2>1. todo = <<>> /\ DOMAIN todo = {} /\ CommandOK
      BY DEF MmioInv, TypeOK
    <2>2. ASSUME NEW b \in Banks, NEW a \in Afes, NEW c \in Channels, NEW v \in Values, Asks(b, a, c, v)
          PROVE  pair_out[b][a][c] = v /\ halves[b][a][c] = Half(c, v)
      BY <2>1, <2>2 DEF MmioInv, Progress, Pending, Settled
    <2>3. ASSUME command.op \in {"SetAfe", "SetAll"}, NEW a \in Afes, NEW c \in Channels,
                 command.op = "SetAll" \/ command.afe = a
          PROVE  /\ pair_out[command.bank][a][c] = command.value
                 /\ halves[command.bank][a][c] = Half(c, command.value)
      <3>1. command.bank \in Banks /\ command.value \in Values
        BY <2>1, <2>3 DEF CommandOK, Commands
      <3>2. Asks(command.bank, a, c, command.value)
        BY <2>3 DEF Asks
      <3> QED
        BY <2>2, <3>1, <3>2
    <2>4. ASSUME command.op = "SetChannel"
          PROVE  pair_out[command.bank][command.afe][command.channel] = command.value
      BY <2>1, <2>4 DEF MmioInv, OneChannel
    <2>5. ASSUME command.op = "Apply", NEW a \in Afes, Full(command.config, a),
                 NEW i \in Staged(command.config, a)
          PROVE  LET r == command.config.channels[i]
                 IN  pair_out["trim"][a][r.channel] = r.trim /\ pair_out["offset"][a][r.channel] = r.offset
      <3> DEFINE s == command.config.channels
                 r == s[i]
      <3>1. command.config \in Configurations
        BY <2>1, <2>5 DEF CommandOK, Commands
      <3>2. s \in Seq(StagedChannels)
        BY <3>1, ApplyList
      <3>3. r \in StagedChannels
        <4>1. i \in DOMAIN s
          BY DEF Staged
        <4> HIDE DEF s
        <4> QED
          BY <3>2, <4>1
      <3>4. ASSUME NEW b \in Banks
            PROVE  Asks(b, a, r.channel, Staging(r, b))
        BY <2>5 DEF Asks
      <3>5. ASSUME NEW b \in Banks
            PROVE  pair_out[b][a][r.channel] = Staging(r, b)
        <4>1. r.channel \in Channels /\ Staging(r, b) \in Values
          BY <3>3, StagedFields
        <4> HIDE DEF r
        <4> QED
          BY <2>2, <3>4, <4>1
      <3>6. /\ "trim" \in Banks /\ "offset" \in Banks
            /\ Staging(r, "trim") = r.trim /\ Staging(r, "offset") = r.offset
        BY DEF Banks, Staging
      <3> QED
        BY <3>5, <3>6
    <2> QED
      BY <2>3, <2>4, <2>5 DEF CompletedWriteHolds, Full
  <1> QED
    BY <1>1, InvHolds, PTL

\* The bias is switched on only while its DAC is at the value that the same command asked for:
\* write_vbias_control writes the DAC first, and a timed out DAC ends the command.
THEOREM BiasAsAsked == Spec => BiasOnAtAskedValue
  <1>1. MmioInv /\ [Next]_vars => [(bias_enable' /\ ~bias_enable) => dac_out'[Vbias] = command.vbias]_vars
    <2> SUFFICES ASSUME MmioInv, [Next]_vars, bias_enable', ~bias_enable
                 PROVE  dac_out'[Vbias] = command.vbias
      OBVIOUS
    <2>1. CASE EnableBias
      <3>1. todo # <<>> /\ Write.kind = "enable" /\ todo \in Seq(Writes) /\ dac_out' = dac_out
        BY <2>1 DEF EnableBias, Running, MmioInv, TypeOK
      <3>2. 1 \in DOMAIN todo /\ Enabling(1)
        BY <3>1 DEF Enabling, Write
      <3> QED
        BY <3>1, <3>2 DEF MmioInv, EnableInv
    <2>2. CASE ~EnableBias
      <3>1. bias_enable' = bias_enable
        BY <2>2 DEF Next, vars, caches, hardware, history, Start, SetAfe, SetChannel, SetAll, SetScalar,
                    SetVbiasControl, ApplyConfigureFrontend, PairDone, PairNotWritten, PairWrittenLate,
                    WritePair, DacDone, DacTimesOut, ProgramRegisters, SkipBias, Restart
      <3> QED
        BY <3>1
    <2> QED
      BY <2>1, <2>2
  <1> QED
    BY <1>1, InvHolds, PTL DEF Spec, BiasOnAtAskedValue

===============================================================================
