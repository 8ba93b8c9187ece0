----------------------------- MODULE AfeLink_proofs -----------------------------
(***************************************************************************)
(* For every number space, every set of commands and any number of         *)
(* restarts: the numbering of the frames, what a success means, that the   *)
(* link implements RequestAnswer and drives RpuRuntime as it allows, and   *)
(* whose records a successful configuration has written.                   *)
(***************************************************************************)
EXTENDS AfeLink, FiniteSetTheorems, SequenceTheorems, TLAPS

RequestCommands == AfeCommands \cup {NoRequest.command}

\* What the host encodes, the RPU can decode.
HostFrames == {f \in Frames : f.command.op # "Undecodable"}

LinkTypes ==
    /\ next_sequence \in 1 .. SequenceMax
    /\ pc \in {"idle", "send", "wait"}
    /\ frames \in Seq(HostFrames)
    /\ toRpu \in Seq([frame : HostFrames, request : Nat, index : Int])
    /\ fromRpu \in Seq(Replies)
    /\ outcome \in {"none", "success", "failure"}
    /\ request \in [id : Nat, command : RequestCommands, begun : BOOLEAN]
    /\ origin \in Seq(Nat)
    /\ heartbeat = Len(origin)
    /\ clean \in BOOLEAN

\* The numbers of a command are below the next one, unless that one has wrapped to 1.
BelowNext ==
    frames # <<>> /\ next_sequence # 1 =>
        \A i \in DOMAIN frames : frames[i].sequence < next_sequence

NumberInv == LinkTypes /\ FramesNumbered /\ BelowNext

-------------------------------------------------------------------------------
(***************************************************************************)
(* The frames of a command                                                 *)
(***************************************************************************)
LEMMA CommandFacts ==
    ASSUME NEW c \in RequestCommands
    PROVE  /\ c.kind \in {"Status", "Single", "Configure"}
           /\ Len(c.afes) \in Nat /\ Len(c.channels) \in Nat
           /\ FrameCount(c) \in Nat /\ FrameCount(c) > 0
           /\ c.kind = "Configure" => FrameCount(c) = 2 + Len(c.afes) + Len(c.channels)
           /\ c.kind # "Configure" => FrameCount(c) = 1
<1>1. CASE c \in AfeCommands
  <2>1. /\ c.kind \in {"Status", "Single", "Configure"}
        /\ c.afes \in Seq(AfeSlots) /\ c.channels \in Seq(ChannelSlots)
    BY <1>1, LinkAssumption DEF IsAfeCommand
  <2>2. Len(c.afes) \in Nat /\ Len(c.channels) \in Nat
    BY <2>1
  <2>3. c.kind = "Configure" => FrameCount(c) = 2 + Len(c.afes) + Len(c.channels)
    BY DEF FrameCount
  <2>4. c.kind # "Configure" => FrameCount(c) = 1
    BY DEF FrameCount
  <2>5. FrameCount(c) \in Nat /\ FrameCount(c) > 0
    <3>1. CASE c.kind = "Configure"
      <4>1. PICK a \in Nat, b \in Nat : FrameCount(c) = 2 + a + b
        BY <2>2, <2>3, <3>1, Zenon
      <4>2. QED BY <4>1
    <3>2. CASE c.kind # "Configure"
      BY <2>4, <3>2
    <3>3. QED BY <3>1, <3>2
  <2>6. QED
    BY <2>1, <2>2, <2>3, <2>4, <2>5, Zenon
<1>2. CASE c = NoRequest.command
  <2>1. c.kind = "Status" /\ c.afes = <<>> /\ c.channels = <<>>
    BY <1>2 DEF NoRequest
  <2>2. Len(c.afes) = 0 /\ Len(c.channels) = 0 /\ FrameCount(c) = 1
    BY <2>1 DEF FrameCount
  <2>3. QED
    BY <2>1, <2>2
<1>3. QED
  BY <1>1, <1>2 DEF RequestCommands

\* Every frame of a command is one the runtime's decoder knows.
LEMMA FrameCommandType ==
    ASSUME NEW c \in AfeCommands, NEW i \in 1 .. FrameCount(c)
    PROVE  FrameCommand(c, i) \in Commands /\ FrameCommand(c, i).op # "Undecodable"
<1>1. /\ c.kind \in {"Status", "Single", "Configure"}
      /\ c.afes \in Seq(AfeSlots) /\ c.channels \in Seq(ChannelSlots)
      /\ Len(c.afes) <= MaxRecords /\ Len(c.channels) <= MaxRecords /\ MaxRecords \in Nat
  BY LinkAssumption, RuntimeAssumption DEF IsAfeCommand
<1>2. /\ Len(c.afes) \in Counts /\ Len(c.channels) \in Counts
      /\ Len(c.afes) \in Nat /\ Len(c.channels) \in Nat
  BY <1>1 DEF Counts
<1> DEFINE n == Len(c.afes)
           count == FrameCount(c)
           m == Len(c.channels)
<1>9. /\ count \in Nat /\ i \in 1 .. count /\ n \in Nat /\ m \in Nat
      /\ c.kind = "Configure" => count = 2 + n + m
      /\ c.kind # "Configure" => count = 1
  BY CommandFacts DEF RequestCommands
<1>3. CASE c.kind # "Configure"
  BY <1>1, <1>3 DEF FrameCommand, Commands
<1>4. CASE c.kind = "Configure" /\ i = 1
  BY <1>2, <1>4 DEF FrameCommand, Commands
<1>5. CASE c.kind = "Configure" /\ i \in 2 .. n + 1
  <2>1. i - 1 \in 1 .. n /\ i # 1
    BY <1>2, <1>5
  <2>2. c.afes[i - 1] \in AfeSlots
    BY <1>1, <2>1
  <2>3. FrameCommand(c, i) = [op |-> "ConfigureAfe", slot |-> c.afes[i - 1]]
    BY <1>5, <2>1 DEF FrameCommand
  <2>4. QED
    BY <2>2, <2>3 DEF Commands
<1>6. CASE c.kind = "Configure" /\ i \in n + 2 .. count - 1
  <2>1. PICK k \in 1 .. m : k = i - 1 - n
    <3> HIDE DEF n, m, count
    <3> QED BY <1>6, <1>9
  <2>2. i # 1 /\ i \notin 2 .. n + 1
    <3> HIDE DEF n, m, count
    <3> QED BY <1>6, <1>9
  <2>3. c.channels[k] \in ChannelSlots
    BY <1>1
  <2>4. FrameCommand(c, i) = [op |-> "ConfigureChannel", slot |-> c.channels[k]]
    BY <1>6, <2>1, <2>2 DEF FrameCommand
  <2>5. QED
    BY <2>3, <2>4 DEF Commands
<1>7. CASE c.kind = "Configure" /\ i = count
  <2>1. i # 1 /\ i \notin 2 .. n + 1 /\ i \notin n + 2 .. count - 1
    <3> HIDE DEF n, m, count
    <3> QED BY <1>7, <1>9
  <2>2. FrameCommand(c, i) = [op |-> "Apply"]
    BY <1>7, <2>1 DEF FrameCommand
  <2>3. QED
    BY <2>2 DEF Commands
<1>8. QED
  <2>1. i = 1 \/ i \in 2 .. n + 1 \/ i \in n + 2 .. count - 1 \/ i = count
    <3> HIDE DEF n, m, count
    <3> QED BY <1>9
  <2>2. QED
    BY <1>3, <1>4, <1>5, <1>6, <1>7, <2>1

\* Numbers that do not run over the end are consecutive.
LEMMA FramesOfNumbers ==
    ASSUME NEW c \in AfeCommands, NEW first \in 1 .. SequenceMax,
           first + FrameCount(c) - 1 <= SequenceMax
    PROVE  /\ FramesOf(c, first) \in Seq(HostFrames)
           /\ Len(FramesOf(c, first)) = FrameCount(c) /\ FramesOf(c, first) # <<>>
           /\ DOMAIN FramesOf(c, first) = 1 .. FrameCount(c)
           /\ \A i \in 1 .. FrameCount(c) : FramesOf(c, first)[i].sequence = first + (i - 1)
<1>1. FrameCount(c) \in Nat /\ FrameCount(c) > 0 /\ SequenceMax \in Nat
  BY CommandFacts, LinkAssumption, RuntimeAssumption DEF RequestCommands
<1>2. ASSUME NEW i \in 1 .. FrameCount(c)
      PROVE  SequenceForFrame(first, i - 1) = first + (i - 1)
  <2>1. first + (i - 1) \in 1 .. SequenceMax
    BY <1>1
  <2>2. (first + (i - 1)) % (SequenceMax + 1) = first + (i - 1)
    BY <1>1, <2>1
  <2>3. QED
    BY <1>1, <2>1, <2>2 DEF SequenceForFrame, WrappingAddMaxOne
<1>3. \A i \in 1 .. FrameCount(c) : FramesOf(c, first)[i] \in HostFrames
  BY <1>1, <1>2, FrameCommandType DEF FramesOf, HostFrames, Frames, Sequences
<1>4. QED
  BY <1>1, <1>2, <1>3 DEF FramesOf

\* Whatever handler takes a frame, it answers with the frame's number.
LEMMA RpuReply ==
    ASSUME NEW f \in HostFrames, HandleFrame(f)
    PROVE  /\ reply' \in Replies /\ reply'.sequence = f.sequence
           /\ heartbeat' = heartbeat + 1
<1>1. PICK status \in {"Applied", "Rejected", "Interlocked", "Fault"} : Answers(f, status)
  BY DEF HostFrames, HandleFrame, RejectUndecodable, AnswerStatus, RefuseInterlocked,
         RunSingle, RefuseBadRecord, BeginConfigureFrontend, ConfigureAfe,
         ConfigureChannel, RejectUnstaged, ApplyConfigureFrontend, ApplyTorn,
         ApplyMiscounted, Refuses
<1>2. f.sequence \in Sequences
  BY DEF HostFrames, Frames
<1>3. QED
  BY <1>1, <1>2 DEF Answers, Replies, HandleFrame

-------------------------------------------------------------------------------
(***************************************************************************)
(* The numbers of a command                                                *)
(***************************************************************************)
LEMMA InitNumbers == Init => NumberInv
<1>1. SUFFICES ASSUME Init PROVE NumberInv
  OBVIOUS
<1>2. 1 \in 1 .. SequenceMax
  BY RuntimeAssumption
<1>3. reply \in Replies /\ heartbeat = 0
  BY <1>1 DEF Init, RuntimeInit, Replies
<1>4. request \in [id : Nat, command : RequestCommands, begun : BOOLEAN]
  BY <1>1 DEF Init, NoRequest, RequestCommands
<1>5. LinkTypes
  BY <1>1, <1>2, <1>3, <1>4 DEF Init, LinkTypes
<1>6. QED
  BY <1>1, <1>2, <1>5 DEF Init, NumberInv, FramesNumbered, BelowNext

\* The host's number for the first frame leaves room for all of them.
LEMMA StartNumbers ==
    ASSUME NumberInv, NEW c \in AfeCommands, SubmitStatus(c) \/ SubmitAfeCommand(c)
    PROVE  \E first \in 1 .. SequenceMax :
              /\ Start(c, first)
              /\ first + FrameCount(c) - 1 <= SequenceMax
              /\ first # 1 => first = next_sequence
              /\ next_sequence' \in 1 .. SequenceMax
              /\ next_sequence' # 1 => next_sequence' = first + FrameCount(c)
              /\ next_sequence' = 1 => FrameCount(c) = 1 /\ first = SequenceMax /\ first # 1
<1>1. /\ next_sequence \in 1 .. SequenceMax /\ SequenceMax \in Nat
      /\ FrameCount(c) \in Nat /\ FrameCount(c) > 0 /\ FrameCount(c) < SequenceMax
  BY LinkAssumption, RuntimeAssumption, CommandFacts DEF NumberInv, LinkTypes, RequestCommands
<1>2. CASE SubmitStatus(c)
  <2>1. FrameCount(c) = 1
    BY <1>2, CommandFacts DEF SubmitStatus, RequestCommands
  <2>2. Start(c, next_sequence)
    BY <1>2 DEF SubmitStatus
  <2>3. CASE next_sequence < SequenceMax
    <3>1. (next_sequence + 1) % (SequenceMax + 1) = next_sequence + 1
      BY <1>1, <2>3
    <3>2. next_sequence' = next_sequence + 1
      BY <1>1, <1>2, <3>1 DEF SubmitStatus, WrappingAddMaxOne
    <3>3. QED
      BY <1>1, <2>1, <2>2, <2>3, <3>2
  <2>4. CASE next_sequence = SequenceMax
    <3>1. (next_sequence + 1) % (SequenceMax + 1) = 0
      BY <1>1, <2>4
    <3>2. next_sequence' = 1
      BY <1>2, <3>1 DEF SubmitStatus, WrappingAddMaxOne
    <3>3. QED
      BY <1>1, <2>1, <2>2, <2>4, <3>2
  <2>5. QED
    BY <1>1, <2>3, <2>4
<1>3. CASE SubmitAfeCommand(c)
  <2> DEFINE first == ReservedFirst(FrameCount(c))
  <2>1. /\ first \in 1 .. SequenceMax /\ first + FrameCount(c) <= SequenceMax
        /\ first # 1 => first = next_sequence
    BY <1>1 DEF ReservedFirst
  <2>2. Start(c, first) /\ next_sequence' = first + FrameCount(c)
    BY <1>3 DEF SubmitAfeCommand
  <2> HIDE DEF first
  <2>3. QED
    BY <1>1, <2>1, <2>2
<1>4. QED
  BY <1>2, <1>3

LEMMA TailFacts ==
    ASSUME NEW S, NEW q \in Seq(S), q # <<>>
    PROVE  /\ Head(q) = q[1] /\ q[1] \in S /\ Len(q) \in Nat /\ Len(q) > 0
           /\ Tail(q) \in Seq(S) /\ Len(Tail(q)) = Len(q) - 1
           /\ \A i \in 1 .. Len(q) - 1 : Tail(q)[i] = q[i + 1]
           /\ Tail(q) = <<>> <=> Len(q) = 1
<1>1. Len(q) \in Nat /\ Len(q) > 0 /\ 1 \in 1 .. Len(q)
  BY EmptySeq
<1>2. Head(q) = q[1] /\ q[1] \in S
  BY <1>1, ElementOfSeq
<1>3. /\ Tail(q) \in Seq(S) /\ Len(Tail(q)) = Len(q) - 1
      /\ \A i \in 1 .. Len(Tail(q)) : Tail(q)[i] = q[i + 1]
  BY HeadTailProperties
<1>4. Tail(q) = <<>> <=> Len(Tail(q)) = 0
  BY <1>3, EmptySeq
<1>5. QED
  BY <1>1, <1>2, <1>3, <1>4

LEMMA StartStep ==
    ASSUME NumberInv, NEW c \in AfeCommands, SubmitStatus(c) \/ SubmitAfeCommand(c)
    PROVE  NumberInv'
<1>1. PICK first \in 1 .. SequenceMax :
        /\ Start(c, first)
        /\ first + FrameCount(c) - 1 <= SequenceMax
        /\ first # 1 => first = next_sequence
        /\ next_sequence' \in 1 .. SequenceMax
        /\ next_sequence' # 1 => next_sequence' = first + FrameCount(c)
        /\ next_sequence' = 1 => FrameCount(c) = 1 /\ first = SequenceMax /\ first # 1
  BY StartNumbers
<1>2. /\ frames' \in Seq(HostFrames) /\ frames' # <<>>
      /\ DOMAIN frames' = 1 .. FrameCount(c)
      /\ \A i \in 1 .. FrameCount(c) : frames'[i].sequence = first + (i - 1)
  BY <1>1, FramesOfNumbers DEF Start
<1>3. request' \in [id : Nat, command : RequestCommands, begun : BOOLEAN]
  BY <1>1 DEF Start, NumberInv, LinkTypes, RequestCommands
<1>4. FrameCount(c) \in Nat /\ FrameCount(c) > 0 /\ SequenceMax \in Nat
  BY CommandFacts, LinkAssumption, RuntimeAssumption DEF RequestCommands
<1>5. LinkTypes'
  BY <1>1, <1>2, <1>3 DEF Start, NumberInv, LinkTypes, rpuVars, linkVars
<1>6. ASSUME NEW i \in 1 .. FrameCount(c)
      PROVE  /\ frames'[i].sequence \in 1 .. SequenceMax
             /\ frames'[i].sequence # next_sequence'
             /\ next_sequence' # 1 => frames'[i].sequence < next_sequence'
             /\ frames'[i].sequence = frames'[1].sequence + (i - 1)
  <2>1. frames'[i].sequence = first + (i - 1)
    BY <1>2
  <2>2. frames'[1].sequence = first
    <3>1. 1 \in 1 .. FrameCount(c)
      BY <1>4
    <3>2. frames'[1].sequence = first + (1 - 1)
      BY <1>2, <3>1
    <3>3. QED
      BY <3>2
  <2>3. /\ first + (i - 1) \in 1 .. SequenceMax
        /\ first + (i - 1) # next_sequence'
        /\ next_sequence' # 1 => first + (i - 1) < next_sequence'
    BY <1>1, <1>4
  <2>4. QED
    BY <2>1, <2>2, <2>3
<1>7. FramesNumbered' /\ BelowNext'
  BY <1>1, <1>2, <1>6 DEF Start, FramesNumbered, BelowNext
<1>8. QED
  BY <1>5, <1>7 DEF NumberInv

\* The host waits for, sends or takes no frame any more: nothing is said of the numbers.
LEMMA NoFrames ==
    ASSUME LinkTypes', frames' = <<>>, pc' = "idle"
    PROVE  NumberInv'
BY DEF NumberInv, FramesNumbered, BelowNext, LinkTypes

\* The frames the RPU ran and those waiting for it.
Total == Len(origin) + Len(toRpu)

LEMMA SenderFacts ==
    ASSUME NumberInv
    PROVE  /\ Len(origin) \in Nat /\ Len(toRpu) \in Nat /\ Total \in Nat
           /\ FrameCount(request.command) \in Nat /\ FrameCount(request.command) > 0
           /\ request.id \in Nat /\ Len(frames) \in Nat
           /\ pc = "idle" <=> Len(frames) = 0
<1>1. /\ LinkTypes /\ Len(origin) \in Nat /\ Len(toRpu) \in Nat /\ request.id \in Nat
      /\ Len(frames) \in Nat /\ request.command \in RequestCommands
  BY DEF NumberInv, LinkTypes
<1>2. FrameCount(request.command) \in Nat /\ FrameCount(request.command) > 0
  BY <1>1, CommandFacts
<1>3. pc = "idle" <=> Len(frames) = 0
  <2>1. Len(frames) = 0 <=> frames = <<>>
    BY <1>1 DEF LinkTypes
  <2>2. QED
    BY <2>1 DEF NumberInv, FramesNumbered
<1>4. QED
  BY <1>1, <1>2, <1>3 DEF Total

LEMMA StepNumbers == NumberInv /\ [Next]_vars => NumberInv'
<1>1. SUFFICES ASSUME NumberInv, [Next]_vars PROVE NumberInv'
  OBVIOUS
<1>2. LinkTypes /\ FramesNumbered /\ BelowNext
  BY <1>1 DEF NumberInv
<1>3. CASE \E c \in AfeCommands : SubmitStatus(c) \/ SubmitAfeCommand(c)
  BY <1>1, <1>3, StartStep
<1>4. CASE SendFrame
  <2>1. frames # <<>>
    BY <1>2, <1>4 DEF SendFrame, FramesNumbered
  <2>2. Head(frames) \in HostFrames
    BY <1>2, <2>1, TailFacts DEF LinkTypes
  <2>3. toRpu' \in Seq([frame : HostFrames, request : Nat, index : Int])
    <3>1. FrameCount(request.command) \in Nat /\ Len(frames) \in Nat
      BY <1>1, SenderFacts
    <3>2. NextMessage \in [frame : HostFrames, request : Nat, index : Int]
      BY <1>2, <2>2, <3>1 DEF NextMessage, LinkTypes
    <3>3. QED
      BY <1>2, <1>4, <3>2 DEF SendFrame, LinkTypes
  <2>4. LinkTypes'
    <3>1. /\ UNCHANGED <<heartbeat, next_sequence, frames, outcome, request, fromRpu, origin, clean>>
          /\ pc' = "wait"
      BY <1>4 DEF SendFrame, rpuVars
    <3>2. QED
      BY <1>2, <2>3, <3>1 DEF LinkTypes
  <2>5. QED
    BY <1>2, <1>4, <2>4 DEF SendFrame, NumberInv, FramesNumbered, BelowNext
<1>5. CASE SendFails \/ TimeOut
  <2>1. LinkTypes'
    <3>1. /\ UNCHANGED <<heartbeat, next_sequence, toRpu, fromRpu, request, origin, clean>>
          /\ pc' = "idle" /\ frames' = <<>> /\ outcome' = "failure"
      BY <1>5 DEF SendFails, TimeOut, Abandon, rpuVars, linkVars
    <3>2. QED
      BY <1>2, <3>1 DEF LinkTypes
  <2>2. QED
    BY <1>5, <2>1, NoFrames DEF SendFails, TimeOut, Abandon
<1>6. CASE ReceiveStale
  <2>1. fromRpu' \in Seq(Replies)
    BY <1>2, <1>6, TailFacts DEF ReceiveStale, LinkTypes
  <2>2. LinkTypes'
    BY <1>2, <1>6, <2>1 DEF ReceiveStale, Abandon, LinkTypes, rpuVars
  <2>3. QED
    BY <1>6, <2>2, NoFrames DEF ReceiveStale, Abandon
<1>7. CASE ReceiveReply
  <2>1. fromRpu' \in Seq(Replies)
    BY <1>2, <1>7, TailFacts DEF ReceiveReply, LinkTypes
  <2>2. frames # <<>> /\ frames' = Tail(frames)
    BY <1>2, <1>7 DEF ReceiveReply, FramesNumbered
  <2>3. /\ frames' \in Seq(HostFrames) /\ Len(frames) \in Nat /\ Len(frames') = Len(frames) - 1
        /\ \A i \in 1 .. Len(frames) - 1 : frames'[i] = frames[i + 1]
        /\ frames' = <<>> <=> Len(frames) = 1
        /\ Len(frames) > 0
    BY <1>2, <2>2, TailFacts DEF LinkTypes
  <2>4. request' \in [id : Nat, command : RequestCommands, begun : BOOLEAN]
    <3>1. PICK b \in BOOLEAN : request' = [request EXCEPT !.begun = b]
      <4> DEFINE b == request.begun \/ (Head(frames).command.op = "Begin"
                                         /\ Head(fromRpu).status = "Applied")
      <4>1. request' = [request EXCEPT !.begun = b] /\ b \in BOOLEAN
        BY <1>2, <1>7 DEF ReceiveReply, LinkTypes
      <4> HIDE DEF b
      <4>2. QED BY <4>1
    <3>2. QED
      BY <1>2, <3>1 DEF LinkTypes
  <2>5. outcome' \in {"none", "success", "failure"} /\ pc' \in {"idle", "send"}
        /\ (pc' = "idle" <=> Len(frames) = 1)
    <3>1. outcome \in {"none", "success", "failure"}
      BY <1>2 DEF LinkTypes
    <3>2. CASE Len(frames) > 1
      <4>1. pc' = "send" /\ outcome' = outcome
        BY <1>7, <3>2 DEF ReceiveReply
      <4>2. QED
        BY <2>3, <3>1, <3>2, <4>1
    <3>3. CASE Len(frames) = 1
      <4>1. pc' = "idle" /\ outcome' = Outcome(request.command.kind, Head(fromRpu).status)
        BY <1>7, <3>3 DEF ReceiveReply
      <4>2. QED
        BY <3>3, <4>1 DEF Outcome
    <3>4. QED
      BY <2>3, <3>2, <3>3
  <2>6. LinkTypes'
    BY <1>2, <1>7, <2>1, <2>3, <2>4, <2>5 DEF ReceiveReply, LinkTypes, rpuVars
  <2>7. \A i \in DOMAIN frames' :
          /\ i \in 1 .. Len(frames) - 1 /\ i + 1 \in DOMAIN frames /\ frames'[i] = frames[i + 1]
    <3>1. DOMAIN frames = 1 .. Len(frames)
      BY <1>2, LenProperties DEF LinkTypes
    <3>2. DOMAIN frames' = 1 .. Len(frames')
      BY <2>3, LenProperties
    <3>3. \A i \in DOMAIN frames' : i \in 1 .. Len(frames) - 1 /\ i + 1 \in DOMAIN frames
      BY <2>3, <3>1, <3>2
    <3>4. QED
      BY <2>3, <3>3
  <2>8. 1 \in DOMAIN frames' => frames'[1].sequence = frames[1].sequence + 1
    <3>1. 2 \in DOMAIN frames => frames[2].sequence = frames[1].sequence + (2 - 1)
      BY <1>2 DEF FramesNumbered
    <3>2. 1 \in DOMAIN frames' => 2 \in DOMAIN frames /\ frames'[1] = frames[2]
      BY <2>7
    <3>3. QED
      BY <3>1, <3>2
  <2>9. ASSUME NEW i \in DOMAIN frames'
        PROVE  /\ frames'[i].sequence = frames[1].sequence + i
               /\ frames'[i].sequence \in 1 .. SequenceMax
               /\ frames'[i].sequence # next_sequence
               /\ next_sequence # 1 => frames'[i].sequence < next_sequence
    <3>1. i \in Int /\ i + 1 \in DOMAIN frames /\ frames'[i] = frames[i + 1]
      BY <2>3, <2>7
    <3>2. /\ frames[i + 1].sequence \in 1 .. SequenceMax
          /\ frames[i + 1].sequence = frames[1].sequence + ((i + 1) - 1)
          /\ frames[i + 1].sequence # next_sequence
      BY <1>2, <3>1 DEF FramesNumbered
    <3>3. next_sequence # 1 => frames[i + 1].sequence < next_sequence
      BY <1>2, <2>2, <3>1 DEF BelowNext
    <3>4. (i + 1) - 1 = i
      BY <3>1
    <3>5. QED
      BY <3>1, <3>2, <3>3, <3>4
  <2>10. \A i \in DOMAIN frames' : 1 \in DOMAIN frames'
    BY <2>3
  <2>11. frames[1].sequence \in Int
    <3>1. 1 \in DOMAIN frames
      BY <1>2, <2>3 DEF LinkTypes
    <3>2. frames[1].sequence \in 1 .. SequenceMax
      BY <1>2, <3>1 DEF FramesNumbered
    <3>3. QED
      BY <3>2
  <2>12. \A i \in DOMAIN frames' : frames'[i].sequence = frames'[1].sequence + (i - 1)
    BY <2>3, <2>8, <2>9, <2>10, <2>11
  <2>13. FramesNumbered' /\ BelowNext'
    BY <1>2, <1>7, <2>3, <2>5, <2>9, <2>12 DEF ReceiveReply, FramesNumbered, BelowNext
  <2>14. QED
    BY <2>6, <2>13 DEF NumberInv
<1>8. CASE RpuHandles
  <2>1. Head(toRpu).frame \in HostFrames /\ Head(toRpu).request \in Nat
        /\ toRpu' \in Seq([frame : HostFrames, request : Nat, index : Int])
    <3>1. toRpu \in Seq([frame : HostFrames, request : Nat, index : Int]) /\ toRpu # <<>>
          /\ toRpu' = Tail(toRpu)
      BY <1>2, <1>8 DEF RpuHandles, LinkTypes
    <3>2. Head(toRpu) \in [frame : HostFrames, request : Nat, index : Int]
          /\ Tail(toRpu) \in Seq([frame : HostFrames, request : Nat, index : Int])
      BY <3>1, TailFacts
    <3>3. QED
      BY <3>1, <3>2
  <2>2. reply' \in Replies /\ heartbeat' = heartbeat + 1
    BY <1>8, <2>1, RpuReply DEF RpuHandles
  <2>3. fromRpu' \in Seq(Replies) /\ origin' \in Seq(Nat) /\ heartbeat' = Len(origin')
    BY <1>2, <1>8, <2>1, <2>2 DEF RpuHandles, LinkTypes
  <2>4. LinkTypes'
    BY <1>2, <1>8, <2>1, <2>2, <2>3 DEF RpuHandles, LinkTypes, hostVars
  <2>5. QED
    BY <1>2, <1>8, <2>4 DEF RpuHandles, hostVars, NumberInv, FramesNumbered, BelowNext
<1>9. CASE RpuInterlockChanges
  BY <1>2, <1>9 DEF RpuInterlockChanges, SetInterlock, hostVars, linkVars, LinkTypes, NumberInv,
         FramesNumbered, BelowNext
<1>10. CASE ServerRestarts
  <2>1. 1 \in 1 .. SequenceMax /\ fromRpu' \in Seq(Replies)
    <3>1. fromRpu \in Seq(Replies) /\ <<>> \in Seq(Replies)
      BY <1>2 DEF LinkTypes
    <3>2. fromRpu' \in {fromRpu, <<>>}
      BY <1>10 DEF ServerRestarts
    <3>3. 1 \in 1 .. SequenceMax
      BY RuntimeAssumption
    <3>4. QED
      BY <3>1, <3>2, <3>3
  <2>2. LinkTypes'
    BY <1>2, <1>10, <2>1 DEF ServerRestarts, LinkTypes, rpuVars
  <2>3. QED
    BY <1>10, <2>2, NoFrames DEF ServerRestarts
<1>11. CASE UNCHANGED vars
  BY <1>2, <1>11 DEF vars, rpuVars, hostVars, linkVars, LinkTypes, NumberInv, FramesNumbered, BelowNext
<1>12. QED
  BY <1>1, <1>3, <1>4, <1>5, <1>6, <1>7, <1>8, <1>9, <1>10, <1>11 DEF Next, HostStep

\* The frames of a command are numbered without a gap or a wrap, whatever the number space, the
\* lengths of the commands and the restarts: reserve_sequences and status agree.
THEOREM Numbered == Spec => []FramesNumbered
<1>1. NumberInv => FramesNumbered
  BY DEF NumberInv
<1>2. QED
  BY <1>1, InitNumbers, StepNumbers, PTL DEF Spec

-------------------------------------------------------------------------------
(***************************************************************************)
(* The queues                                                              *)
(***************************************************************************)
\* How a number on the link stands to the frame the host is at.
Below(n) ==
    IF frames = <<>> THEN n < next_sequence
    ELSE IF pc = "send" THEN n < frames[1].sequence ELSE n <= frames[1].sequence

\* Unless the numbers began anew over what an earlier command had left on the link, they are in
\* the order of sending along the replies and then the frames, and none is past the host's.
InOrder ==
    clean /\ (frames = <<>> => next_sequence # 1) =>
        /\ \A i, j \in DOMAIN fromRpu : i < j => fromRpu[i].sequence < fromRpu[j].sequence
        /\ \A i, j \in DOMAIN toRpu : i < j => toRpu[i].frame.sequence < toRpu[j].frame.sequence
        /\ \A i \in DOMAIN fromRpu, j \in DOMAIN toRpu :
             fromRpu[i].sequence < toRpu[j].frame.sequence
        /\ \A i \in DOMAIN fromRpu : Below(fromRpu[i].sequence)
        /\ \A j \in DOMAIN toRpu : Below(toRpu[j].frame.sequence)

LEMMA Elements ==
    ASSUME NEW S, NEW q \in Seq(S), NEW i \in DOMAIN q
    PROVE  q[i] \in S
OBVIOUS

LEMMA EmptyQueue ==
    ASSUME NEW S, NEW q \in Seq(S), Len(q) = 0
    PROVE  q = <<>>
OBVIOUS

LEMMA LinkNumbers ==
    ASSUME LinkTypes
    PROVE  /\ fromRpu \in Seq(Replies)
           /\ \A i \in DOMAIN fromRpu : fromRpu[i].sequence \in Nat
           /\ \A j \in DOMAIN toRpu : toRpu[j].frame.sequence \in Nat
<1>1. fromRpu \in Seq(Replies) /\ toRpu \in Seq([frame : HostFrames, request : Nat, index : Int])
  BY DEF LinkTypes
<1>2. \A r \in Replies : r.sequence \in Nat
  BY LinkAssumption DEF Replies, Sequences
<1>3. \A f \in HostFrames : f.sequence \in Nat
  BY LinkAssumption DEF HostFrames, Frames, Sequences
<1>4. \A i \in DOMAIN fromRpu : fromRpu[i] \in Replies
  BY <1>1
<1>5. ASSUME NEW j \in DOMAIN toRpu PROVE toRpu[j].frame \in HostFrames
  <2>1. toRpu[j] \in [frame : HostFrames, request : Nat, index : Int]
    BY <1>1, <1>5, Elements
  <2>2. QED
    BY <2>1
<1>6. QED
  BY <1>1, <1>2, <1>3, <1>4, <1>5

\* Fewer replies, no more frames, and a host that is further on.
LEMMA FewerInOrder ==
    ASSUME InOrder, LinkTypes, UNCHANGED <<toRpu, clean>>,
           \/ UNCHANGED fromRpu
           \/ fromRpu # <<>> /\ fromRpu' = Tail(fromRpu),
           (frames' = <<>> => next_sequence' # 1) => (frames = <<>> => next_sequence # 1),
           \A n \in Nat : (frames' = <<>> => next_sequence' # 1) /\ Below(n) => Below(n)'
    PROVE  InOrder'
<1>1. /\ fromRpu \in Seq(Replies)
      /\ \A i \in DOMAIN fromRpu : fromRpu[i].sequence \in Nat
      /\ \A j \in DOMAIN toRpu : toRpu[j].frame.sequence \in Nat
  BY LinkNumbers
<1>2. CASE UNCHANGED fromRpu
  BY <1>1, <1>2 DEF InOrder
<1>3. CASE fromRpu # <<>> /\ fromRpu' = Tail(fromRpu)
  <2>1. \A i \in DOMAIN fromRpu' : i + 1 \in DOMAIN fromRpu /\ fromRpu'[i] = fromRpu[i + 1]
    BY <1>1, <1>3, TailFacts
  <2>2. \A i, j \in DOMAIN fromRpu' : i < j => i + 1 < j + 1
    BY <1>1, <1>3
  <2>3. QED
    BY <1>1, <2>1, <2>2 DEF InOrder
<1>4. QED
  BY <1>2, <1>3

LEMMA StepInOrder == NumberInv /\ InOrder /\ [Next]_vars => InOrder'
<1>1. SUFFICES ASSUME NumberInv, InOrder, [Next]_vars PROVE InOrder'
  OBVIOUS
<1>2. LinkTypes /\ FramesNumbered /\ BelowNext /\ NumberInv'
  BY <1>1, StepNumbers DEF NumberInv
<1>3. frames # <<>> => frames[1].sequence \in Nat /\ 1 \in DOMAIN frames
  BY <1>2 DEF LinkTypes, FramesNumbered
<1>4. next_sequence \in Nat
  BY <1>2 DEF LinkTypes
<1>5. CASE \E c \in AfeCommands : SubmitStatus(c) \/ SubmitAfeCommand(c)
  <2>1. PICK c \in AfeCommands : SubmitStatus(c) \/ SubmitAfeCommand(c)
    BY <1>5
  <2>2. PICK first \in 1 .. SequenceMax :
          /\ Start(c, first)
          /\ first + FrameCount(c) - 1 <= SequenceMax
          /\ first # 1 => first = next_sequence
    BY <1>1, <2>1, StartNumbers
  <2>3. frames = <<>> /\ pc' = "send" /\ UNCHANGED <<toRpu, fromRpu>>
    BY <1>2, <2>2 DEF Start, FramesNumbered, linkVars
  <2>4. frames' # <<>> /\ frames'[1].sequence = first
    <3>1. FrameCount(c) \in Nat /\ FrameCount(c) > 0
      BY CommandFacts DEF RequestCommands
    <3>2. 1 \in 1 .. FrameCount(c)
      BY <3>1
    <3>3. FramesOf(c, first) # <<>> /\ FramesOf(c, first)[1].sequence = first + (1 - 1)
      BY <2>2, <3>2, FramesOfNumbers
    <3>4. QED
      BY <2>2, <3>3 DEF Start
  <2>5. CASE first = 1
    <3>1. clean' => toRpu = <<>> /\ fromRpu = <<>>
      BY <2>2, <2>5 DEF Start
    <3>2. clean' => DOMAIN toRpu' = {} /\ DOMAIN fromRpu' = {}
      BY <2>3, <3>1
    <3>3. QED
      BY <3>2 DEF InOrder
  <2>6. CASE first # 1
    <3>1. clean' = clean /\ first = next_sequence
      BY <2>2, <2>6 DEF Start
    <3>2. \A n \in Nat : Below(n) => Below(n)'
      BY <2>3, <2>4, <3>1 DEF Below
    <3>3. QED
      BY <1>1, <1>2, <2>3, <2>4, <2>6, <3>1, <3>2, FewerInOrder
  <2>7. QED
    BY <2>5, <2>6
<1>6. CASE SendFrame
  <2>1. /\ pc = "send" /\ pc' = "wait" /\ UNCHANGED <<fromRpu, frames, next_sequence, clean>>
        /\ frames # <<>> /\ frames[1] \in HostFrames /\ Head(frames) = frames[1]
        /\ toRpu' = Append(toRpu, NextMessage)
    BY <1>2, <1>6, TailFacts DEF SendFrame, FramesNumbered, LinkTypes
  <2>2. SUFFICES ASSUME clean PROVE InOrder'
    BY <2>1 DEF InOrder
  <2>3. \A i \in DOMAIN fromRpu : fromRpu[i].sequence \in Nat /\ fromRpu[i].sequence < frames[1].sequence
    BY <1>1, <1>2, <2>1, <2>2, LinkNumbers DEF InOrder, Below
  <2>4. \A j \in DOMAIN toRpu : /\ toRpu[j].frame.sequence \in Nat
                                /\ toRpu[j].frame.sequence < frames[1].sequence
    BY <1>1, <1>2, <2>1, <2>2, LinkNumbers DEF InOrder, Below
  <2>5. /\ DOMAIN toRpu' = 1 .. Len(toRpu) + 1 /\ DOMAIN toRpu = 1 .. Len(toRpu)
        /\ Len(toRpu) \in Nat
        /\ \A j \in 1 .. Len(toRpu) : toRpu'[j] = toRpu[j]
        /\ toRpu'[Len(toRpu) + 1].frame = frames[1]
    <3> DEFINE S == [frame : HostFrames, request : Nat, index : Int]
    <3>1. toRpu \in Seq(S) /\ toRpu' \in Seq(S) /\ NextMessage.frame = frames[1]
      BY <1>2, <2>1, <1>1, StepNumbers DEF NumberInv, LinkTypes, NextMessage
    <3> HIDE DEF S
    <3>2. QED
      BY <2>1, <3>1
  <2>6. \A j \in DOMAIN toRpu' :
          \/ j \in DOMAIN toRpu /\ toRpu'[j] = toRpu[j] /\ j < Len(toRpu) + 1
          \/ j = Len(toRpu) + 1 /\ toRpu'[j].frame.sequence = frames[1].sequence
    BY <2>5
  <2>7. \A j \in DOMAIN toRpu' : Below(toRpu[j].frame.sequence)'
    BY <1>3, <2>1, <2>4, <2>6 DEF Below
  <2>8. \A i \in DOMAIN fromRpu' : Below(fromRpu[i].sequence)'
    BY <1>3, <2>1, <2>3 DEF Below
  <2>9. \A i, j \in DOMAIN toRpu' : i < j => toRpu'[i].frame.sequence < toRpu'[j].frame.sequence
    BY <1>1, <2>1, <2>2, <2>4, <2>5, <2>6 DEF InOrder
  <2>10. \A i \in DOMAIN fromRpu', j \in DOMAIN toRpu' :
           fromRpu'[i].sequence < toRpu'[j].frame.sequence
    BY <1>1, <2>1, <2>2, <2>3, <2>6 DEF InOrder
  <2>11. QED
    BY <1>1, <2>1, <2>2, <2>7, <2>8, <2>9, <2>10 DEF InOrder
<1>7. CASE SendFails \/ TimeOut \/ ReceiveStale
  <2>1. /\ frames # <<>> /\ frames' = <<>> /\ UNCHANGED <<toRpu, clean, next_sequence>>
        /\ UNCHANGED fromRpu \/ (fromRpu # <<>> /\ fromRpu' = Tail(fromRpu))
    BY <1>2, <1>7 DEF SendFails, TimeOut, ReceiveStale, Abandon, FramesNumbered, linkVars
  <2>2. next_sequence # 1 => frames[1].sequence < next_sequence
    BY <1>2, <1>3, <2>1 DEF BelowNext
  <2>3. \A n \in Nat : next_sequence # 1 /\ Below(n) => Below(n)'
    BY <1>3, <1>4, <2>1, <2>2 DEF Below
  <2>4. QED
    BY <1>1, <1>2, <2>1, <2>3, FewerInOrder
<1>8. CASE ReceiveReply
  <2>1. /\ pc = "wait" /\ frames # <<>> /\ frames' = Tail(frames)
        /\ UNCHANGED <<toRpu, clean, next_sequence>>
        /\ fromRpu # <<>> /\ fromRpu' = Tail(fromRpu)
    BY <1>2, <1>8 DEF ReceiveReply, FramesNumbered
  <2>2. frames' # <<>> => pc' = "send" /\ frames'[1].sequence = frames[1].sequence + 1
    <3>1. SUFFICES ASSUME frames' # <<>>
                   PROVE  pc' = "send" /\ frames'[1].sequence = frames[1].sequence + 1
      OBVIOUS
    <3>2. Len(frames) \in Nat /\ Len(frames) > 1 /\ frames'[1] = frames[2] /\ 2 \in DOMAIN frames
      BY <1>2, <2>1, <3>1, TailFacts DEF LinkTypes
    <3>3. frames[2].sequence = frames[1].sequence + (2 - 1)
      BY <1>2, <3>2 DEF FramesNumbered
    <3>4. QED
      BY <1>3, <1>8, <2>1, <3>2, <3>3 DEF ReceiveReply
  <2>3. next_sequence # 1 => frames[1].sequence < next_sequence
    BY <1>2, <1>3, <2>1 DEF BelowNext
  <2>4. ASSUME NEW n \in Nat, frames' = <<>> => next_sequence # 1, Below(n)
        PROVE  Below(n)'
    <3>1. n <= frames[1].sequence
      BY <2>1, <2>4 DEF Below
    <3>2. CASE frames' = <<>>
      <4>1. frames[1].sequence < next_sequence
        BY <2>3, <2>4, <3>2
      <4>2. n < next_sequence
        BY <1>3, <1>4, <2>1, <3>1, <4>1
      <4>3. QED
        BY <2>1, <3>2, <4>2 DEF Below
    <3>3. CASE frames' # <<>>
      <4>1. n < frames[1].sequence + 1
        BY <1>3, <1>4, <2>1, <3>1
      <4>2. QED
        BY <2>2, <3>3, <4>1 DEF Below
    <3>4. QED
      BY <3>2, <3>3
  <2>5. QED
    BY <1>1, <1>2, <2>1, <2>4, FewerInOrder
<1>9. CASE RpuHandles
  <2>1. /\ toRpu # <<>> /\ toRpu' = Tail(toRpu) /\ fromRpu' = Append(fromRpu, reply')
        /\ UNCHANGED <<pc, frames, next_sequence, clean>>
    BY <1>9 DEF RpuHandles, hostVars
  <2>2. /\ toRpu[1].frame \in HostFrames /\ reply'.sequence = toRpu[1].frame.sequence
        /\ reply' \in Replies
    <3>1. toRpu \in Seq([frame : HostFrames, request : Nat, index : Int])
      BY <1>2 DEF LinkTypes
    <3>2. Head(toRpu) = toRpu[1] /\ toRpu[1] \in [frame : HostFrames, request : Nat, index : Int]
      BY <2>1, <3>1, TailFacts
    <3>3. toRpu[1].frame \in HostFrames /\ HandleFrame(toRpu[1].frame)
      BY <1>9, <3>2 DEF RpuHandles
    <3>4. QED
      BY <3>3, RpuReply
  <2>3. \A j \in DOMAIN toRpu' : j + 1 \in DOMAIN toRpu /\ toRpu'[j] = toRpu[j + 1] /\ j \in Nat /\ j > 0
    <3>1. toRpu \in Seq([frame : HostFrames, request : Nat, index : Int])
      BY <1>2 DEF LinkTypes
    <3>2. /\ Len(toRpu) \in Nat /\ toRpu' \in Seq([frame : HostFrames, request : Nat, index : Int])
          /\ Len(toRpu') = Len(toRpu) - 1
          /\ \A j \in 1 .. Len(toRpu) - 1 : toRpu'[j] = toRpu[j + 1]
      BY <2>1, <3>1, TailFacts
    <3>3. DOMAIN toRpu = 1 .. Len(toRpu) /\ DOMAIN toRpu' = 1 .. Len(toRpu) - 1
      BY <3>1, <3>2, LenProperties
    <3>4. QED
      BY <3>2, <3>3
  <2>4. /\ \A i \in DOMAIN fromRpu' :
             \/ i \in DOMAIN fromRpu /\ fromRpu'[i] = fromRpu[i] /\ i < Len(fromRpu) + 1
             \/ i = Len(fromRpu) + 1 /\ fromRpu'[i].sequence = toRpu[1].frame.sequence
        /\ Len(fromRpu) \in Nat /\ DOMAIN fromRpu = 1 .. Len(fromRpu)
        /\ 1 \in DOMAIN toRpu
    <3>1. fromRpu \in Seq(Replies) /\ Len(fromRpu) \in Nat /\ DOMAIN fromRpu = 1 .. Len(fromRpu)
      BY <1>2 DEF LinkTypes
    <3>2. 1 \in DOMAIN toRpu
      BY <1>2, <2>1 DEF LinkTypes
    <3>3. reply' \in Replies
      BY <2>2
    <3>4. /\ Len(fromRpu') = Len(fromRpu) + 1 /\ DOMAIN fromRpu' = 1 .. Len(fromRpu) + 1
          /\ \A i \in 1 .. Len(fromRpu) : fromRpu'[i] = fromRpu[i]
          /\ fromRpu'[Len(fromRpu) + 1] = reply'
      BY <2>1, <3>1, <3>3
    <3>5. QED
      BY <2>2, <3>1, <3>2, <3>4
  <2>5. SUFFICES ASSUME clean, frames = <<>> => next_sequence # 1 PROVE InOrder'
    BY <2>1 DEF InOrder
  <2>6. /\ \A i, j \in DOMAIN fromRpu : i < j => fromRpu[i].sequence < fromRpu[j].sequence
        /\ \A i, j \in DOMAIN toRpu : i < j => toRpu[i].frame.sequence < toRpu[j].frame.sequence
        /\ \A i \in DOMAIN fromRpu, j \in DOMAIN toRpu :
             fromRpu[i].sequence < toRpu[j].frame.sequence
        /\ \A i \in DOMAIN fromRpu : Below(fromRpu[i].sequence)
        /\ \A j \in DOMAIN toRpu : Below(toRpu[j].frame.sequence)
    BY <1>1, <2>5 DEF InOrder
  <2>7. \A n : Below(n)' <=> Below(n)
    BY <2>1 DEF Below
  <2>8. \A i, j \in DOMAIN fromRpu' : i < j => fromRpu'[i].sequence < fromRpu'[j].sequence
    BY <2>4, <2>6
  <2>9. \A i, j \in DOMAIN toRpu' : i < j => toRpu'[i].frame.sequence < toRpu'[j].frame.sequence
    BY <2>3, <2>6
  <2>10. \A i \in DOMAIN fromRpu', j \in DOMAIN toRpu' :
           fromRpu'[i].sequence < toRpu'[j].frame.sequence
    BY <2>3, <2>4, <2>6
  <2>11. \A i \in DOMAIN fromRpu' : Below(fromRpu[i].sequence)'
    BY <2>1, <2>4, <2>6 DEF Below
  <2>12. \A j \in DOMAIN toRpu' : Below(toRpu[j].frame.sequence)'
    BY <2>1, <2>3, <2>6 DEF Below
  <2>13. QED
    BY <2>8, <2>9, <2>10, <2>11, <2>12 DEF InOrder
<1>10. CASE ServerRestarts
  BY <1>10 DEF ServerRestarts, InOrder
<1>11. CASE RpuInterlockChanges \/ UNCHANGED vars
  BY <1>1, <1>11 DEF RpuInterlockChanges, vars, hostVars, linkVars, InOrder, Below
<1>12. QED
  BY <1>1, <1>5, <1>6, <1>7, <1>8, <1>9, <1>10, <1>11 DEF Next, HostStep

LEMMA InitInOrder == Init => InOrder
<1>1. Init => toRpu = <<>> /\ fromRpu = <<>>
  BY DEF Init
<1>2. toRpu = <<>> /\ fromRpu = <<>> => DOMAIN toRpu = {} /\ DOMAIN fromRpu = {}
  OBVIOUS
<1>3. QED
  BY <1>1, <1>2 DEF InOrder

\* A reply to the frame the host is at leaves nothing on the link behind it.
LEMMA NothingBehind ==
    ASSUME NumberInv, InOrder, clean, pc = "wait", fromRpu # <<>>,
           fromRpu[1].sequence = frames[1].sequence
    PROVE  toRpu = <<>> /\ Len(fromRpu) = 1
<1>1. /\ LinkTypes /\ frames # <<>> /\ frames[1].sequence \in Nat
  BY DEF NumberInv, LinkTypes, FramesNumbered
<1>2. /\ Len(fromRpu) \in Nat /\ Len(fromRpu) > 0 /\ DOMAIN fromRpu = 1 .. Len(fromRpu)
      /\ Len(toRpu) \in Nat /\ DOMAIN toRpu = 1 .. Len(toRpu)
  BY <1>1 DEF LinkTypes
<1>3. /\ \A i, j \in DOMAIN fromRpu : i < j => fromRpu[i].sequence < fromRpu[j].sequence
      /\ \A i \in DOMAIN fromRpu, j \in DOMAIN toRpu :
           fromRpu[i].sequence < toRpu[j].frame.sequence
      /\ \A i \in DOMAIN fromRpu : fromRpu[i].sequence <= frames[1].sequence
      /\ \A j \in DOMAIN toRpu : toRpu[j].frame.sequence <= frames[1].sequence
  BY <1>1 DEF InOrder, Below
<1>4. /\ \A i \in DOMAIN fromRpu : fromRpu[i].sequence \in Nat
      /\ \A j \in DOMAIN toRpu : toRpu[j].frame.sequence \in Nat
  BY <1>1, LinkNumbers
<1>5. \A i \in DOMAIN fromRpu : ~(1 < i)
  BY <1>1, <1>2, <1>3, <1>4
<1>6. \A j \in DOMAIN toRpu : FALSE
  BY <1>1, <1>2, <1>3, <1>4
<1>7. Len(fromRpu) = 1
  BY <1>2, <1>5
<1>8. toRpu = <<>>
  <2>1. Len(toRpu) = 0
    <3>1. ASSUME Len(toRpu) > 0 PROVE FALSE
      <4>1. 1 \in DOMAIN toRpu
        BY <1>2, <3>1
      <4>2. QED
        BY <1>6, <4>1
    <3>2. QED
      BY <1>2, <3>1
  <2>2. toRpu \in Seq([frame : HostFrames, request : Nat, index : Int])
    BY <1>1 DEF LinkTypes
  <2>3. QED
    BY <2>1, <2>2, EmptyQueue
<1>9. QED
  BY <1>7, <1>8

-------------------------------------------------------------------------------
(***************************************************************************)
(* The frames of each request                                              *)
(***************************************************************************)
\* The request of the i-th frame sent: the RPU ran the first ones, the others wait for it.
Sender(i) == IF i <= Len(origin) THEN origin[i] ELSE toRpu[i - Len(origin)].request

\* The last n frames sent, and no others, are those of the last request.
LastAre(n) ==
    /\ n <= Total
    /\ \A i \in 1 .. Total : Sender(i) = request.id <=> i > Total - n

SentOfRequest == FrameCount(request.command) - Len(frames) + (IF pc = "wait" THEN 1 ELSE 0)

SenderInv ==
    /\ pc # "idle" => request.id > 0
    /\ \A i \in 1 .. Total : Sender(i) \in 1 .. request.id
    /\ \A i, j \in 1 .. Total : i <= j => Sender(i) <= Sender(j)
    /\ \E n \in 0 .. FrameCount(request.command) :
          LastAre(n) /\ (pc # "idle" => n = SentOfRequest)

\* The newest reply on the link is the one the RPU wrote last.
NewestReply == fromRpu # <<>> => fromRpu[Len(fromRpu)] = reply

\* A step that sends nothing, starts nothing and gets no further in the command.
LEMMA KeepSenders ==
    ASSUME SenderInv, Total' = Total, \A i \in 1 .. Total : Sender(i)' = Sender(i),
           UNCHANGED <<request.id, request.command>>,
           pc' # "idle" => pc # "idle" /\ SentOfRequest' = SentOfRequest
    PROVE  SenderInv'
<1>1. PICK n \in 0 .. FrameCount(request.command) :
        LastAre(n) /\ (pc # "idle" => n = SentOfRequest)
  BY DEF SenderInv
<1>2. LastAre(n)' /\ (pc' # "idle" => n = SentOfRequest')
  BY <1>1 DEF LastAre
<1>3. n \in 0 .. FrameCount(request'.command)
  BY <1>1
<1>4. \E k \in 0 .. FrameCount(request'.command) :
        LastAre(k)' /\ (pc' # "idle" => k = SentOfRequest')
  BY <1>2, <1>3
<1>5. QED
  BY <1>4 DEF SenderInv

\* A frame that is handled leaves the place of its request in the order of sending.
LEMMA HandledSenders ==
    ASSUME LinkTypes, toRpu # <<>>, toRpu' = Tail(toRpu),
           origin' = Append(origin, Head(toRpu).request)
    PROVE  Total' = Total /\ \A i \in 1 .. Total : Sender(i)' = Sender(i)
<1> DEFINE S == [frame : HostFrames, request : Nat, index : Int]
<1>1. toRpu \in Seq(S) /\ origin \in Seq(Nat)
  BY DEF LinkTypes
<1>2. /\ Head(toRpu) = toRpu[1] /\ toRpu[1] \in S /\ Len(toRpu) \in Nat /\ Len(toRpu) > 0
      /\ Len(toRpu') = Len(toRpu) - 1
      /\ \A j \in 1 .. Len(toRpu) - 1 : toRpu'[j] = toRpu[j + 1]
  <2> HIDE DEF S
  <2> QED BY <1>1, TailFacts
<1>3. toRpu[1].request \in Nat
  BY <1>2
<1>4. /\ Len(origin) \in Nat /\ Len(origin') = Len(origin) + 1
      /\ \A i \in 1 .. Len(origin) : origin'[i] = origin[i]
      /\ origin'[Len(origin) + 1] = toRpu[1].request
  BY <1>1, <1>2, <1>3
<1>5. Total' = Total
  BY <1>2, <1>4 DEF Total
<1>6. ASSUME NEW i \in 1 .. Total PROVE Sender(i)' = Sender(i)
  <2>1. CASE i <= Len(origin)
    BY <1>4, <2>1 DEF Sender, Total
  <2>2. CASE i = Len(origin) + 1
    <3>1. ~(i <= Len(origin)) /\ i - Len(origin) = 1 /\ i <= Len(origin')
      BY <1>4, <2>2
    <3>2. QED
      BY <1>4, <2>2, <3>1 DEF Sender
  <2>3. CASE i > Len(origin) + 1
    <3>1. /\ ~(i <= Len(origin)) /\ ~(i <= Len(origin'))
          /\ i - Len(origin') \in 1 .. Len(toRpu) - 1
          /\ i - Len(origin) = (i - Len(origin')) + 1
      BY <1>2, <1>4, <2>3 DEF Total
    <3>2. toRpu'[i - Len(origin')] = toRpu[i - Len(origin)]
      BY <1>2, <3>1
    <3>3. QED
      BY <3>1, <3>2 DEF Sender
  <2>4. QED
    BY <1>2, <1>4, <2>1, <2>2, <2>3 DEF Total
<1>7. QED
  BY <1>5, <1>6

LEMMA InitSenders == Init => SenderInv
<1>1. SUFFICES ASSUME Init PROVE SenderInv
  OBVIOUS
<1>2. NumberInv
  BY <1>1, InitNumbers
<1>3. pc = "idle" /\ Total = 0 /\ FrameCount(request.command) \in Nat
  BY <1>1, <1>2, SenderFacts DEF Init, Total
<1>4. 0 \in 0 .. FrameCount(request.command) /\ 1 .. Total = {}
  BY <1>3
<1>5. LastAre(0)
  BY <1>3, <1>4 DEF LastAre
<1>6. QED
  BY <1>3, <1>4, <1>5 DEF SenderInv

LEMMA StepSenders == NumberInv /\ SenderInv /\ [Next]_vars => SenderInv'
<1>1. SUFFICES ASSUME NumberInv, SenderInv, [Next]_vars PROVE SenderInv'
  OBVIOUS
<1>2. LinkTypes /\ FramesNumbered /\ NumberInv'
  BY <1>1, StepNumbers DEF NumberInv
<1>3. /\ Len(origin) \in Nat /\ Len(toRpu) \in Nat /\ Total \in Nat
      /\ FrameCount(request.command) \in Nat /\ FrameCount(request.command) > 0
      /\ request.id \in Nat /\ Len(frames) \in Nat
      /\ pc = "idle" <=> Len(frames) = 0
  BY <1>1, SenderFacts
<1>4. CASE \E c \in AfeCommands : SubmitStatus(c) \/ SubmitAfeCommand(c)
  <2>1. PICK c \in AfeCommands : SubmitStatus(c) \/ SubmitAfeCommand(c)
    BY <1>4
  <2>2. PICK first \in 1 .. SequenceMax :
          Start(c, first) /\ first + FrameCount(c) - 1 <= SequenceMax
    BY <1>1, <2>1, StartNumbers
  <2>3. /\ UNCHANGED <<origin, toRpu>> /\ pc' = "send"
        /\ request'.id = request.id + 1 /\ request'.command = c
        /\ frames' = FramesOf(c, first)
    BY <2>2 DEF Start, linkVars
  <2>4. Len(frames') = FrameCount(c) /\ FrameCount(c) \in Nat
    BY <2>2, <2>3, FramesOfNumbers, CommandFacts DEF RequestCommands
  <2>5. Total' = Total /\ \A i \in 1 .. Total : Sender(i)' = Sender(i)
    BY <2>3 DEF Total, Sender
  <2>6. 0 = SentOfRequest' /\ 0 \in 0 .. FrameCount(c)
    BY <2>3, <2>4 DEF SentOfRequest
  <2>7. /\ \A i \in 1 .. Total : Sender(i) \in 1 .. request.id
        /\ \A i, j \in 1 .. Total : i <= j => Sender(i) <= Sender(j)
    BY <1>1 DEF SenderInv
  <2>8. /\ \A i \in 1 .. Total' : Sender(i)' \in 1 .. request'.id
        /\ \A i, j \in 1 .. Total' : i <= j => Sender(i)' <= Sender(j)'
        /\ \A i \in 1 .. Total' : Sender(i)' # request'.id /\ ~(i > Total' - 0)
        /\ 0 <= Total' /\ request'.id > 0
    BY <1>3, <2>3, <2>5, <2>7
  <2>9. LastAre(0)'
    BY <2>8 DEF LastAre
  <2>10. QED
    BY <2>3, <2>6, <2>8, <2>9 DEF SenderInv
<1>5. CASE SendFrame
  <2>1. /\ pc = "send" /\ pc' = "wait" /\ UNCHANGED <<origin, frames, request>>
        /\ toRpu' = Append(toRpu, NextMessage)
    BY <1>5 DEF SendFrame
  <2>2. /\ Len(toRpu') = Len(toRpu) + 1
        /\ \A j \in 1 .. Len(toRpu) : toRpu'[j] = toRpu[j]
        /\ toRpu'[Len(toRpu) + 1].request = request.id
    BY <1>2, <2>1 DEF LinkTypes, NextMessage
  <2>3. Total' = Total + 1
    BY <1>3, <2>1, <2>2 DEF Total
  <2>4. \A i \in 1 .. Total : Sender(i)' = Sender(i)
    BY <1>3, <2>1, <2>2 DEF Total, Sender
  <2>5. ASSUME NEW k \in Nat, k = Total + 1 PROVE Sender(k)' = request.id
    <3>1. ~(k <= Len(origin)) /\ k - Len(origin) = Len(toRpu) + 1
      BY <1>3, <2>5 DEF Total
    <3>2. Sender(k)' = toRpu'[k - Len(origin)].request
      BY <2>1, <3>1 DEF Sender
    <3>3. QED
      BY <2>2, <3>1, <3>2
  <2>6. PICK n \in 0 .. FrameCount(request.command) : LastAre(n) /\ n = SentOfRequest
    BY <1>1, <2>1 DEF SenderInv
  <2>7. n + 1 \in 0 .. FrameCount(request.command) /\ n + 1 = SentOfRequest'
    BY <1>3, <2>1, <2>6 DEF SentOfRequest
  <2>8. /\ \A i \in 1 .. Total : Sender(i) \in 1 .. request.id
        /\ \A i, j \in 1 .. Total : i <= j => Sender(i) <= Sender(j)
        /\ n <= Total
        /\ \A i \in 1 .. Total : Sender(i) = request.id <=> i > Total - n
    BY <1>1, <2>6 DEF SenderInv, LastAre
  <2>9. request.id > 0 /\ request.id \in 1 .. request.id
    BY <1>1, <1>3, <2>1 DEF SenderInv
  <2>10. \A i \in 1 .. Total' :
           \/ i \in 1 .. Total /\ i < Total + 1 /\ Sender(i)' = Sender(i)
           \/ i = Total + 1 /\ Sender(i)' = request.id
    BY <1>3, <2>3, <2>4, <2>5
  <2>11. \A i \in 1 .. Total' : Sender(i)' \in 1 .. request.id
    BY <2>8, <2>9, <2>10
  <2>12. ASSUME NEW i \in 1 .. Total', NEW j \in 1 .. Total', i <= j
         PROVE  Sender(i)' <= Sender(j)'
    <3>1. CASE j = Total + 1
      <4>1. Sender(j)' = request.id
        BY <1>3, <2>5, <3>1
      <4>2. Sender(i)' \in 1 .. request.id
        BY <2>11
      <4>3. QED
        BY <1>3, <4>1, <4>2
    <3>2. CASE j # Total + 1
      <4>1. i \in 1 .. Total /\ j \in 1 .. Total
        BY <1>3, <2>3, <2>12, <3>2
      <4>2. Sender(i)' = Sender(i) /\ Sender(j)' = Sender(j)
        BY <2>4, <4>1
      <4>3. QED
        BY <2>8, <2>12, <4>1, <4>2
    <3>3. QED
      BY <3>1, <3>2
  <2>13. LastAre(n + 1)'
    <3>1. \A i \in 1 .. Total' : i > Total' - (n + 1) <=> i > Total - n
      BY <1>3, <2>3, <2>6
    <3>2. \A i \in 1 .. Total' : Sender(i)' = request.id <=> i > Total - n
      BY <1>3, <2>6, <2>8, <2>10
    <3>3. n + 1 <= Total'
      BY <1>3, <2>3, <2>6, <2>8
    <3>4. QED
      BY <2>1, <3>1, <3>2, <3>3 DEF LastAre
  <2>14. QED
    BY <2>1, <2>7, <2>9, <2>11, <2>12, <2>13 DEF SenderInv
<1>6. CASE SendFails \/ TimeOut \/ ReceiveStale \/ ServerRestarts
  <2>1. pc' = "idle" /\ UNCHANGED <<origin, toRpu, request>>
    BY <1>6 DEF SendFails, TimeOut, ReceiveStale, Abandon, ServerRestarts, linkVars
  <2>2. Total' = Total /\ \A i \in 1 .. Total : Sender(i)' = Sender(i)
    BY <2>1 DEF Total, Sender
  <2>3. QED
    BY <1>1, <2>1, <2>2, KeepSenders
<1>7. CASE ReceiveReply
  <2>1. /\ pc = "wait" /\ UNCHANGED <<origin, toRpu>> /\ frames' = Tail(frames) /\ frames # <<>>
        /\ Len(frames) > 1 => pc' = "send"
        /\ ~(Len(frames) > 1) => pc' = "idle"
    BY <1>2, <1>7 DEF ReceiveReply, FramesNumbered
  <2>2. request'.id = request.id /\ request'.command = request.command
    BY <1>2, <1>7 DEF ReceiveReply, LinkTypes
  <2>3. Total' = Total /\ \A i \in 1 .. Total : Sender(i)' = Sender(i)
    BY <2>1 DEF Total, Sender
  <2>4. Len(frames') = Len(frames) - 1
    BY <1>2, <2>1, TailFacts DEF LinkTypes
  <2>5. pc' # "idle" => SentOfRequest' = SentOfRequest
    BY <1>3, <2>1, <2>2, <2>4 DEF SentOfRequest
  <2>6. QED
    BY <1>1, <2>1, <2>2, <2>3, <2>5, KeepSenders
<1>8. CASE RpuHandles
  <2>1. /\ UNCHANGED <<pc, frames, request>> /\ toRpu # <<>> /\ toRpu' = Tail(toRpu)
        /\ origin' = Append(origin, Head(toRpu).request)
    BY <1>8 DEF RpuHandles, hostVars
  <2>2. Total' = Total /\ \A i \in 1 .. Total : Sender(i)' = Sender(i)
    BY <1>2, <2>1, HandledSenders
  <2>3. SentOfRequest' = SentOfRequest
    BY <2>1 DEF SentOfRequest
  <2>4. QED
    BY <1>1, <2>1, <2>2, <2>3, KeepSenders
<1>9. CASE RpuInterlockChanges \/ UNCHANGED vars
  <2>1. UNCHANGED <<origin, toRpu, request, pc, frames>>
    BY <1>9 DEF RpuInterlockChanges, vars, hostVars, linkVars
  <2>2. Total' = Total /\ \A i \in 1 .. Total : Sender(i)' = Sender(i)
    BY <2>1 DEF Total, Sender
  <2>3. SentOfRequest' = SentOfRequest
    BY <2>1 DEF SentOfRequest
  <2>4. QED
    BY <1>1, <2>1, <2>2, <2>3, KeepSenders
<1>10. QED
  BY <1>1, <1>4, <1>5, <1>6, <1>7, <1>8, <1>9 DEF Next, HostStep

-------------------------------------------------------------------------------
(***************************************************************************)
(* The place of each frame in its request                                  *)
(***************************************************************************)
Index(i) == IF i <= Len(origin) THEN place[i] ELSE toRpu[i - Len(origin)].index

HistoryTypes ==
    /\ place \in Seq(Int) /\ Len(place) = Len(origin)
    /\ sizes \in Seq(Nat \ {0}) /\ Len(sizes) = request.id
    /\ request.id > 0 => sizes[request.id] = FrameCount(request.command)

\* The i-th frame sent is the next one of the request of the frame before it, or the first one
\* of its own request.
Follows(i) ==
    /\ Index(i) \in 1 .. sizes[Sender(i)]
    /\ i > 1 /\ Sender(i - 1) = Sender(i) => Index(i) = Index(i - 1) + 1
    /\ ~(i > 1 /\ Sender(i - 1) = Sender(i)) => Index(i) = 1

\* The newest frame sent is where the host is in its request.
IndexInv ==
    /\ HistoryTypes
    /\ \A i \in 1 .. Total : Follows(i)
    /\ \A i \in 1 .. Total :
          i = Total /\ pc # "idle" /\ SentOfRequest > 0 => Index(i) = SentOfRequest

LEMMA InitIndexes == Init => IndexInv
<1>1. SUFFICES ASSUME Init PROVE IndexInv
  OBVIOUS
<1>2. Total = 0 /\ 1 .. Total = {}
  BY <1>1 DEF Init, Total
<1>3. HistoryTypes
  BY <1>1 DEF Init, HistoryTypes, NoRequest
<1>4. QED
  BY <1>2, <1>3 DEF IndexInv

\* A frame keeps its place behind the one before it.
LEMMA KeepFollows ==
    ASSUME NumberInv, SenderInv, \A i \in 1 .. Total : Follows(i),
           \A r \in 1 .. request.id : sizes'[r] = sizes[r],
           \A i \in 1 .. Total : Sender(i)' = Sender(i) /\ Index(i)' = Index(i)
    PROVE  \A i \in 1 .. Total : Follows(i)'
<1>1. SUFFICES ASSUME NEW i \in 1 .. Total PROVE Follows(i)'
  OBVIOUS
<1>2. Follows(i) /\ Sender(i) \in 1 .. request.id
  BY DEF SenderInv
<1>3. i > 1 => i - 1 \in 1 .. Total
  BY SenderFacts
<1>4. /\ Sender(i)' = Sender(i) /\ Index(i)' = Index(i) /\ sizes'[Sender(i)] = sizes[Sender(i)]
      /\ i > 1 => Sender(i - 1)' = Sender(i - 1) /\ Index(i - 1)' = Index(i - 1)
  BY <1>2, <1>3
<1>5. QED
  BY <1>2, <1>4 DEF Follows

\* A step that sends nothing and starts nothing.
LEMMA KeepIndexes ==
    ASSUME NumberInv, SenderInv, IndexInv, UNCHANGED <<sizes, request.id, request.command>>,
           place' \in Seq(Int), Len(place') = Len(origin'), Total' = Total,
           \A i \in 1 .. Total : Sender(i)' = Sender(i) /\ Index(i)' = Index(i),
           pc' # "idle" => pc # "idle" /\ SentOfRequest' = SentOfRequest
    PROVE  IndexInv'
<1>1. HistoryTypes /\ HistoryTypes' /\ Total \in Nat
  BY SenderFacts DEF IndexInv, HistoryTypes
<1>2. \A i \in 1 .. Total : Follows(i)
  BY DEF IndexInv
<1>3. \A i \in 1 .. Total' : Follows(i)'
  <2>1. \A r \in 1 .. request.id : sizes'[r] = sizes[r]
    OBVIOUS
  <2>2. \A i \in 1 .. Total : Follows(i)'
    BY <1>2, <2>1, KeepFollows, ZenonT(30)
  <2>3. QED
    BY <2>2
<1>4. ASSUME NEW i \in 1 .. Total', i = Total', pc' # "idle", SentOfRequest' > 0
      PROVE  Index(i)' = SentOfRequest'
  <2>1. i \in 1 .. Total /\ i = Total /\ pc # "idle" /\ SentOfRequest > 0
    BY <1>4
  <2>2. Index(i) = SentOfRequest /\ Index(i)' = Index(i)
    BY <2>1 DEF IndexInv
  <2>3. QED
    BY <1>4, <2>2
<1>5. QED
  BY <1>1, <1>3, <1>4 DEF IndexInv

LEMMA HandledIndexes ==
    ASSUME LinkTypes, HistoryTypes, toRpu # <<>>, toRpu' = Tail(toRpu),
           origin' = Append(origin, Head(toRpu).request), place' = Append(place, Head(toRpu).index)
    PROVE  /\ place' \in Seq(Int) /\ Len(place') = Len(origin')
           /\ \A i \in 1 .. Total : Index(i)' = Index(i)
<1> DEFINE S == [frame : HostFrames, request : Nat, index : Int]
<1>1. toRpu \in Seq(S) /\ origin \in Seq(Nat) /\ place \in Seq(Int) /\ Len(place) = Len(origin)
  BY DEF LinkTypes, HistoryTypes
<1>2. /\ Head(toRpu) = toRpu[1] /\ toRpu[1] \in S /\ Len(toRpu) \in Nat /\ Len(toRpu) > 0
      /\ Len(toRpu') = Len(toRpu) - 1
      /\ \A j \in 1 .. Len(toRpu) - 1 : toRpu'[j] = toRpu[j + 1]
  <2> HIDE DEF S
  <2> QED BY <1>1, TailFacts
<1>3. toRpu[1].request \in Nat /\ toRpu[1].index \in Int
  BY <1>2
<1>4. /\ Len(origin) \in Nat /\ Len(origin') = Len(origin) + 1
      /\ place' \in Seq(Int) /\ Len(place') = Len(origin')
      /\ \A i \in 1 .. Len(origin) : place'[i] = place[i]
      /\ place'[Len(origin) + 1] = toRpu[1].index
  <2>1. Len(origin) \in Nat /\ Len(origin') = Len(origin) + 1
    BY <1>1, <1>2, <1>3
  <2>2. place' = Append(place, toRpu[1].index)
    BY <1>2
  <2>3. /\ place' \in Seq(Int) /\ Len(place') = Len(place) + 1
        /\ \A i \in 1 .. Len(place) : place'[i] = place[i]
        /\ place'[Len(place) + 1] = toRpu[1].index
    BY <1>1, <1>3, <2>2
  <2>4. QED
    BY <1>1, <2>1, <2>3
<1>5. ASSUME NEW i \in 1 .. Total PROVE Index(i)' = Index(i)
  <2>1. CASE i <= Len(origin)
    BY <1>4, <2>1 DEF Index, Total
  <2>2. CASE i = Len(origin) + 1
    <3>1. ~(i <= Len(origin)) /\ i - Len(origin) = 1 /\ i <= Len(origin')
      BY <1>4, <2>2
    <3>2. QED
      BY <1>4, <2>2, <3>1 DEF Index
  <2>3. CASE i > Len(origin) + 1
    <3>1. /\ ~(i <= Len(origin)) /\ ~(i <= Len(origin'))
          /\ i - Len(origin') \in 1 .. Len(toRpu) - 1
          /\ i - Len(origin) = (i - Len(origin')) + 1
      BY <1>2, <1>4, <2>3 DEF Total
    <3>2. toRpu'[i - Len(origin')] = toRpu[i - Len(origin)]
      BY <1>2, <3>1
    <3>3. QED
      BY <3>1, <3>2 DEF Index
  <2>4. QED
    BY <1>2, <1>4, <2>1, <2>2, <2>3 DEF Total
<1>6. QED
  BY <1>4, <1>5

LEMMA StepIndexes == NumberInv /\ SenderInv /\ IndexInv /\ [Next]_vars => IndexInv'
<1>1. SUFFICES ASSUME NumberInv, SenderInv, IndexInv, [Next]_vars PROVE IndexInv'
  OBVIOUS
<1>2. LinkTypes /\ FramesNumbered /\ NumberInv' /\ SenderInv'
  BY <1>1, StepNumbers, StepSenders DEF NumberInv
<1>3. /\ Len(origin) \in Nat /\ Len(toRpu) \in Nat /\ Total \in Nat
      /\ FrameCount(request.command) \in Nat /\ FrameCount(request.command) > 0
      /\ request.id \in Nat /\ Len(frames) \in Nat
      /\ pc = "idle" <=> Len(frames) = 0
  BY <1>1, SenderFacts
<1>4. HistoryTypes /\ \A i \in 1 .. Total : Follows(i)
  BY <1>1 DEF IndexInv
<1>5. place \in Seq(Int) /\ Len(place) = Len(origin) /\ sizes \in Seq(Nat \ {0})
  BY <1>4 DEF HistoryTypes
<1>6. CASE \E c \in AfeCommands : SubmitStatus(c) \/ SubmitAfeCommand(c)
  <2>1. PICK c \in AfeCommands : SubmitStatus(c) \/ SubmitAfeCommand(c)
    BY <1>6
  <2>2. PICK first \in 1 .. SequenceMax :
          Start(c, first) /\ first + FrameCount(c) - 1 <= SequenceMax
    BY <1>1, <2>1, StartNumbers
  <2>3. /\ UNCHANGED <<origin, place, toRpu>> /\ pc' = "send"
        /\ request'.id = request.id + 1 /\ request'.command = c
        /\ frames' = FramesOf(c, first) /\ sizes' = Append(sizes, FrameCount(c))
    BY <2>2 DEF Start, linkVars
  <2>4. Len(frames') = FrameCount(c) /\ FrameCount(c) \in Nat \ {0}
    BY <2>2, <2>3, FramesOfNumbers, CommandFacts DEF RequestCommands
  <2>5. /\ sizes' \in Seq(Nat \ {0}) /\ Len(sizes') = request.id + 1
        /\ \A r \in 1 .. request.id : sizes'[r] = sizes[r]
        /\ sizes'[request.id + 1] = FrameCount(c)
    BY <1>3, <1>4, <2>3, <2>4 DEF HistoryTypes
  <2>6. HistoryTypes'
    BY <1>5, <2>3, <2>5 DEF HistoryTypes
  <2>7. Total' = Total /\ \A i \in 1 .. Total : Sender(i)' = Sender(i) /\ Index(i)' = Index(i)
    BY <2>3 DEF Total, Sender, Index
  <2>8. \A i \in 1 .. Total' : Follows(i)'
    <3>1. \A r \in 1 .. request.id : sizes'[r] = sizes[r]
      BY <2>5
    <3>2. \A i \in 1 .. Total : Sender(i)' = Sender(i) /\ Index(i)' = Index(i)
      BY <2>7
    <3>3. \A i \in 1 .. Total : Follows(i)'
      BY <1>1, <1>4, <3>1, <3>2, KeepFollows, ZenonT(30)
    <3>4. QED
      BY <2>7, <3>3
  <2>9. SentOfRequest' = 0
    BY <2>3, <2>4 DEF SentOfRequest
  <2>10. QED
    BY <2>6, <2>8, <2>9 DEF IndexInv
<1>7. CASE SendFrame
  <2>1. /\ pc = "send" /\ pc' = "wait" /\ UNCHANGED <<origin, place, sizes, frames, request>>
        /\ toRpu' = Append(toRpu, NextMessage)
    BY <1>7 DEF SendFrame
  <2> DEFINE here == Total + 1
             size == FrameCount(request.command)
             index == size - Len(frames) + 1
  <2>2. /\ Len(toRpu') = Len(toRpu) + 1
        /\ \A j \in 1 .. Len(toRpu) : toRpu'[j] = toRpu[j]
        /\ toRpu'[Len(toRpu) + 1].request = request.id
        /\ toRpu'[Len(toRpu) + 1].index = index
    BY <1>2, <2>1 DEF LinkTypes, NextMessage
  <2>3. Total' = here
    BY <1>3, <2>1, <2>2 DEF Total
  <2>4. \A i \in 1 .. Total : Sender(i)' = Sender(i) /\ Index(i)' = Index(i)
    BY <1>3, <2>1, <2>2 DEF Total, Sender, Index
  <2>5. ASSUME NEW k \in Nat, k = here PROVE Sender(k)' = request.id /\ Index(k)' = index
    <3>1. ~(k <= Len(origin)) /\ k - Len(origin) = Len(toRpu) + 1
      BY <1>3, <2>5 DEF Total
    <3>2. /\ Sender(k)' = toRpu'[k - Len(origin)].request
          /\ Index(k)' = toRpu'[k - Len(origin)].index
      BY <2>1, <3>1 DEF Sender, Index
    <3>3. QED
      BY <2>2, <3>1, <3>2
  <2>6. PICK n \in 0 .. size : LastAre(n) /\ n = SentOfRequest
    BY <1>1, <2>1 DEF SenderInv
  <2>7. n = index - 1 /\ SentOfRequest' = index /\ Len(frames) > 0
    BY <1>3, <2>1, <2>6 DEF SentOfRequest
  <2>8. request.id > 0 /\ request.id \in 1 .. request.id /\ sizes'[request.id] = size
    BY <1>1, <1>3, <1>4, <2>1 DEF SenderInv, HistoryTypes
  <2>9. index \in 1 .. size
    BY <1>3, <2>6, <2>7
  <2>10. n <= Total /\ \A i \in 1 .. Total : Sender(i) = request.id <=> i > Total - n
    BY <2>6 DEF LastAre
  <2>11. ASSUME NEW k \in Nat, k = here PROVE Follows(k)'
    <3>1. Sender(k)' = request.id /\ Index(k)' = index
      BY <2>5, <2>11
    <3>2. k - 1 = Total
      BY <1>3, <2>11
    <3>3. CASE n = 0
      <4>1. index = 1 /\ (k > 1 => Total \in 1 .. Total /\ ~(Total > Total - n))
        BY <1>3, <2>7, <2>9, <2>11, <3>3
      <4>2. k > 1 => Sender(k - 1)' # request.id
        BY <2>4, <2>10, <3>2, <4>1
      <4>3. QED
        BY <2>8, <2>9, <3>1, <4>1, <4>2 DEF Follows
    <3>4. CASE n > 0
      <4>1. Total \in 1 .. Total /\ Total > Total - n /\ k > 1
        BY <1>3, <2>10, <2>11, <3>4
      <4>2. Sender(Total) = request.id /\ Index(Total) = n
        BY <1>1, <2>1, <2>6, <2>10, <3>4, <4>1 DEF IndexInv
      <4>3. Sender(k - 1)' = request.id /\ Index(k - 1)' = n
        BY <2>4, <3>2, <4>1, <4>2
      <4>4. Index(k)' = Index(k - 1)' + 1
        BY <2>7, <2>9, <3>1, <4>3
      <4>5. QED
        BY <2>8, <2>9, <3>1, <4>1, <4>3, <4>4 DEF Follows
    <3>5. QED
      BY <2>6, <3>3, <3>4
  <2>12. \A i \in 1 .. Total : Follows(i)'
    <3>1. \A r \in 1 .. request.id : sizes'[r] = sizes[r]
      BY <2>1
    <3>2. QED
      BY <1>1, <1>4, <2>4, <3>1, KeepFollows, ZenonT(30)
  <2>13. \A i \in 1 .. Total' : i \in 1 .. Total \/ (i \in Nat /\ i = here)
    BY <1>3, <2>3
  <2>14. HistoryTypes'
    BY <1>4, <2>1 DEF HistoryTypes
  <2>15. ASSUME NEW i \in 1 .. Total', i = Total' PROVE Index(i)' = SentOfRequest'
    BY <1>3, <2>3, <2>5, <2>7, <2>15
  <2>16. \A i \in 1 .. Total' : Follows(i)'
    BY <2>11, <2>12, <2>13
  <2>17. QED
    BY <2>14, <2>15, <2>16 DEF IndexInv
<1>8. CASE SendFails \/ TimeOut \/ ReceiveStale \/ ServerRestarts
  <2>1. pc' = "idle" /\ UNCHANGED <<origin, place, sizes, toRpu, request>>
    BY <1>8 DEF SendFails, TimeOut, ReceiveStale, Abandon, ServerRestarts, linkVars
  <2>2. Total' = Total /\ \A i \in 1 .. Total : Sender(i)' = Sender(i) /\ Index(i)' = Index(i)
    BY <2>1 DEF Total, Sender, Index
  <2>3. QED
    BY <1>1, <1>5, <2>1, <2>2, KeepIndexes
<1>9. CASE ReceiveReply
  <2>1. /\ pc = "wait" /\ UNCHANGED <<origin, place, sizes, toRpu>> /\ frames' = Tail(frames)
        /\ frames # <<>>
        /\ Len(frames) > 1 => pc' = "send"
        /\ ~(Len(frames) > 1) => pc' = "idle"
    BY <1>2, <1>9 DEF ReceiveReply, FramesNumbered
  <2>2. request'.id = request.id /\ request'.command = request.command
    BY <1>2, <1>9 DEF ReceiveReply, LinkTypes
  <2>3. Total' = Total /\ \A i \in 1 .. Total : Sender(i)' = Sender(i) /\ Index(i)' = Index(i)
    BY <2>1 DEF Total, Sender, Index
  <2>4. Len(frames') = Len(frames) - 1
    BY <1>2, <2>1, TailFacts DEF LinkTypes
  <2>5. pc' # "idle" => pc # "idle" /\ SentOfRequest' = SentOfRequest
    BY <1>3, <2>1, <2>2, <2>4 DEF SentOfRequest
  <2>6. QED
    BY <1>1, <1>5, <2>1, <2>2, <2>3, <2>5, KeepIndexes
<1>10. CASE RpuHandles
  <2>1. /\ UNCHANGED <<pc, frames, request, sizes>> /\ toRpu # <<>> /\ toRpu' = Tail(toRpu)
        /\ origin' = Append(origin, Head(toRpu).request)
        /\ place' = Append(place, Head(toRpu).index)
    BY <1>10 DEF RpuHandles, hostVars
  <2>2. Total' = Total /\ \A i \in 1 .. Total : Sender(i)' = Sender(i)
    BY <1>2, <2>1, HandledSenders
  <2>3. /\ place' \in Seq(Int) /\ Len(place') = Len(origin')
        /\ \A i \in 1 .. Total : Index(i)' = Index(i)
    BY <1>2, <1>4, <2>1, HandledIndexes
  <2>4. SentOfRequest' = SentOfRequest
    BY <2>1 DEF SentOfRequest
  <2>5. QED
    BY <1>1, <2>1, <2>2, <2>3, <2>4, KeepIndexes
<1>11. CASE RpuInterlockChanges \/ UNCHANGED vars
  <2>1. UNCHANGED <<origin, place, sizes, toRpu, request, pc, frames>>
    BY <1>11 DEF RpuInterlockChanges, vars, hostVars, linkVars
  <2>2. Total' = Total /\ \A i \in 1 .. Total : Sender(i)' = Sender(i) /\ Index(i)' = Index(i)
    BY <2>1 DEF Total, Sender, Index
  <2>3. SentOfRequest' = SentOfRequest
    BY <2>1 DEF SentOfRequest
  <2>4. QED
    BY <1>1, <1>5, <2>1, <2>2, <2>3, KeepIndexes
<1>12. QED
  BY <1>1, <1>6, <1>7, <1>8, <1>9, <1>10, <1>11 DEF Next, HostStep

-------------------------------------------------------------------------------
(***************************************************************************)
(* What a success means                                                    *)
(***************************************************************************)
\* The reply the host takes for its last frame is the only thing on the link, and every frame
\* of its command, and none of another since, has been run.
LEMMA LastReplyMeansComplete ==
    ASSUME NumberInv, InOrder, SenderInv, IndexInv, clean, ReceiveReply, ~(Len(frames) > 1)
    PROVE  /\ toRpu = <<>> /\ Len(fromRpu) = 1
           /\ Len(origin) >= FrameCount(request.command)
           /\ \A i \in Len(origin) - FrameCount(request.command) + 1 .. Len(origin) :
                 origin[i] = request.id
           /\ place[Len(origin)] = sizes[request.id]
<1>1. /\ LinkTypes /\ pc = "wait" /\ fromRpu # <<>> /\ frames # <<>>
      /\ Head(fromRpu).sequence = Head(frames).sequence
  BY DEF NumberInv, FramesNumbered, ReceiveReply, ReplyMatches
<1>2. Head(fromRpu) = fromRpu[1] /\ Head(frames) = frames[1]
  BY <1>1, TailFacts DEF LinkTypes
<1>3. toRpu = <<>> /\ Len(fromRpu) = 1
  BY <1>1, <1>2, NothingBehind
<1>4. /\ Len(origin) \in Nat /\ FrameCount(request.command) \in Nat
      /\ FrameCount(request.command) > 0 /\ Len(frames) = 1
  <2>1. /\ Len(origin) \in Nat /\ FrameCount(request.command) \in Nat
        /\ FrameCount(request.command) > 0 /\ Len(frames) \in Nat
        /\ pc = "idle" <=> Len(frames) = 0
    BY SenderFacts
  <2>2. Len(frames) # 0
    BY <1>1, <2>1
  <2>3. \A n \in Nat : n # 0 /\ ~(n > 1) => n = 1
    OBVIOUS
  <2>4. Len(frames) = 1
    BY <2>1, <2>2, <2>3, Zenon
  <2>5. QED
    BY <2>1, <2>4
<1>5. Total = Len(origin) /\ \A i \in 1 .. Total : Sender(i) = origin[i]
  BY <1>3, <1>4 DEF Total, Sender
<1>6. PICK n \in 0 .. FrameCount(request.command) : LastAre(n) /\ n = SentOfRequest
  BY <1>1 DEF SenderInv
<1>7. n = FrameCount(request.command)
  BY <1>1, <1>4, <1>6 DEF SentOfRequest
<1>8. /\ Len(origin) >= n
      /\ \A i \in 1 .. Len(origin) : i > Len(origin) - n => origin[i] = request.id
  BY <1>4, <1>5, <1>6 DEF LastAre
<1>9. \A i \in Len(origin) - n + 1 .. Len(origin) : i \in 1 .. Len(origin) /\ i > Len(origin) - n
  BY <1>4, <1>7, <1>8
<1>10. place[Len(origin)] = sizes[request.id]
  <2>1. Len(origin) \in 1 .. Total /\ Len(origin) = Total
    BY <1>4, <1>5, <1>7, <1>8
  <2>2. Index(Len(origin)) = FrameCount(request.command)
    BY <1>1, <1>4, <1>6, <1>7, <2>1 DEF IndexInv
  <2>3. request.id > 0 /\ sizes[request.id] = FrameCount(request.command)
    BY <1>1 DEF SenderInv, IndexInv, HistoryTypes
  <2>4. QED
    BY <1>4, <2>2, <2>3 DEF Index
<1>11. QED
  BY <1>3, <1>7, <1>8, <1>9, <1>10

LEMMA StepNewest == NumberInv /\ NewestReply /\ [Next]_vars => NewestReply'
<1>1. SUFFICES ASSUME NumberInv, NewestReply, [Next]_vars PROVE NewestReply'
  OBVIOUS
<1>2. fromRpu \in Seq(Replies)
  BY <1>1 DEF NumberInv, LinkTypes
<1>3. CASE UNCHANGED <<fromRpu, reply>>
  BY <1>1, <1>3 DEF NewestReply
<1>4. CASE fromRpu # <<>> /\ fromRpu' = Tail(fromRpu) /\ UNCHANGED reply
  <2>1. /\ Len(fromRpu) \in Nat /\ Len(fromRpu') = Len(fromRpu) - 1
        /\ \A i \in 1 .. Len(fromRpu) - 1 : fromRpu'[i] = fromRpu[i + 1]
        /\ fromRpu' = <<>> <=> Len(fromRpu) = 1
        /\ Len(fromRpu) > 0
    BY <1>2, <1>4, TailFacts
  <2>2. SUFFICES ASSUME fromRpu' # <<>> PROVE fromRpu'[Len(fromRpu')] = reply
    BY <1>4 DEF NewestReply
  <2>3. /\ Len(fromRpu) - 1 \in 1 .. Len(fromRpu) - 1 /\ Len(fromRpu') = Len(fromRpu) - 1
        /\ (Len(fromRpu) - 1) + 1 = Len(fromRpu)
    BY <2>1, <2>2
  <2>4. fromRpu'[Len(fromRpu) - 1] = fromRpu[Len(fromRpu)]
    BY <2>1, <2>3
  <2>5. QED
    BY <1>1, <1>4, <2>3, <2>4 DEF NewestReply
<1>5. CASE RpuHandles
  <2>1. fromRpu' = Append(fromRpu, reply')
    BY <1>5 DEF RpuHandles
  <2>2. fromRpu'[Len(fromRpu')] = reply'
    BY <1>2, <2>1
  <2>3. QED
    BY <2>2 DEF NewestReply
<1>6. CASE fromRpu' = <<>>
  BY <1>6 DEF NewestReply
<1>7. \/ UNCHANGED <<fromRpu, reply>>
      \/ fromRpu # <<>> /\ fromRpu' = Tail(fromRpu) /\ UNCHANGED reply
      \/ RpuHandles
      \/ fromRpu' = <<>>
  BY <1>1 DEF Next, HostStep, SubmitStatus, SubmitAfeCommand, Start, SendFrame, SendFails, TimeOut,
         Abandon, ReceiveStale, ReceiveReply, RpuInterlockChanges, SetInterlock,
         ServerRestarts, rpuVars, hostVars, linkVars, vars
<1>8. QED
  BY <1>3, <1>4, <1>5, <1>6, <1>7

SuccessInv == SuccessIsCurrent /\ (pc # "idle" => outcome = "none")

LinkInv == NumberInv /\ InOrder /\ SenderInv /\ IndexInv /\ NewestReply /\ SuccessInv

LEMMA InitLink == Init => LinkInv
<1>1. SUFFICES ASSUME Init PROVE LinkInv
  OBVIOUS
<1>2. NewestReply /\ SuccessInv
  BY <1>1 DEF Init, NewestReply, SuccessInv, SuccessIsCurrent
<1>3. QED
  BY <1>1, <1>2, InitNumbers, InitInOrder, InitSenders, InitIndexes DEF LinkInv

LEMMA StepSuccess == LinkInv /\ [Next]_vars => SuccessInv'
<1>1. SUFFICES ASSUME LinkInv, [Next]_vars PROVE SuccessInv'
  OBVIOUS
<1>2. NumberInv /\ InOrder /\ SenderInv /\ IndexInv /\ NewestReply /\ SuccessInv
  BY <1>1 DEF LinkInv
<1>4. CASE \E c \in AfeCommands : SubmitStatus(c) \/ SubmitAfeCommand(c)
  BY <1>4 DEF SubmitStatus, SubmitAfeCommand, Start, SuccessInv, SuccessIsCurrent
<1>5. CASE SendFrame
  BY <1>2, <1>5 DEF SendFrame, SuccessInv, SuccessIsCurrent
<1>6. CASE SendFails \/ TimeOut \/ ReceiveStale \/ ServerRestarts
  BY <1>6 DEF SendFails, TimeOut, ReceiveStale, Abandon, ServerRestarts, SuccessInv, SuccessIsCurrent
<1>7. CASE ReceiveReply
  <2>1. pc = "wait" /\ outcome = "none" /\ UNCHANGED <<toRpu, origin, clean, heartbeat, reply>>
    BY <1>2, <1>7 DEF ReceiveReply, SuccessInv, rpuVars
  <2>2. request'.id = request.id /\ request'.command = request.command
    BY <1>2, <1>7 DEF ReceiveReply, NumberInv, LinkTypes
  <2>3. CASE Len(frames) > 1
    BY <1>7, <2>1, <2>3 DEF ReceiveReply, SuccessInv, SuccessIsCurrent
  <2>4. CASE ~(Len(frames) > 1)
    <3>1. pc' = "idle" /\ outcome' = Outcome(request.command.kind, Head(fromRpu).status)
          /\ fromRpu' = Tail(fromRpu) /\ fromRpu # <<>>
      BY <1>7, <2>4 DEF ReceiveReply
    <3>2. SUFFICES ASSUME clean, outcome' = "success" PROVE SuccessIsCurrent'
      BY <2>1, <3>1 DEF SuccessInv, SuccessIsCurrent
    <3>3. /\ toRpu = <<>> /\ Len(fromRpu) = 1
          /\ Len(origin) >= FrameCount(request.command)
          /\ \A i \in Len(origin) - FrameCount(request.command) + 1 .. Len(origin) :
                origin[i] = request.id
      BY <1>2, <1>7, <2>4, <3>2, LastReplyMeansComplete
    <3>4. fromRpu' = <<>> /\ Head(fromRpu) = fromRpu[1]
      BY <1>2, <3>1, <3>3, TailFacts DEF NumberInv, LinkTypes
    <3>5. Head(fromRpu) = reply
      BY <1>2, <3>1, <3>3, <3>4 DEF NewestReply
    <3>6. request.command.kind = "Status" \/ reply.status = "Applied"
      BY <3>1, <3>2, <3>5 DEF Outcome
    <3>7. origin # <<>> /\ origin[heartbeat] = request.id
      <4>1. /\ Len(origin) \in Nat /\ FrameCount(request.command) \in Nat
            /\ FrameCount(request.command) > 0 /\ heartbeat = Len(origin)
        BY <1>2, SenderFacts DEF NumberInv, LinkTypes
      <4>2. Len(origin) \in Len(origin) - FrameCount(request.command) + 1 .. Len(origin)
            /\ Len(origin) # 0
        BY <3>3, <4>1
      <4>3. QED
        BY <3>3, <4>1, <4>2
    <3>8. QED
      BY <2>1, <2>2, <3>3, <3>4, <3>6, <3>7 DEF SuccessIsCurrent
  <2>5. QED
    BY <2>3, <2>4
<1>8. CASE RpuHandles
  <2>1. toRpu # <<>> /\ UNCHANGED <<pc, outcome, clean>>
    BY <1>8 DEF RpuHandles, hostVars
  <2>2. QED
    BY <1>2, <2>1 DEF SuccessInv, SuccessIsCurrent
<1>9. CASE RpuInterlockChanges \/ UNCHANGED vars
  <2>1. UNCHANGED <<pc, outcome, clean, toRpu, fromRpu, origin, heartbeat, request, reply>>
    BY <1>9 DEF RpuInterlockChanges, SetInterlock, vars, rpuVars, hostVars, linkVars
  <2>2. QED
    BY <1>2, <2>1 DEF SuccessInv, SuccessIsCurrent
<1>10. QED
  BY <1>1, <1>4, <1>5, <1>6, <1>7, <1>8, <1>9 DEF Next, HostStep

LEMMA StepLink == LinkInv /\ [Next]_vars => LinkInv'
BY StepNumbers, StepInOrder, StepSenders, StepIndexes, StepNewest, StepSuccess DEF LinkInv

LEMMA LinkInvariant == Spec => []LinkInv
BY InitLink, StepLink, PTL DEF Spec

\* A success is told for the newest frame the RPU has run, with nothing left on the link.
THEOREM Current == Spec => []SuccessIsCurrent
<1>1. LinkInv => SuccessIsCurrent
  BY DEF LinkInv, SuccessInv
<1>2. QED
  BY <1>1, LinkInvariant, PTL

\* Once the link has fallen behind the host it stays behind, until the server restarts.
THEOREM FallenBehind == Spec => BacklogStays
<1>1. ASSUME LinkInv, Next, Backlog > 0
      PROVE  Backlog' > 0 \/ ServerRestarts
  <2>1. LinkTypes
    BY <1>1 DEF LinkInv, NumberInv
  <2>2. Len(toRpu) \in Nat /\ Len(fromRpu) \in Nat
    BY <2>1 DEF LinkTypes
  <2>3. CASE \E c \in AfeCommands : SubmitStatus(c) \/ SubmitAfeCommand(c)
    <3>1. pc = "idle" /\ pc' = "send" /\ UNCHANGED <<toRpu, fromRpu>>
      BY <2>3 DEF SubmitStatus, SubmitAfeCommand, Start, linkVars
    <3>2. QED
      BY <1>1, <3>1 DEF Backlog
  <2>4. CASE SendFrame
    <3>1. pc = "send" /\ pc' = "wait" /\ UNCHANGED fromRpu
          /\ toRpu' = Append(toRpu, NextMessage)
      BY <2>4 DEF SendFrame
    <3>2. Len(toRpu') = Len(toRpu) + 1
      BY <2>1, <3>1 DEF LinkTypes
    <3>3. QED
      BY <1>1, <2>2, <3>1, <3>2 DEF Backlog
  <2>5. CASE SendFails \/ TimeOut
    <3>1. pc' = "idle" /\ UNCHANGED <<toRpu, fromRpu>>
      BY <2>5 DEF SendFails, TimeOut, Abandon, linkVars
    <3>2. QED
      BY <1>1, <2>2, <3>1 DEF Backlog
  <2>6. CASE ReceiveStale \/ ReceiveReply
    <3>1. pc = "wait" /\ pc' # "wait" /\ UNCHANGED toRpu /\ fromRpu # <<>> /\ fromRpu' = Tail(fromRpu)
      BY <2>6 DEF ReceiveStale, Abandon, ReceiveReply
    <3>2. Len(fromRpu') = Len(fromRpu) - 1
      BY <2>1, <3>1, TailFacts DEF LinkTypes
    <3>3. QED
      BY <1>1, <2>2, <3>1, <3>2 DEF Backlog
  <2>7. CASE RpuHandles
    <3>1. UNCHANGED pc /\ toRpu # <<>> /\ toRpu' = Tail(toRpu) /\ fromRpu' = Append(fromRpu, reply')
      BY <2>7 DEF RpuHandles, hostVars
    <3>2. Len(toRpu') = Len(toRpu) - 1
      BY <2>1, <3>1, TailFacts DEF LinkTypes
    <3>3. Len(fromRpu') = Len(fromRpu) + 1
      BY <2>1, <3>1 DEF LinkTypes
    <3>4. QED
      BY <1>1, <2>2, <3>1, <3>2, <3>3 DEF Backlog
  <2>8. CASE RpuInterlockChanges
    BY <1>1, <2>8 DEF RpuInterlockChanges, hostVars, linkVars, Backlog
  <2>9. QED
    BY <1>1, <2>3, <2>4, <2>5, <2>6, <2>7, <2>8 DEF Next, HostStep
<1>2. LinkInv /\ [Next]_vars => [Backlog > 0 => Backlog' > 0 \/ ServerRestarts]_vars
  BY <1>1
<1>3. QED
  BY <1>2, LinkInvariant, PTL DEF Spec, BacklogStays

-------------------------------------------------------------------------------
(***************************************************************************)
(* The two specifications the link implements                              *)
(***************************************************************************)
\* The runtime sees nothing but frames it knows how to take, one at a time.
THEOREM DrivesRuntime == Spec => RuntimeSpec
<1>1. Init => RuntimeInit
  BY DEF Init
<1>2. ASSUME LinkInv, [Next]_vars PROVE [RuntimeNext]_rpuVars
  <2>1. LinkTypes
    BY <1>2 DEF LinkInv, NumberInv
  <2>2. CASE RpuHandles
    <3>1. toRpu \in Seq([frame : HostFrames, request : Nat, index : Int]) /\ toRpu # <<>>
      BY <2>1, <2>2 DEF LinkTypes, RpuHandles
    <3>2. Head(toRpu) \in [frame : HostFrames, request : Nat, index : Int]
      BY <3>1, TailFacts
    <3>3. Head(toRpu).frame \in Frames
      BY <3>2 DEF HostFrames
    <3>4. QED
      BY <2>2, <3>3 DEF RpuHandles, RuntimeNext
  <2>3. CASE RpuInterlockChanges
    BY <2>3 DEF RpuInterlockChanges, RuntimeNext
  <2>4. CASE UNCHANGED rpuVars
    BY <2>4 DEF rpuVars
  <2>5. UNCHANGED rpuVars \/ RpuHandles \/ RpuInterlockChanges
    BY <1>2 DEF Next, HostStep, SubmitStatus, SubmitAfeCommand, Start, SendFrame, SendFails, TimeOut,
           ReceiveStale, ReceiveReply, ServerRestarts, vars
  <2>6. QED
    BY <2>2, <2>3, <2>4, <2>5
<1>3. QED
  BY <1>1, <1>2, LinkInvariant, PTL DEF Spec, RuntimeSpec

RunBy(o, p) == [s \in DOMAIN o |-> [request |-> o[s], index |-> p[s]]]

\* What the abstract RPU has run grows by the frame the real one handles.
LEMMA OneMoreRun ==
    ASSUME NEW o \in Seq(Nat), NEW p \in Seq(Int), Len(p) = Len(o), NEW x \in Nat, NEW y \in Int
    PROVE  RunBy(Append(o, x), Append(p, y)) = Append(RunBy(o, p), [request |-> x, index |-> y])
<1> DEFINE R == [request : Nat, index : Int]
           F == [s \in DOMAIN o |-> [request |-> o[s], index |-> p[s]]]
           G == [s \in DOMAIN Append(o, x) |->
                    [request |-> Append(o, x)[s], index |-> Append(p, y)[s]]]
           z == [request |-> x, index |-> y]
<1>1. /\ Len(o) \in Nat /\ DOMAIN o = 1 .. Len(o) /\ DOMAIN p = 1 .. Len(o)
      /\ \A s \in 1 .. Len(o) : o[s] \in Nat /\ p[s] \in Int
  OBVIOUS
<1>2. /\ DOMAIN Append(o, x) = 1 .. Len(o) + 1
      /\ \A s \in 1 .. Len(o) : Append(o, x)[s] = o[s] /\ Append(p, y)[s] = p[s]
      /\ Append(o, x)[Len(o) + 1] = x /\ Append(p, y)[Len(o) + 1] = y
  OBVIOUS
<1>3. F \in [1 .. Len(o) -> R]
  BY <1>1
<1>4. F \in Seq(R) /\ Len(F) = Len(o) /\ z \in R
  <2> HIDE DEF F, R
  <2>1. F \in Seq(R) /\ Len(F) = Len(o)
    BY <1>1, <1>3, SeqDef
  <2>2. QED
    BY <2>1 DEF R
<1>5. /\ DOMAIN Append(F, z) = 1 .. Len(o) + 1 /\ Append(F, z) \in Seq(R)
      /\ \A s \in 1 .. Len(o) : Append(F, z)[s] = F[s]
      /\ Append(F, z)[Len(o) + 1] = z
  <2> HIDE DEF F, R, z
  <2>1. QED
    BY <1>1, <1>4
<1>6. ASSUME NEW s \in 1 .. Len(o) + 1 PROVE G[s] = Append(F, z)[s]
  <2>1. CASE s \in 1 .. Len(o)
    <3>1. F[s] = [request |-> o[s], index |-> p[s]] /\ Append(F, z)[s] = F[s]
      BY <1>1, <1>5, <2>1
    <3>2. G[s] = [request |-> o[s], index |-> p[s]]
      BY <1>2, <2>1
    <3>3. QED
      BY <3>1, <3>2
  <2>2. CASE s = Len(o) + 1
    <3>1. G[s] = z
      BY <1>2, <2>2
    <3>2. QED
      BY <1>5, <2>2, <3>1
  <2>3. QED
    BY <1>1, <2>1, <2>2
<1>7. G \in Seq(R) /\ Len(G) = Len(o) + 1
  <2>1. G \in [1 .. Len(o) + 1 -> R]
    <3>1. \A s \in 1 .. Len(o) + 1 : Append(o, x)[s] \in Nat /\ Append(p, y)[s] \in Int
      BY <1>1, <1>2
    <3>2. QED
      BY <1>2, <3>1
  <2> HIDE DEF G, R
  <2>2. PICK m \in Nat : m = Len(o) + 1
    BY <1>1
  <2>3. G \in [1 .. m -> R]
    BY <2>1, <2>2
  <2>4. G \in Seq(R) /\ Len(G) = m
    BY <2>3, SeqDef
  <2>5. QED
    BY <2>2, <2>4
<1>8. G = Append(F, z)
  <2> HIDE DEF F, G, z, R
  <2>1. Len(Append(F, z)) = Len(o) + 1
    BY <1>1, <1>4
  <2>2. QED
    BY <1>5, <1>6, <1>7, <2>1, SeqEqual
<1>9. QED
  BY <1>8 DEF RunBy

\* The frame the RPU takes next is the one that follows the last one it ran.
LEMMA RunsInOrder ==
    ASSUME LinkInv, RpuHandles
    PROVE  Abstract!Run([request |-> Head(toRpu).request, index |-> Head(toRpu).index])
<1>1. /\ NumberInv /\ LinkTypes /\ SenderInv /\ IndexInv /\ HistoryTypes
      /\ \A i \in 1 .. Total : Follows(i)
  BY DEF LinkInv, NumberInv, IndexInv
<1> DEFINE here == Len(origin) + 1
           sender == Head(toRpu).request
           index == Head(toRpu).index
           frame == [request |-> sender, index |-> index]
           ran == [s \in DOMAIN origin |-> [request |-> origin[s], index |-> place[s]]]
<1>2. /\ toRpu # <<>> /\ UNCHANGED <<pc, outcome, request, sizes, clean>>
      /\ origin' = Append(origin, sender) /\ place' = Append(place, index)
  BY DEF RpuHandles, hostVars
<1>3. /\ Len(origin) \in Nat /\ Len(toRpu) \in Nat /\ Len(toRpu) > 0
      /\ Total = Len(origin) + Len(toRpu) /\ Head(toRpu) = toRpu[1]
      /\ toRpu[1] \in [frame : HostFrames, request : Nat, index : Int]
  <2>1. /\ Len(toRpu) > 0 /\ Head(toRpu) = toRpu[1]
        /\ toRpu[1] \in [frame : HostFrames, request : Nat, index : Int]
    BY <1>1, <1>2, TailFacts DEF LinkTypes
  <2>2. QED
    BY <1>1, <2>1, SenderFacts DEF Total
<1>4. here \in 1 .. Total /\ Sender(here) = sender /\ Index(here) = index
  BY <1>3 DEF Sender, Index
<1>5. /\ origin \in Seq(Nat) /\ place \in Seq(Int) /\ Len(place) = Len(origin)
      /\ Len(sizes) = request.id
      /\ sender \in Nat /\ index \in Int
  BY <1>1, <1>3 DEF LinkTypes, HistoryTypes
<1>6. sender \in 1 .. Len(sizes) /\ index \in 1 .. sizes[sender]
  <2>1. Sender(here) \in 1 .. request.id /\ Follows(here)
    BY <1>1, <1>4 DEF SenderInv
  <2> HIDE DEF here, sender, index
  <2>2. QED
    BY <1>4, <1>5, <2>1 DEF Follows
<1>7. CASE origin = <<>>
  <2>1. here = 1 /\ Follows(1)
    BY <1>1, <1>3, <1>4, <1>7
  <2>2. index = 1 /\ ran = <<>>
    BY <1>4, <1>7, <2>1 DEF Follows
  <2>3. QED
    BY <1>2, <1>5, <1>6, <2>2, OneMoreRun DEF Abstract!Run, Abstract!asked
<1>8. CASE origin # <<>>
  <2>1. Len(origin) \in 1 .. Total /\ Len(origin) > 0 /\ here > 1 /\ here - 1 = Len(origin)
    BY <1>3, <1>5, <1>8
  <2>2. Sender(Len(origin)) = origin[Len(origin)] /\ Index(Len(origin)) = place[Len(origin)]
    BY <2>1 DEF Sender, Index
  <2>3. origin[Len(origin)] <= sender
    <3>1. Sender(Len(origin)) <= Sender(here)
      BY <1>1, <1>3, <1>4, <2>1 DEF SenderInv
    <3>2. QED
      BY <1>4, <2>2, <3>1
  <2>4. /\ origin[Len(origin)] = sender => index = place[Len(origin)] + 1
        /\ origin[Len(origin)] # sender => index = 1
    <3>1. Follows(here)
      BY <1>1, <1>4
    <3>2. QED
      BY <1>4, <2>1, <2>2, <3>1 DEF Follows
  <2>5. /\ Len(ran) = Len(origin) /\ ran # <<>>
        /\ ran[Len(origin)] = [request |-> origin[Len(origin)], index |-> place[Len(origin)]]
    <3>1. DOMAIN origin = 1 .. Len(origin) /\ Len(origin) \in DOMAIN origin
      BY <1>5, <2>1
    <3>2. DOMAIN ran = 1 .. Len(origin)
      BY <3>1
    <3>3. Len(ran) = Len(origin) /\ ran # <<>>
      BY <1>3, <2>1, <3>2
    <3>4. QED
      BY <3>1, <3>3
  <2>6. Abstract!MayFollow(ran[Len(ran)], frame)
    <3>1. /\ ran[Len(ran)].request = origin[Len(origin)] /\ ran[Len(ran)].index = place[Len(origin)]
      BY <2>5
    <3>2. origin[Len(origin)] \in Nat
      BY <1>5, <2>1
    <3>3. QED
      BY <1>5, <2>3, <2>4, <3>1, <3>2 DEF Abstract!MayFollow
  <2>7. [s \in DOMAIN origin' |-> [request |-> origin'[s], index |-> place'[s]]] = Append(ran, frame)
    <3>1. [s \in DOMAIN Append(origin, sender) |->
              [request |-> Append(origin, sender)[s], index |-> Append(place, index)[s]]]
            = Append(ran, frame)
      <4>1. RunBy(Append(origin, sender), Append(place, index))
              = Append(RunBy(origin, place), [request |-> sender, index |-> index])
        BY <1>5, OneMoreRun
      <4>2. QED
        BY <4>1 DEF RunBy
    <3>2. QED
      BY <1>2, <3>1, Zenon
  <2>8. QED
    BY <1>2, <1>5, <1>6, <2>5, <2>6, <2>7 DEF Abstract!Run, Abstract!asked
<1>9. QED
  BY <1>7, <1>8

\* Each frame of a request at most once, in order from the first on, given up or not, and no
\* success for the frames of another request.
THEOREM KeepsPromise == Spec => Promised
<1>1. Init => Abstract!Init
  BY DEF Init, Abstract!Init
<1>2. ASSUME LinkInv, [Next]_vars PROVE [Abstract!Next]_(Abstract!vars)
  <2>1. NumberInv /\ LinkTypes /\ InOrder /\ SenderInv /\ IndexInv /\ HistoryTypes
    BY <1>2 DEF LinkInv, NumberInv, IndexInv
  <2>2. outcome # "pending"
    BY <2>1 DEF LinkTypes
  <2>3. CASE \E c \in AfeCommands : SubmitStatus(c) \/ SubmitAfeCommand(c)
    <3>1. PICK c \in AfeCommands : SubmitStatus(c) \/ SubmitAfeCommand(c)
      BY <2>3
    <3>2. /\ pc = "idle" /\ pc' = "send" /\ UNCHANGED <<origin, place>>
          /\ sizes' = Append(sizes, FrameCount(c))
      BY <3>1 DEF SubmitStatus, SubmitAfeCommand, Start, linkVars
    <3>3. FrameCount(c) \in Nat /\ FrameCount(c) > 0
      BY CommandFacts DEF RequestCommands
    <3>4. clean' \in BOOLEAN
      BY <3>1, <2>1 DEF SubmitStatus, SubmitAfeCommand, Start, LinkTypes
    <3>5. /\ sizes' \in Seq(Nat \ {0}) /\ Len(sizes') = Len(sizes) + 1
          /\ \A r \in 1 .. Len(sizes) : sizes'[r] = sizes[r]
      BY <2>1, <3>2, <3>3 DEF HistoryTypes
    <3>6. Abstract!Ask
      BY <2>2, <3>2, <3>4, <3>5 DEF Abstract!Ask, Abstract!asked
    <3>7. QED
      BY <3>6 DEF Abstract!Next
  <2>4. CASE SendFrame
    BY <2>4 DEF SendFrame, Abstract!vars
  <2>5. CASE SendFails \/ TimeOut \/ ReceiveStale
    <3>1. /\ pc \in {"send", "wait"} /\ pc' = "idle" /\ outcome' = "failure"
          /\ UNCHANGED <<sizes, clean, origin, place>>
      BY <2>5 DEF SendFails, TimeOut, ReceiveStale, Abandon, linkVars
    <3>2. Abstract!Fail
      BY <3>1 DEF Abstract!Fail
    <3>3. QED
      BY <3>2 DEF Abstract!Next
  <2>6. CASE ReceiveReply
    <3>1. pc = "wait" /\ UNCHANGED <<clean, sizes, origin, place>>
      BY <2>6 DEF ReceiveReply
    <3>3. CASE Len(frames) > 1
      <4>1. pc' = "send"
        BY <2>6, <3>3 DEF ReceiveReply
      <4>2. QED
        BY <3>1, <4>1 DEF Abstract!vars
    <3>4. CASE ~(Len(frames) > 1)
      <4>1. pc' = "idle" /\ outcome' \in {"success", "failure"}
        BY <2>6, <3>4 DEF ReceiveReply, Outcome
      <4>2. clean => Abstract!Complete
        <5>1. SUFFICES ASSUME clean PROVE Abstract!Complete
          OBVIOUS
        <5>2. /\ Len(origin) \in Nat /\ FrameCount(request.command) \in Nat
              /\ FrameCount(request.command) > 0 /\ Len(origin) >= FrameCount(request.command)
              /\ \A i \in Len(origin) - FrameCount(request.command) + 1 .. Len(origin) :
                    origin[i] = request.id
              /\ place[Len(origin)] = sizes[request.id] /\ request.id = Len(sizes)
          BY <2>1, <2>6, <3>4, <5>1, LastReplyMeansComplete, SenderFacts DEF HistoryTypes
        <5>3. Len(origin) > 0 /\ origin[Len(origin)] = request.id
          BY <5>2
        <5> DEFINE run == [s \in DOMAIN origin |-> [request |-> origin[s], index |-> place[s]]]
        <5>4. DOMAIN origin = 1 .. Len(origin)
          BY <2>1 DEF LinkTypes
        <5>5. /\ Len(run) = Len(origin) /\ run # <<>>
              /\ run[Len(origin)] = [request |-> Len(sizes), index |-> sizes[Len(sizes)]]
          BY <5>2, <5>3, <5>4
        <5>6. QED
          BY <5>5 DEF Abstract!Complete, Abstract!asked
      <4>3. Abstract!Succeed \/ Abstract!Fail
        BY <3>1, <4>1, <4>2 DEF Abstract!Succeed, Abstract!Fail
      <4>4. QED
        BY <4>3 DEF Abstract!Next
    <3>5. QED
      BY <3>3, <3>4
  <2>7. CASE RpuHandles
    <3>1. Abstract!Run([request |-> Head(toRpu).request, index |-> Head(toRpu).index])
      BY <1>2, <2>7, RunsInOrder
    <3>2. /\ Head(toRpu).request \in 1 .. Abstract!asked
          /\ Head(toRpu).index \in 1 .. sizes[Head(toRpu).request]
      BY <3>1 DEF Abstract!Run
    <3>3. \E r \in 1 .. Abstract!asked : \E i \in 1 .. sizes[r] :
            Abstract!Run([request |-> r, index |-> i])
      <4>1. PICK r \in 1 .. Abstract!asked : r = Head(toRpu).request
        BY <3>2
      <4>2. PICK i \in 1 .. sizes[r] : i = Head(toRpu).index
        BY <3>2, <4>1
      <4>3. Abstract!Run([request |-> r, index |-> i])
        BY <3>1, <4>1, <4>2 DEF Abstract!Run
      <4> WITNESS r \in 1 .. Abstract!asked
      <4> WITNESS i \in 1 .. sizes[r]
      <4>4. QED
        BY <4>3
    <3>4. QED
      BY <3>3 DEF Abstract!Next
  <2>8. CASE ServerRestarts
    <3>1. Abstract!Forget
      BY <2>8 DEF ServerRestarts, Abstract!Forget
    <3>2. QED
      BY <3>1 DEF Abstract!Next
  <2>9. CASE RpuInterlockChanges \/ UNCHANGED vars
    BY <2>9 DEF RpuInterlockChanges, vars, hostVars, linkVars, Abstract!vars
  <2>10. QED
    BY <1>2, <2>3, <2>4, <2>5, <2>6, <2>7, <2>8, <2>9 DEF Next, HostStep
<1>3. QED
  BY <1>1, <1>2, LinkInvariant, PTL DEF Spec, Promised, Abstract!Spec

-------------------------------------------------------------------------------
(***************************************************************************)
(* RpuRuntime: for every number of AFE and channel slots, every bound on   *)
(* the record counts, every set of interlock inputs and fault codes, and   *)
(* frames in any order, whoever sends them. First its types.               *)
(***************************************************************************)
\* The values the handlers put in the staging area and in the hardware have their types.
LEMMA NewStagingType ==
    ASSUME NEW stamp \in Stamps, NEW n \in Counts, NEW m \in Counts
    PROVE  NewStaging(stamp, n, m) \in StagedConfigs
BY RuntimeAssumption DEF NewStaging, StagedConfigs, Stamps, NoRecord

LEMMA EmptyStagingType == EmptyStaging \in StagedConfigs /\ Idle \in ConfigStates
BY RuntimeAssumption DEF EmptyStaging, Idle, StagedConfigs, ConfigStates,
                        Stamps, NoRecord, Counts

LEMMA HwAfterType ==
    ASSUME hw \in HwImages, staged_config \in StagedConfigs, NEW done
    PROVE  HwAfter(done) \in HwImages
BY RuntimeAssumption DEF HwAfter, AfesAfterReset, HwImages, StagedConfigs, Stamps, NoRecord

\* A frame leaves every variable in its type, whichever handler takes it.
LEMMA HandleFrameType ==
    ASSUME RuntimeTypeOK, NEW f \in Frames, HandleFrame(f)
    PROVE  RuntimeTypeOK'
<1>1. heartbeat' \in Stamps
  BY RuntimeAssumption DEF RuntimeTypeOK, HandleFrame, Stamps
<1>2. conditions' \subseteq Conditions /\ fault_code' \in FaultCodes
  BY DEF RuntimeTypeOK, HandleFrame
<1>3. f.sequence \in Sequences /\ f.command \in Commands
  BY DEF Frames
<1>4. ASSUME NEW status \in {"Applied", "Rejected", "Interlocked", "Fault"}, Answers(f, status)
      PROVE  reply' \in Replies
  BY <1>3, <1>4 DEF Answers, Replies
<1>5. ASSUME NEW status \in {"Applied", "Rejected", "Interlocked", "Fault"}, Refuses(f, status)
      PROVE  RuntimeTypeOK'
  BY <1>1, <1>2, <1>4, <1>5 DEF Refuses, RuntimeTypeOK
<1>6. CASE RejectUndecodable(f)
  BY <1>1, <1>2, <1>6 DEF RejectUndecodable, RuntimeTypeOK, Replies
<1>7. CASE AnswerStatus(f) \/ RefuseInterlocked(f) \/ RunSingle(f)
           \/ RefuseBadRecord(f) \/ RejectUnstaged(f) \/ ApplyMiscounted(f)
  BY <1>5, <1>7 DEF AnswerStatus, RefuseInterlocked, RunSingle, RefuseBadRecord,
                    RejectUnstaged, ApplyMiscounted
<1>8. CASE BeginConfigureFrontend(f)
  <2>1. f.command.afe_count \in Counts /\ f.command.channel_count \in Counts
    BY <1>3, <1>8 DEF BeginConfigureFrontend, Commands
  <2>2. staged_config' \in StagedConfigs
    BY <1>1, <1>8, <2>1, NewStagingType DEF BeginConfigureFrontend
  <2>3. config_state' \in ConfigStates
    BY <1>8, <2>1, RuntimeAssumption DEF BeginConfigureFrontend, ConfigStates, Counts
  <2>4. reply' \in Replies /\ hw' \in HwImages
    BY <1>4, <1>8 DEF BeginConfigureFrontend, RuntimeTypeOK
  <2>5. QED BY <1>1, <1>2, <2>2, <2>3, <2>4 DEF RuntimeTypeOK
<1>9. CASE ConfigureAfe(f)
  <2>1. f.command.slot \in AfeSlots
    BY <1>3, <1>9 DEF ConfigureAfe, Commands
  <2>2. staged_config' \in StagedConfigs
    BY <1>1, <1>9, <2>1 DEF ConfigureAfe, RuntimeTypeOK, StagedConfigs
  <2>3. config_state' \in ConfigStates
    BY <1>9, RuntimeAssumption DEF ConfigureAfe, HasAfeSlot, RuntimeTypeOK, ConfigStates,
                                  Counts
  <2>4. reply' \in Replies /\ hw' \in HwImages
    BY <1>4, <1>9 DEF ConfigureAfe, RuntimeTypeOK
  <2>5. QED BY <1>1, <1>2, <2>2, <2>3, <2>4 DEF RuntimeTypeOK
<1>10. CASE ConfigureChannel(f)
  <2>1. f.command.slot \in ChannelSlots
    BY <1>3, <1>10 DEF ConfigureChannel, Commands
  <2>2. staged_config' \in StagedConfigs
    BY <1>1, <1>10, <2>1 DEF ConfigureChannel, RuntimeTypeOK, StagedConfigs
  <2>3. config_state' \in ConfigStates
    BY <1>10, RuntimeAssumption DEF ConfigureChannel, HasChannelSlot, RuntimeTypeOK,
                                   ConfigStates, Counts
  <2>4. reply' \in Replies /\ hw' \in HwImages
    BY <1>4, <1>10 DEF ConfigureChannel, RuntimeTypeOK
  <2>5. QED BY <1>1, <1>2, <2>2, <2>3, <2>4 DEF RuntimeTypeOK
<1>11. CASE ApplyConfigureFrontend(f)
  <2>1. hw' \in HwImages
    BY <1>11, HwAfterType DEF ApplyConfigureFrontend, RuntimeTypeOK
  <2>2. staged_config' \in StagedConfigs /\ config_state' \in ConfigStates
    BY <1>11, EmptyStagingType DEF ApplyConfigureFrontend
  <2>3. reply' \in Replies
    BY <1>4, <1>11 DEF ApplyConfigureFrontend
  <2>4. QED BY <1>1, <1>2, <2>1, <2>2, <2>3 DEF RuntimeTypeOK
<1>12. CASE ApplyTorn(f)
  <2>1. hw' \in HwImages
    BY <1>12, HwAfterType DEF ApplyTorn, RuntimeTypeOK
  <2>2. reply' \in Replies
    BY <1>4, <1>12 DEF ApplyTorn
  <2>3. QED BY <1>1, <1>2, <1>12, <2>1, <2>2 DEF ApplyTorn, RuntimeTypeOK
<1>13. QED
  BY <1>6, <1>7, <1>8, <1>9, <1>10, <1>11, <1>12 DEF HandleFrame

\* Every reachable state of the runtime has the shape TypeOK gives it.
THEOREM RuntimeTyping == RuntimeSpec => []RuntimeTypeOK
<1>1. RuntimeInit => RuntimeTypeOK
  <2>1. SUFFICES ASSUME RuntimeInit PROVE RuntimeTypeOK
    OBVIOUS
  <2>2. staged_config \in StagedConfigs /\ config_state \in ConfigStates
    BY <2>1, EmptyStagingType DEF RuntimeInit
  <2>3. QED
    BY <2>1, <2>2, RuntimeAssumption DEF RuntimeInit, RuntimeTypeOK, Stamps, HwImages,
                                        Replies, NoRecord
<1>2. RuntimeTypeOK /\ [RuntimeNext]_rpuVars => RuntimeTypeOK'
  <2>1. SUFFICES ASSUME RuntimeTypeOK, [RuntimeNext]_rpuVars PROVE RuntimeTypeOK'
    OBVIOUS
  <2>2. CASE SetInterlock
    BY <2>1, <2>2 DEF SetInterlock, RuntimeTypeOK
  <2>3. CASE \E f \in Frames : HandleFrame(f)
    BY <2>1, <2>3, HandleFrameType
  <2>4. CASE UNCHANGED rpuVars
    BY <2>1, <2>4 DEF RuntimeTypeOK, rpuVars
  <2>5. QED BY <2>1, <2>2, <2>3, <2>4 DEF RuntimeNext
<1>3. QED BY <1>1, <1>2, PTL DEF RuntimeSpec

-------------------------------------------------------------------------------
(***************************************************************************)
(* The two staging records agree                                           *)
(***************************************************************************)
\* One more record fills at most one more slot.
LEMMA OneMoreSlot ==
    ASSUME NEW S, NEW T, NEW x, IsFiniteSet(S), T \subseteq S \cup {x}
    PROVE  Cardinality(T) <= Cardinality(S) + 1
<1>1. /\ IsFiniteSet(S \cup {x})
      /\ Cardinality(S \cup {x}) = IF x \in S THEN Cardinality(S) ELSE Cardinality(S) + 1
  BY FS_AddElement
<1>2. Cardinality(S) \in Nat /\ Cardinality(S \cup {x}) \in Nat
  BY <1>1, FS_CardinalityType
<1>3. IsFiniteSet(T) /\ Cardinality(T) <= Cardinality(S \cup {x})
  BY <1>1, FS_Subset
<1>4. Cardinality(T) \in Nat
  BY <1>3, FS_CardinalityType
<1>5. QED BY <1>1, <1>2, <1>3, <1>4

LEMMA StagedFinite ==
    /\ IsFiniteSet(StagedAfes) /\ Cardinality(StagedAfes) \in Nat
    /\ IsFiniteSet(StagedChannels) /\ Cardinality(StagedChannels) \in Nat
<1>1. IsFiniteSet(AfeSlots) /\ IsFiniteSet(ChannelSlots)
  BY FS_Interval, RuntimeAssumption DEF AfeSlots, ChannelSlots
<1>2. StagedAfes \subseteq AfeSlots /\ StagedChannels \subseteq ChannelSlots
  BY DEF StagedAfes, StagedChannels
<1>3. IsFiniteSet(StagedAfes) /\ IsFiniteSet(StagedChannels)
  BY <1>1, <1>2, FS_Subset
<1>4. QED BY <1>3, FS_CardinalityType

\* An area in which no slot is filled counts no slot.
LEMMA NothingStaged ==
    /\ (\A a \in AfeSlots : staged_config.afes[a] = NoRecord) =>
           Cardinality(StagedAfes) = 0
    /\ (\A c \in ChannelSlots : staged_config.channels[c] = NoRecord) =>
           Cardinality(StagedChannels) = 0
<1>1. (\A a \in AfeSlots : staged_config.afes[a] = NoRecord) => StagedAfes = {}
  BY DEF StagedAfes
<1>2. (\A c \in ChannelSlots : staged_config.channels[c] = NoRecord) =>
        StagedChannels = {}
  BY DEF StagedChannels
<1>3. QED BY <1>1, <1>2, FS_EmptySet

LEMMA NothingStagedNext ==
    /\ (\A a \in AfeSlots : staged_config'.afes[a] = NoRecord) =>
           Cardinality(StagedAfes') = 0
    /\ (\A c \in ChannelSlots : staged_config'.channels[c] = NoRecord) =>
           Cardinality(StagedChannels') = 0
<1>1. (\A a \in AfeSlots : staged_config'.afes[a] = NoRecord) => StagedAfes' = {}
  BY DEF StagedAfes
<1>2. (\A c \in ChannelSlots : staged_config'.channels[c] = NoRecord) =>
        StagedChannels' = {}
  BY DEF StagedChannels
<1>3. QED BY <1>1, <1>2, FS_EmptySet

\* A step that leaves both staging records alone keeps their agreement.
LEMMA AgreementUnchanged ==
    ASSUME StagingAgreement, UNCHANGED <<config_state, staged_config>>
    PROVE  StagingAgreement'
BY DEF StagingAgreement, StagedAfes, StagedChannels

LEMMA HandleFrameAgreement ==
    ASSUME RuntimeTypeOK, StagingAgreement, NEW f \in Frames, HandleFrame(f)
    PROVE  StagingAgreement'
<1>1. CASE \/ RejectUndecodable(f) \/ AnswerStatus(f) \/ RefuseInterlocked(f)
           \/ RunSingle(f) \/ RefuseBadRecord(f) \/ RejectUnstaged(f)
           \/ ApplyMiscounted(f) \/ ApplyTorn(f)
  BY <1>1, AgreementUnchanged DEF RejectUndecodable, AnswerStatus, RefuseInterlocked,
                                  RunSingle, RefuseBadRecord, RejectUnstaged,
                                  ApplyMiscounted, ApplyTorn, Refuses
<1>2. CASE BeginConfigureFrontend(f)
  <2>1. f.command.afe_count \in Nat /\ f.command.channel_count \in Nat
    BY <1>2, RuntimeAssumption DEF BeginConfigureFrontend, Frames, Commands, Counts
  <2>2. Cardinality(StagedAfes') = 0 /\ Cardinality(StagedChannels') = 0
    BY <1>2, NothingStagedNext DEF BeginConfigureFrontend, NewStaging
  <2>3. QED
    BY <1>2, <2>1, <2>2
       DEF BeginConfigureFrontend, NewStaging, StagingAgreement
<1>3. CASE ConfigureAfe(f)
  <2>1. StagedAfes' \subseteq StagedAfes \cup {f.command.slot}
    BY <1>3 DEF ConfigureAfe, StagedAfes, RuntimeTypeOK, StagedConfigs
  <2>2. Cardinality(StagedAfes') <= Cardinality(StagedAfes) + 1
    BY <2>1, OneMoreSlot, StagedFinite
  <2>3. StagedChannels' = StagedChannels
    BY <1>3 DEF ConfigureAfe, StagedChannels, RuntimeTypeOK, StagedConfigs
  <2>4. IsFiniteSet(StagedAfes') /\ Cardinality(StagedAfes') \in Nat
    <3>1. StagedAfes' \subseteq AfeSlots /\ IsFiniteSet(AfeSlots)
      BY FS_Interval, RuntimeAssumption DEF StagedAfes, AfeSlots
    <3>2. IsFiniteSet(StagedAfes')
      BY <3>1, FS_Subset
    <3>3. QED BY <3>2, FS_CardinalityType
  <2>5. /\ staged_config'.active = staged_config.active
        /\ staged_config'.afe_count = staged_config.afe_count
        /\ staged_config'.channel_count = staged_config.channel_count
    BY <1>3 DEF ConfigureAfe, RuntimeTypeOK, StagedConfigs
  <2>6. config_state' = [config_state EXCEPT !.received_afes = @ + 1]
        /\ config_state.received_afes < config_state.expected_afes
    BY <1>3 DEF ConfigureAfe, HasAfeSlot
  <2>7. QED
    BY <2>2, <2>3, <2>4, <2>5, <2>6, StagedFinite, RuntimeAssumption
       DEF StagingAgreement, RuntimeTypeOK, ConfigStates, Counts
<1>4. CASE ConfigureChannel(f)
  <2>1. StagedChannels' \subseteq StagedChannels \cup {f.command.slot}
    BY <1>4 DEF ConfigureChannel, StagedChannels, RuntimeTypeOK, StagedConfigs
  <2>2. Cardinality(StagedChannels') <= Cardinality(StagedChannels) + 1
    BY <2>1, OneMoreSlot, StagedFinite
  <2>3. StagedAfes' = StagedAfes
    BY <1>4 DEF ConfigureChannel, StagedAfes, RuntimeTypeOK, StagedConfigs
  <2>4. IsFiniteSet(StagedChannels') /\ Cardinality(StagedChannels') \in Nat
    <3>1. StagedChannels' \subseteq ChannelSlots /\ IsFiniteSet(ChannelSlots)
      BY FS_Interval, RuntimeAssumption DEF StagedChannels, ChannelSlots
    <3>2. IsFiniteSet(StagedChannels')
      BY <3>1, FS_Subset
    <3>3. QED BY <3>2, FS_CardinalityType
  <2>5. /\ staged_config'.active = staged_config.active
        /\ staged_config'.afe_count = staged_config.afe_count
        /\ staged_config'.channel_count = staged_config.channel_count
    BY <1>4 DEF ConfigureChannel, RuntimeTypeOK, StagedConfigs
  <2>6. config_state' = [config_state EXCEPT !.received_channels = @ + 1]
        /\ config_state.received_channels < config_state.expected_channels
    BY <1>4 DEF ConfigureChannel, HasChannelSlot
  <2>7. QED
    BY <2>2, <2>3, <2>4, <2>5, <2>6, StagedFinite, RuntimeAssumption
       DEF StagingAgreement, RuntimeTypeOK, ConfigStates, Counts
<1>5. CASE ApplyConfigureFrontend(f)
  <2>1. Cardinality(StagedAfes') = 0 /\ Cardinality(StagedChannels') = 0
    BY <1>5, NothingStagedNext DEF ApplyConfigureFrontend, EmptyStaging
  <2>2. QED
    BY <1>5, <2>1
       DEF ApplyConfigureFrontend, EmptyStaging, Idle, StagingAgreement
<1>6. QED
  BY <1>1, <1>2, <1>3, <1>4, <1>5 DEF HandleFrame

\* ConfigState and StagedConfig, which are kept in two places, never disagree.
THEOREM RuntimeAgreement == RuntimeSpec => []StagingAgreement
<1>1. RuntimeInit => StagingAgreement
  BY NothingStaged DEF RuntimeInit, EmptyStaging, Idle, StagingAgreement
<1>2. RuntimeTypeOK /\ StagingAgreement /\ [RuntimeNext]_rpuVars => StagingAgreement'
  <2>1. SUFFICES ASSUME RuntimeTypeOK, StagingAgreement, [RuntimeNext]_rpuVars
                 PROVE  StagingAgreement'
    OBVIOUS
  <2>2. CASE SetInterlock
    BY <2>1, <2>2, AgreementUnchanged DEF SetInterlock
  <2>3. CASE \E f \in Frames : HandleFrame(f)
    BY <2>1, <2>3, HandleFrameAgreement
  <2>4. CASE UNCHANGED rpuVars
    BY <2>1, <2>4, AgreementUnchanged DEF rpuVars
  <2>5. QED BY <2>1, <2>2, <2>3, <2>4 DEF RuntimeNext
<1>3. QED BY <1>1, <1>2, RuntimeTyping, PTL DEF RuntimeSpec

-------------------------------------------------------------------------------
(***************************************************************************)
(* What is staged and what is written                                      *)
(*                                                                         *)
(* Neither StagedSinceBegin nor TornApplyIsPrefix is inductive: a Begin    *)
(* frame must find nothing stamped later than itself. StampsPast adds that *)
(* every stamp is a past heartbeat.                                        *)
(***************************************************************************)
StampsPast ==
    /\ staged_config.begun <= heartbeat
    /\ \A a \in AfeSlots : staged_config.afes[a] <= heartbeat /\ hw.afes[a] <= heartbeat

StagingInv == StampsPast /\ StagedSinceBegin /\ TornApplyIsPrefix

\* A step that changes none of the configuration, while the heartbeat may go on.
LEMMA StagingInvUnchanged ==
    ASSUME RuntimeTypeOK, StagingInv, UNCHANGED <<config_state, staged_config, hw>>,
           heartbeat' \in Nat, heartbeat <= heartbeat'
    PROVE  StagingInv'
<1>1. StampsPast'
  BY RuntimeAssumption DEF StagingInv, StampsPast, RuntimeTypeOK, StagedConfigs, HwImages,
                          Stamps
<1>2. StagedSinceBegin' /\ TornApplyIsPrefix'
  BY DEF StagingInv, StagedSinceBegin, TornApplyIsPrefix, StagedAfes,
         StagedChannels, RecordsComplete
<1>3. QED BY <1>1, <1>2 DEF StagingInv

\* A Begin frame clears the slots, and is later than everything in the hardware.
LEMMA BeginStagingInv ==
    ASSUME RuntimeTypeOK, StagingInv, NEW f \in Frames, heartbeat' = heartbeat + 1,
           BeginConfigureFrontend(f)
    PROVE  StagingInv'
<1>1. /\ heartbeat \in Nat /\ hw' = hw
      /\ staged_config'.begun = heartbeat + 1
      /\ \A a \in AfeSlots : staged_config'.afes[a] = NoRecord
      /\ \A c \in ChannelSlots : staged_config'.channels[c] = NoRecord
  BY RuntimeAssumption DEF BeginConfigureFrontend, NewStaging, RuntimeTypeOK, Stamps
<1>2. \A a \in AfeSlots : hw.afes[a] \in Nat /\ hw.afes[a] <= heartbeat
  BY RuntimeAssumption DEF StagingInv, StampsPast, RuntimeTypeOK, HwImages, Stamps
<1>3. StampsPast'
  BY <1>1, <1>2 DEF StampsPast, NoRecord
<1>4. StagedSinceBegin'
  BY <1>1 DEF StagedSinceBegin, StagedAfes, StagedChannels
<1>5. TornApplyIsPrefix'
  BY <1>1, <1>2 DEF TornApplyIsPrefix
<1>6. QED BY <1>3, <1>4, <1>5 DEF StagingInv

\* A record is stamped later than its Begin; while one is still awaited nothing of the
\* configuration is in the hardware.
LEMMA RecordStagingInv ==
    ASSUME RuntimeTypeOK, StagingInv, NEW f \in Frames, heartbeat' = heartbeat + 1,
           ConfigureAfe(f) \/ ConfigureChannel(f)
    PROVE  StagingInv'
<1>1. heartbeat \in Nat /\ hw' = hw /\ staged_config.begun \in Nat
  BY RuntimeAssumption DEF ConfigureAfe, ConfigureChannel, RuntimeTypeOK, Stamps,
                          StagedConfigs
<1>2. /\ staged_config'.begun = staged_config.begun
      /\ staged_config'.active /\ staged_config.active
  BY DEF ConfigureAfe, ConfigureChannel, RuntimeTypeOK, StagedConfigs
<1>3. \A a \in AfeSlots : staged_config'.afes[a] \in {staged_config.afes[a], heartbeat + 1}
  BY DEF ConfigureAfe, ConfigureChannel, RuntimeTypeOK, StagedConfigs
<1>4. \A c \in ChannelSlots :
         staged_config'.channels[c] \in {staged_config.channels[c], heartbeat + 1}
  BY DEF ConfigureAfe, ConfigureChannel, RuntimeTypeOK, StagedConfigs
<1>5. staged_config.begun <= heartbeat
  BY DEF StagingInv, StampsPast
<1>6. \A a \in AfeSlots : staged_config.afes[a] \in Nat /\ hw.afes[a] \in Nat
  BY RuntimeAssumption DEF RuntimeTypeOK, StagedConfigs, HwImages, Stamps
<1>7. StampsPast'
  BY <1>1, <1>2, <1>3, <1>5, <1>6 DEF StagingInv, StampsPast
<1>8. StagedSinceBegin'
  BY <1>1, <1>2, <1>3, <1>4, <1>5
     DEF StagingInv, StagedSinceBegin, StagedAfes, StagedChannels
<1>9. ~RecordsComplete
  BY RuntimeAssumption DEF ConfigureAfe, ConfigureChannel, HasAfeSlot,
                          HasChannelSlot, RecordsComplete, RuntimeTypeOK, ConfigStates,
                          Counts
<1>10. TornApplyIsPrefix'
  BY <1>1, <1>2, <1>9 DEF StagingInv, TornApplyIsPrefix
<1>11. QED BY <1>7, <1>8, <1>10 DEF StagingInv

\* An apply that succeeds leaves nothing staged.
LEMMA ApplyStagingInv ==
    ASSUME RuntimeTypeOK, StagingInv, NEW f \in Frames, heartbeat' = heartbeat + 1,
           ApplyConfigureFrontend(f)
    PROVE  StagingInv'
<1>1. /\ staged_config' = EmptyStaging /\ heartbeat \in Nat
      /\ \A a \in AfeSlots : hw'.afes[a] \in {hw.afes[a], NoRecord, staged_config.afes[a]}
  BY RuntimeAssumption DEF ApplyConfigureFrontend, HwAfter, AfesAfterReset, RuntimeTypeOK, Stamps
<1>2. \A a \in AfeSlots : /\ staged_config.afes[a] \in Nat /\ hw.afes[a] \in Nat
                          /\ staged_config.afes[a] <= heartbeat /\ hw.afes[a] <= heartbeat
  BY RuntimeAssumption DEF StagingInv, StampsPast, RuntimeTypeOK, StagedConfigs, HwImages,
                          Stamps
<1>3. StampsPast'
  BY <1>1, <1>2 DEF StampsPast, EmptyStaging, NoRecord
<1>4. StagedSinceBegin' /\ TornApplyIsPrefix'
  BY <1>1 DEF StagedSinceBegin, TornApplyIsPrefix, StagedAfes, StagedChannels,
              EmptyStaging
<1>5. QED BY <1>3, <1>4 DEF StagingInv

\* An apply that stops at one of its writes has done those before it.
LEMMA TornStagingInv ==
    ASSUME RuntimeTypeOK, StagingInv, NEW f \in Frames, heartbeat' = heartbeat + 1,
           ApplyTorn(f)
    PROVE  StagingInv'
<1>1. PICK done \in 0 .. ApplySteps : hw' = HwAfter(done)
  BY DEF ApplyTorn
<1>2. /\ UNCHANGED <<config_state, staged_config>> /\ heartbeat \in Nat
      /\ RecordsComplete /\ ChannelCount \in Nat /\ done \in Int
  BY RuntimeAssumption DEF ApplyTorn, RuntimeTypeOK, Stamps, ApplySteps
<1>3. \A a \in AfeSlots : /\ staged_config.afes[a] \in Nat /\ hw.afes[a] \in Nat
                          /\ staged_config.afes[a] <= heartbeat /\ hw.afes[a] <= heartbeat
  BY RuntimeAssumption DEF StagingInv, StampsPast, RuntimeTypeOK, StagedConfigs, HwImages,
                          Stamps
<1>4. StampsPast'
  <2>1. \A a \in AfeSlots : hw'.afes[a] \in {hw.afes[a], NoRecord, staged_config.afes[a]}
    BY <1>1 DEF HwAfter, AfesAfterReset
  <2>2. staged_config.begun \in Nat /\ staged_config.begun <= heartbeat
    BY RuntimeAssumption DEF StagingInv, StampsPast, RuntimeTypeOK, StagedConfigs, Stamps
  <2>3. QED BY <1>2, <1>3, <2>1, <2>2 DEF StampsPast, NoRecord
<1>5. StagedSinceBegin'
  BY <1>2 DEF StagingInv, StagedSinceBegin, StagedAfes, StagedChannels
<1>6. TornApplyIsPrefix'
  <2>1. SUFFICES ASSUME NEW a \in AfeSlots, staged_config.active,
                        hw'.afes[a] > staged_config.begun
                 PROVE  /\ RecordsComplete'
                        /\ hw'.vbias = staged_config.begun
                        /\ \A c \in StagedChannels : hw'.channels[c] = staged_config.channels[c]
    BY <1>2 DEF TornApplyIsPrefix, StagedChannels
  <2>2. RecordsComplete'
    BY <1>2 DEF RecordsComplete
  <2>3. CASE 1 + ChannelCount + 1 + a < done
    <3>1. 1 + ChannelCount < done /\ \A c \in ChannelSlots : 1 + c < done
      BY <1>2, <2>3 DEF AfeSlots, ChannelSlots
    <3>2. hw'.vbias = staged_config.begun
      BY <1>1, <3>1 DEF HwAfter
    <3>3. \A c \in StagedChannels : hw'.channels[c] = staged_config.channels[c]
      BY <1>1, <3>1 DEF HwAfter, StagedChannels
    <3>4. QED BY <2>2, <3>2, <3>3
  <2>4. CASE ~(1 + ChannelCount + 1 + a < done)
    <3>1. hw.afes[a] > staged_config.begun
      <4>1. hw'.afes[a] \in {hw.afes[a], NoRecord}
        BY <1>1, <2>4 DEF HwAfter, AfesAfterReset
      <4>2. staged_config.begun \in Nat
        BY RuntimeAssumption DEF RuntimeTypeOK, StagedConfigs, Stamps
      <4>3. QED
        BY <2>1, <4>1, <4>2 DEF NoRecord
    <3>2. /\ hw.vbias = staged_config.begun
          /\ \A c \in StagedChannels : hw.channels[c] = staged_config.channels[c]
      BY <2>1, <3>1 DEF StagingInv, TornApplyIsPrefix
    <3>3. QED BY <1>1, <2>2, <3>2 DEF HwAfter, StagedChannels
  <2>5. QED BY <2>3, <2>4
<1>7. QED BY <1>4, <1>5, <1>6 DEF StagingInv

LEMMA StagingInvInvariant == RuntimeSpec => []StagingInv
<1>1. RuntimeInit => StagingInv
  BY DEF RuntimeInit, StagingInv, StampsPast, StagedSinceBegin, TornApplyIsPrefix,
         EmptyStaging, StagedAfes, StagedChannels, NoRecord
<1>2. RuntimeTypeOK /\ StagingInv /\ [RuntimeNext]_rpuVars => StagingInv'
  <2>1. SUFFICES ASSUME RuntimeTypeOK, StagingInv, [RuntimeNext]_rpuVars PROVE StagingInv'
    OBVIOUS
  <2>2. heartbeat \in Nat
    BY <2>1, RuntimeAssumption DEF RuntimeTypeOK, Stamps
  <2>3. CASE SetInterlock \/ UNCHANGED rpuVars
    BY <2>1, <2>2, <2>3, StagingInvUnchanged DEF SetInterlock, rpuVars
  <2>4. CASE \E f \in Frames : HandleFrame(f)
    <3>1. PICK f \in Frames : HandleFrame(f)
      BY <2>4
    <3>2. heartbeat' = heartbeat + 1 /\ heartbeat' \in Nat
      BY <2>2, <3>1 DEF HandleFrame
    <3>3. CASE UNCHANGED <<config_state, staged_config, hw>>
      BY <2>1, <2>2, <3>2, <3>3, StagingInvUnchanged
    <3>4. CASE \/ BeginConfigureFrontend(f) \/ ConfigureAfe(f) \/ ConfigureChannel(f)
               \/ ApplyConfigureFrontend(f) \/ ApplyTorn(f)
      BY <2>1, <3>2, <3>4, BeginStagingInv, RecordStagingInv, ApplyStagingInv, TornStagingInv
    <3>5. QED
      BY <3>1, <3>3, <3>4 DEF HandleFrame, RejectUndecodable, AnswerStatus,
                              RefuseInterlocked, RunSingle, RefuseBadRecord,
                              RejectUnstaged, ApplyMiscounted, Refuses
  <2>5. QED BY <2>1, <2>3, <2>4 DEF RuntimeNext
<1>3. QED BY <1>1, <1>2, RuntimeTyping, PTL DEF RuntimeSpec

\* Nothing staged before the last accepted Begin is ever staged after it.
THEOREM OnlyStagedSinceBegin == RuntimeSpec => []StagedSinceBegin
BY StagingInvInvariant, PTL DEF StagingInv

\* A torn apply leaves a prefix of its writes, whatever frames follow it.
THEOREM TornPrefix == RuntimeSpec => []TornApplyIsPrefix
BY StagingInvInvariant, PTL DEF StagingInv

\* The hardware changes only on an Apply, and only when the records counted, the slots filled
\* and the numbers announced are the same.
THEOREM FullStage == RuntimeSpec => HardwareOnlyOnFullStage
<1> DEFINE Full ==
      /\ conditions = Conditions /\ fault_code = 0
      /\ config_state.received_afes = Cardinality(StagedAfes)
      /\ Cardinality(StagedAfes) = staged_config.afe_count
      /\ config_state.received_channels = Cardinality(StagedChannels)
      /\ Cardinality(StagedChannels) = staged_config.channel_count
      /\ \A a \in StagedAfes : staged_config.afes[a] > staged_config.begun
      /\ \A c \in StagedChannels : staged_config.channels[c] > staged_config.begun
<1>1. RuntimeTypeOK /\ StagingAgreement /\ StagedSinceBegin /\ [RuntimeNext]_rpuVars =>
          [hw' # hw => Full]_rpuVars
  <2>1. SUFFICES ASSUME StagingAgreement, StagedSinceBegin, [RuntimeNext]_rpuVars,
                        hw' # hw
                 PROVE  Full
    OBVIOUS
  <2>2. PICK f \in Frames : ApplyConfigureFrontend(f) \/ ApplyTorn(f)
    BY <2>1
       DEF RuntimeNext, rpuVars, SetInterlock, HandleFrame, RejectUndecodable,
           AnswerStatus, RefuseInterlocked, RunSingle, RefuseBadRecord,
           RejectUnstaged, ApplyMiscounted, Refuses, BeginConfigureFrontend,
           ConfigureAfe, ConfigureChannel
  <2>3. ReadyForAfe /\ RecordsComplete /\ StagedCountsValid
    BY <2>2 DEF ApplyConfigureFrontend, ApplyTorn
  <2>4. QED
    BY <2>1, <2>3
       DEF ReadyForAfe, RecordsComplete, StagedCountsValid, StagingAgreement,
           StagedSinceBegin
<1>2. QED
  BY <1>1, RuntimeTyping, RuntimeAgreement, OnlyStagedSinceBegin, PTL
     DEF RuntimeSpec, HardwareOnlyOnFullStage

-------------------------------------------------------------------------------
(***************************************************************************)
(* Types, with those of the runtime                                        *)
(***************************************************************************)
LEMMA RuntimeTyped == Spec => []RuntimeTypeOK
BY DrivesRuntime, RuntimeTyping, PTL

LEMMA RetypedSeq ==
    ASSUME NEW S, NEW R, NEW q \in Seq(S), \A i \in 1 .. Len(q) : q[i] \in R
    PROVE  q \in Seq(R)
<1>1. Len(q) \in Nat /\ DOMAIN q = 1 .. Len(q) /\ q = [i \in 1 .. Len(q) |-> q[i]]
  OBVIOUS
<1>2. q \in [1 .. Len(q) -> R]
  BY <1>1
<1>3. QED
  BY <1>1, <1>2, SeqDef

\* The bounds on what a behaviour holds: no request beyond MaxRequests, in any queue.
Bounded == request.id <= MaxRequests /\ restarts \in 0 .. MaxRestarts

LEMMA StepBounded == NumberInv /\ Bounded /\ [Next]_vars => Bounded'
<1>1. SUFFICES ASSUME NumberInv, Bounded, [Next]_vars PROVE Bounded'
  OBVIOUS
<1>2. request \in [id : Nat, command : RequestCommands, begun : BOOLEAN]
  BY <1>1 DEF NumberInv, LinkTypes
<1>3. CASE \E c \in AfeCommands : SubmitStatus(c) \/ SubmitAfeCommand(c)
  <2>1. request'.id = request.id + 1 /\ request.id < MaxRequests /\ UNCHANGED restarts
    BY <1>3 DEF SubmitStatus, SubmitAfeCommand, Start
  <2>2. QED
    BY <1>1, <1>2, <2>1, LinkAssumption DEF Bounded
<1>4. CASE ServerRestarts
  BY <1>1, <1>4, LinkAssumption DEF ServerRestarts, Bounded
<1>5. CASE ReceiveReply
  <2>1. request'.id = request.id /\ UNCHANGED restarts
    BY <1>2, <1>5 DEF ReceiveReply
  <2>2. QED
    BY <1>1, <2>1 DEF Bounded
<1>6. CASE SendFrame \/ SendFails \/ TimeOut \/ ReceiveStale \/ RpuHandles
           \/ RpuInterlockChanges \/ UNCHANGED vars
  <2>1. UNCHANGED <<request, restarts>>
    BY <1>6 DEF SendFrame, SendFails, TimeOut, ReceiveStale, Abandon, RpuHandles,
                RpuInterlockChanges, vars, hostVars
  <2>2. QED
    BY <1>1, <2>1 DEF Bounded
<1>7. QED
  BY <1>1, <1>3, <1>4, <1>5, <1>6 DEF Next, HostStep

LEMMA BoundedInvariant == Spec => []Bounded
<1>1. Init => Bounded
  BY LinkAssumption DEF Init, NoRequest, Bounded
<1>2. QED
  BY <1>1, InitNumbers, StepNumbers, StepBounded, PTL DEF Spec

\* Every variable of the host, the link and the runtime keeps its type, and no queue holds a
\* frame of a request that was never made.
THEOREM Typing == Spec => []TypeOK
<1>1. LinkInv /\ RuntimeTypeOK /\ Bounded => TypeOK
  <2>1. SUFFICES ASSUME LinkInv, RuntimeTypeOK, Bounded PROVE TypeOK
    OBVIOUS
  <2>2. LinkTypes /\ NumberInv /\ SenderInv /\ IndexInv /\ HistoryTypes
    BY <2>1 DEF LinkInv, NumberInv, IndexInv
  <2>3. request.id \in Requests /\ request.begun \in BOOLEAN
    BY <2>1, <2>2, LinkAssumption DEF LinkTypes, Bounded, Requests
  <2>4. /\ Len(origin) \in Nat /\ Len(toRpu) \in Nat
        /\ \A i \in 1 .. Total : Sender(i) \in Requests
    <3>1. /\ Len(origin) \in Nat /\ Len(toRpu) \in Nat /\ request.id \in Nat
          /\ \A i \in 1 .. Total : Sender(i) \in 1 .. request.id
      BY <2>2, SenderFacts DEF SenderInv
    <3>2. \A k \in 1 .. request.id : k \in Requests
      BY <2>1, <3>1, LinkAssumption DEF Bounded, Requests
    <3>3. QED
      BY <3>1, <3>2
  <2>5. origin \in Seq(Requests)
    <3>1. ASSUME NEW i \in 1 .. Len(origin) PROVE origin[i] \in Requests
      <4>1. i \in 1 .. Total /\ Sender(i) = origin[i]
        BY <2>4, <3>1 DEF Total, Sender
      <4>2. QED
        BY <2>4, <4>1
    <3>2. origin \in Seq(Nat)
      BY <2>2 DEF LinkTypes
    <3>3. QED
      BY <3>1, <3>2, RetypedSeq
  <2>6. toRpu \in Seq([frame : Frames, request : Requests, index : Nat])
    <3> DEFINE S == [frame : HostFrames, request : Nat, index : Int]
    <3>0. toRpu \in Seq(S) /\ DOMAIN toRpu = 1 .. Len(toRpu)
      BY <2>2 DEF LinkTypes
    <3>1. ASSUME NEW j \in 1 .. Len(toRpu)
          PROVE  toRpu[j] \in [frame : Frames, request : Requests, index : Nat]
      <4>1. toRpu[j] \in S
        <5> HIDE DEF S
        <5>1. QED
          BY <3>0, <3>1, Elements
      <4>2. PICK i \in 1 .. Total : i = Len(origin) + j
        BY <2>4, <3>1 DEF Total
      <4>3. ~(i <= Len(origin)) /\ i - Len(origin) = j
        BY <2>4, <3>1, <4>2
      <4>4. toRpu[j].request \in Requests
        BY <2>4, <4>2, <4>3 DEF Sender
      <4>5. toRpu[j].frame \in Frames
        BY <4>1 DEF HostFrames
      <4>6. toRpu[j].index \in Nat
        <5>1. Index(i) = toRpu[j].index /\ Index(i) \in 1 .. sizes[Sender(i)]
          BY <2>2, <4>2, <4>3 DEF IndexInv, Follows, Index
        <5>2. QED
          BY <4>1, <5>1
      <4>7. QED
        BY <4>1, <4>4, <4>5, <4>6
    <3> HIDE DEF S
    <3>2. QED
      BY <3>0, <3>1, RetypedSeq
  <2>7. frames \in Seq(Frames)
    <3>1. \A i \in 1 .. Len(frames) : frames[i] \in Frames
      BY <2>2 DEF LinkTypes, HostFrames
    <3>2. frames \in Seq(HostFrames)
      BY <2>2 DEF LinkTypes
    <3>3. QED
      BY <3>1, <3>2, RetypedSeq
  <2>8. next_sequence \in Sequences
    BY <2>2 DEF LinkTypes, Sequences
  <2>9. /\ sizes \in Seq(Nat) /\ Len(sizes) = request.id
        /\ place \in Seq(Nat) /\ Len(place) = Len(origin)
    <3>1. sizes \in Seq(Nat \ {0}) /\ place \in Seq(Int) /\ Len(place) = Len(origin)
      BY <2>2 DEF HistoryTypes
    <3>2. \A i \in 1 .. Len(sizes) : sizes[i] \in Nat
      BY <3>1
    <3>3. ASSUME NEW i \in 1 .. Len(place) PROVE place[i] \in Nat
      <4>1. i \in 1 .. Total /\ i <= Len(origin)
        BY <2>4, <3>1, <3>3 DEF Total
      <4>2. Index(i) = place[i] /\ Index(i) \in 1 .. sizes[Sender(i)]
        BY <2>2, <4>1 DEF IndexInv, Follows, Index
      <4>3. QED
        BY <4>2
    <3>4. QED
      BY <2>2, <3>1, <3>2, <3>3, RetypedSeq DEF HistoryTypes
  <2>10. QED
    BY <2>1, <2>2, <2>3, <2>5, <2>6, <2>7, <2>8, <2>9 DEF LinkTypes, Bounded, TypeOK
<1>2. QED
  BY <1>1, LinkInvariant, RuntimeTyped, BoundedInvariant, PTL

-------------------------------------------------------------------------------
(***************************************************************************)
(* A configuration whose Begin was applied. Three facts tie the RPU to the *)
(* host's place in the command: what is left to send is the rest of the    *)
(* command, the newest frame on the link is the one the host waits for,    *)
(* and after one matching reply host and RPU go in step. With them, what   *)
(* the RPU has staged is the request's own: as many records as it counts   *)
(* it got from this request, or too few for its Apply to be accepted.      *)
(***************************************************************************)
Size == FrameCount(request.command)

FramesOfRequest ==
    pc # "idle" =>
        /\ Len(frames) <= Size
        /\ \A i \in DOMAIN frames :
             frames[i].command = FrameCommand(request.command, Size - Len(frames) + i)

LastSent ==
    pc = "wait" /\ toRpu # <<>> =>
        /\ toRpu[Len(toRpu)].frame = frames[1]
        /\ toRpu[Len(toRpu)].request = request.id

InStep ==
    clean /\ pc # "idle" /\ Len(frames) < Size =>
        Len(toRpu) + Len(fromRpu) = IF pc = "wait" THEN 1 ELSE 0

BegunLater == pc # "idle" /\ request.begun => Len(frames) < Size

PlaceInv == FramesOfRequest /\ LastSent /\ InStep /\ BegunLater

LEMMA InitPlace == Init => PlaceInv
BY DEF Init, PlaceInv, FramesOfRequest, LastSent, InStep, BegunLater

\* Steps that leave the host where it is, or send it back to its loop.
LEMMA StayPlaces ==
    ASSUME FramesOfRequest, BegunLater,
           \/ pc' = "idle"
           \/ pc' # "idle" /\ pc # "idle" /\ UNCHANGED <<frames, request>>
    PROVE  FramesOfRequest' /\ BegunLater'
BY DEF FramesOfRequest, BegunLater, Size

LEMMA ReplyPlaces ==
    ASSUME NumberInv, FramesOfRequest, ReceiveReply
    PROVE  FramesOfRequest' /\ BegunLater'
<1>1. /\ LinkTypes /\ frames # <<>> /\ pc = "wait" /\ frames' = Tail(frames)
  BY DEF ReceiveReply, NumberInv, FramesNumbered
<1>2. request'.command = request.command /\ Size' = Size
  BY <1>1 DEF ReceiveReply, LinkTypes, Size
<1>3. /\ Len(frames) \in Nat /\ Len(frames) > 0 /\ Len(frames') = Len(frames) - 1
      /\ frames' \in Seq(HostFrames)
      /\ \A i \in 1 .. Len(frames) - 1 : frames'[i] = frames[i + 1]
  BY <1>1, TailFacts DEF LinkTypes
<1>4. Size \in Nat /\ Len(frames) <= Size
  BY <1>1, SenderFacts DEF FramesOfRequest, Size
<1>5. ASSUME NEW i \in DOMAIN frames'
      PROVE  frames'[i].command = FrameCommand(request'.command, Size' - Len(frames') + i)
  <2>1. i \in 1 .. Len(frames) - 1 /\ i + 1 \in DOMAIN frames
    BY <1>1, <1>3 DEF LinkTypes
  <2>2. frames[i + 1].command = FrameCommand(request.command, Size - Len(frames) + (i + 1))
    BY <1>1, <2>1 DEF FramesOfRequest
  <2>3. Size - Len(frames) + (i + 1) = Size - Len(frames') + i
    BY <1>3, <1>4, <2>1
  <2>4. QED
    BY <1>2, <1>3, <2>1, <2>2, <2>3
<1>6. Len(frames') < Size' /\ Len(frames') <= Size'
  BY <1>2, <1>3, <1>4
<1>7. FramesOfRequest'
  BY <1>5, <1>6, Zenon DEF FramesOfRequest
<1>8. QED
  BY <1>6, <1>7 DEF BegunLater

LEMMA StartPlaces ==
    ASSUME NumberInv, NEW c \in AfeCommands, SubmitStatus(c) \/ SubmitAfeCommand(c)
    PROVE  PlaceInv'
<1>1. PICK first \in 1 .. SequenceMax :
        Start(c, first) /\ first + FrameCount(c) - 1 <= SequenceMax
  BY StartNumbers
<1>2. /\ frames' = FramesOf(c, first) /\ Size' = FrameCount(c) /\ request'.command = c
      /\ pc' = "send" /\ ~request'.begun
  BY <1>1 DEF Start, Size
<1>3. /\ Len(frames') = FrameCount(c) /\ DOMAIN frames' = 1 .. FrameCount(c)
      /\ FrameCount(c) \in Nat
  BY <1>1, <1>2, FramesOfNumbers, CommandFacts DEF RequestCommands
<1>4. \A i \in 1 .. FrameCount(c) : frames'[i].command = FrameCommand(c, i)
  BY <1>2 DEF FramesOf
<1>5. \A i \in 1 .. FrameCount(c) : Size' - Len(frames') + i = i
  BY <1>2, <1>3
<1>6. FramesOfRequest'
  BY <1>2, <1>3, <1>4, <1>5 DEF FramesOfRequest
<1>7. QED
  BY <1>2, <1>3, <1>6 DEF PlaceInv, LastSent, InStep, BegunLater

LEMMA SendPlaces ==
    ASSUME NumberInv, PlaceInv, SendFrame
    PROVE  PlaceInv'
<1>1. /\ LinkTypes /\ frames # <<>> /\ pc = "send" /\ pc' = "wait"
      /\ UNCHANGED <<frames, request, fromRpu, clean>>
      /\ toRpu' = Append(toRpu, NextMessage)
  BY DEF SendFrame, NumberInv, FramesNumbered
<1>2. Head(frames) = frames[1]
  BY <1>1, TailFacts DEF LinkTypes
<1>3. /\ Len(toRpu) \in Nat /\ Len(fromRpu) \in Nat /\ Len(toRpu') = Len(toRpu) + 1
      /\ toRpu'[Len(toRpu) + 1].frame = frames[1]
      /\ toRpu'[Len(toRpu) + 1].request = request.id
  <2> DEFINE S == [frame : HostFrames, request : Nat, index : Int]
  <2>1. /\ toRpu \in Seq(S) /\ toRpu' \in Seq(S) /\ fromRpu \in Seq(Replies)
        /\ NextMessage.frame = frames[1] /\ NextMessage.request = request.id
    BY <1>1, <1>2, StepNumbers DEF NumberInv, LinkTypes, NextMessage, Next, HostStep
  <2> HIDE DEF S
  <2>2. QED
    BY <1>1, <2>1
<1>4. LastSent'
  BY <1>1, <1>3 DEF LastSent
<1>5. InStep'
  BY <1>1, <1>3 DEF PlaceInv, InStep, Size
<1>6. QED
  BY <1>1, <1>4, <1>5, StayPlaces DEF PlaceInv

LEMMA HandledPlaces ==
    ASSUME NumberInv, PlaceInv, RpuHandles
    PROVE  PlaceInv'
<1>1. /\ LinkTypes /\ toRpu # <<>> /\ toRpu' = Tail(toRpu) /\ fromRpu' = Append(fromRpu, reply')
      /\ UNCHANGED <<pc, frames, request, clean>>
  BY DEF RpuHandles, NumberInv, hostVars
<1>2. /\ Len(toRpu) \in Nat /\ Len(toRpu) > 0 /\ Len(toRpu') = Len(toRpu) - 1
      /\ \A j \in 1 .. Len(toRpu) - 1 : toRpu'[j] = toRpu[j + 1]
      /\ toRpu' = <<>> <=> Len(toRpu) = 1
  <2> DEFINE S == [frame : HostFrames, request : Nat, index : Int]
  <2>1. toRpu \in Seq(S)
    BY <1>1 DEF LinkTypes
  <2> HIDE DEF S
  <2>2. QED
    BY <1>1, <2>1, TailFacts
<1>3. Len(fromRpu) \in Nat /\ Len(fromRpu') = Len(fromRpu) + 1
  BY <1>1 DEF LinkTypes
<1>4. LastSent'
  <2>1. SUFFICES ASSUME pc = "wait", toRpu' # <<>>
                 PROVE  toRpu'[Len(toRpu')] = toRpu[Len(toRpu)]
    BY <1>1 DEF PlaceInv, LastSent
  <2>2. Len(toRpu) - 1 \in 1 .. Len(toRpu) - 1 /\ (Len(toRpu) - 1) + 1 = Len(toRpu)
    BY <1>2, <2>1
  <2>3. QED
    BY <1>2, <2>2
<1>5. InStep'
  BY <1>1, <1>2, <1>3 DEF PlaceInv, InStep, Size
<1>6. CASE pc = "idle"
  BY <1>1, <1>4, <1>5, <1>6, StayPlaces DEF PlaceInv
<1>7. CASE pc # "idle"
  BY <1>1, <1>4, <1>5, <1>7, StayPlaces DEF PlaceInv
<1>8. QED
  BY <1>6, <1>7

LEMMA StepPlaces == LinkInv /\ PlaceInv /\ [Next]_vars => PlaceInv'
<1>1. SUFFICES ASSUME LinkInv, PlaceInv, [Next]_vars PROVE PlaceInv'
  OBVIOUS
<1>2. NumberInv /\ InOrder /\ LinkTypes
  BY <1>1 DEF LinkInv, NumberInv
<1>3. CASE \E c \in AfeCommands : SubmitStatus(c) \/ SubmitAfeCommand(c)
  BY <1>2, <1>3, StartPlaces
<1>4. CASE SendFrame
  BY <1>1, <1>2, <1>4, SendPlaces
<1>5. CASE SendFails \/ TimeOut \/ ReceiveStale \/ ServerRestarts
  <2>1. pc' = "idle"
    BY <1>5 DEF SendFails, TimeOut, ReceiveStale, ServerRestarts, Abandon
  <2>2. QED
    BY <1>1, <2>1, StayPlaces DEF PlaceInv, LastSent, InStep
<1>6. CASE ReceiveReply
  <2>1. pc = "wait" /\ frames # <<>> /\ fromRpu # <<>> /\ fromRpu' = Tail(fromRpu)
        /\ UNCHANGED <<toRpu, clean>> /\ pc' \in {"idle", "send"} /\ ReplyMatches
    BY <1>2, <1>6 DEF ReceiveReply, NumberInv, FramesNumbered
  <2>2. FramesOfRequest' /\ BegunLater'
    BY <1>1, <1>2, <1>6, ReplyPlaces DEF PlaceInv
  <2>3. Head(fromRpu) = fromRpu[1] /\ Head(frames) = frames[1]
    BY <1>2, <2>1, TailFacts DEF LinkTypes
  <2>4. clean => toRpu = <<>> /\ Len(fromRpu) = 1
    BY <1>2, <2>1, <2>3, NothingBehind DEF ReplyMatches
  <2>5. clean => Len(toRpu') = 0 /\ Len(fromRpu') = 0
    <3>1. Len(fromRpu') = Len(fromRpu) - 1
      BY <1>2, <2>1, TailFacts DEF LinkTypes
    <3>2. QED
      BY <2>1, <2>4, <3>1
  <2>6. InStep' /\ LastSent'
    BY <2>1, <2>5 DEF InStep, LastSent
  <2>7. QED
    BY <2>2, <2>6 DEF PlaceInv
<1>7. CASE RpuHandles
  BY <1>1, <1>2, <1>7, HandledPlaces
<1>8. CASE RpuInterlockChanges \/ UNCHANGED vars
  <2>1. UNCHANGED <<pc, frames, request, toRpu, fromRpu, clean>>
    BY <1>8 DEF RpuInterlockChanges, vars, hostVars, linkVars
  <2>2. QED
    BY <1>1, <2>1 DEF PlaceInv, FramesOfRequest, LastSent, InStep, BegunLater, Size
<1>9. QED
  BY <1>1, <1>3, <1>4, <1>5, <1>6, <1>7, <1>8 DEF Next, HostStep

-------------------------------------------------------------------------------
\* A stamp of a frame the RPU ran for the last request.
Own(stamp) == stamp \in 1 .. Len(origin) /\ origin[stamp] = request.id

\* The records of c among its first p frames.
AfesRun(c, p) == IF p - 1 <= Len(c.afes) THEN p - 1 ELSE Len(c.afes)
ChannelsRun(c, p) == IF p - 1 <= Len(c.afes) THEN 0 ELSE p - 1 - Len(c.afes)

\* After p frames of the request, its Begin applied: the counts are its own, no more records
\* are counted than it sent, and if all of them are, each of its slots holds its own record.
StagedOwn(p) ==
    /\ config_state.expected_afes = Len(request.command.afes)
    /\ config_state.expected_channels = Len(request.command.channels)
    /\ Own(staged_config.begun)
    /\ config_state.received_afes <= AfesRun(request.command, p)
    /\ config_state.received_afes = AfesRun(request.command, p) =>
          \A i \in 1 .. AfesRun(request.command, p) :
             Own(staged_config.afes[request.command.afes[i]])
    /\ config_state.received_channels <= ChannelsRun(request.command, p)
    /\ config_state.received_channels = ChannelsRun(request.command, p) =>
          \A i \in 1 .. ChannelsRun(request.command, p) :
             Own(staged_config.channels[request.command.channels[i]])

ConfiguredOwn ==
    /\ Own(hw.vbias)
    /\ \A i \in DOMAIN request.command.afes : Own(hw.afes[request.command.afes[i]])
    /\ \A i \in DOMAIN request.command.channels :
         Own(hw.channels[request.command.channels[i]])

\* The frame the host waits for has been run: nothing is left in the RPU's queue behind it.
HeadRun == pc = "wait" /\ toRpu = <<>>

RunOfRequest == Size - Len(frames) + (IF HeadRun THEN 1 ELSE 0)

StagingOwn ==
    request.command.kind = "Configure" =>
        /\ HeadRun /\ Len(frames) = Size /\ reply.status = "Applied" => StagedOwn(1)
        /\ clean /\ pc # "idle" /\ request.begun =>
              IF RunOfRequest < Size THEN StagedOwn(RunOfRequest)
              ELSE reply.status = "Applied" => ConfiguredOwn
        /\ clean /\ outcome = "success" /\ request.begun => ConfiguredOwn

\* The frames of a configuration: Begin, the records in the order given, Apply.
LEMMA ConfigureFrames ==
    ASSUME NEW c \in AfeCommands, c.kind = "Configure"
    PROVE  /\ Len(c.afes) \in Nat /\ Len(c.channels) \in Nat
           /\ FrameCount(c) = 2 + Len(c.afes) + Len(c.channels)
           /\ FrameCommand(c, 1) = [op |-> "Begin", afe_count |-> Len(c.afes),
                                    channel_count |-> Len(c.channels)]
           /\ \A k \in 1 .. Len(c.afes) :
                FrameCommand(c, k + 1) = [op |-> "ConfigureAfe", slot |-> c.afes[k]]
           /\ \A k \in 1 .. Len(c.channels) :
                FrameCommand(c, Len(c.afes) + 1 + k) =
                    [op |-> "ConfigureChannel", slot |-> c.channels[k]]
           /\ FrameCommand(c, FrameCount(c)) = [op |-> "Apply"]
           /\ \A k \in 2 .. FrameCount(c) : FrameCommand(c, k).op # "Begin"
<1> DEFINE n == Len(c.afes)
           m == Len(c.channels)
           count == FrameCount(c)
<1>1. n \in Nat /\ m \in Nat /\ count = 2 + n + m
  BY CommandFacts DEF RequestCommands
<1>2. FrameCommand(c, 1) = [op |-> "Begin", afe_count |-> n, channel_count |-> m]
  BY DEF FrameCommand
<1>3. ASSUME NEW k \in 1 .. n
      PROVE  FrameCommand(c, k + 1) = [op |-> "ConfigureAfe", slot |-> c.afes[k]]
  <2>1. k + 1 # 1 /\ k + 1 \in 2 .. n + 1 /\ (k + 1) - 1 = k
    <3> HIDE DEF n
    <3> QED BY <1>1
  <2>2. QED
    BY <2>1 DEF FrameCommand
<1>4. ASSUME NEW k \in 1 .. m
      PROVE  FrameCommand(c, n + 1 + k) = [op |-> "ConfigureChannel", slot |-> c.channels[k]]
  <2>1. /\ n + 1 + k # 1 /\ n + 1 + k \notin 2 .. n + 1 /\ n + 1 + k \in n + 2 .. count - 1
        /\ (n + 1 + k) - 1 - n = k
    <3> HIDE DEF n, m, count
    <3> QED BY <1>1
  <2>2. QED
    BY <2>1 DEF FrameCommand
<1>5. FrameCommand(c, count) = [op |-> "Apply"]
  <2>1. count # 1 /\ count \notin 2 .. n + 1 /\ count \notin n + 2 .. count - 1
    <3> HIDE DEF n, m, count
    <3> QED BY <1>1
  <2>2. QED
    BY <2>1 DEF FrameCommand
<1>6. ASSUME NEW k \in 2 .. count PROVE FrameCommand(c, k).op # "Begin"
  <2>1. k # 1
    <3> HIDE DEF count
    <3> QED BY <1>1
  <2>2. QED
    BY <2>1 DEF FrameCommand
<1>7. QED
  BY <1>1, <1>2, <1>3, <1>4, <1>5, <1>6

\* What each of these frames can do to the RPU.
LEMMA BeginApplied ==
    ASSUME NEW f, f.command.op = "Begin", HandleFrame(f), reply'.status = "Applied"
    PROVE  BeginConfigureFrontend(f)
BY DEF HandleFrame, RejectUndecodable, AnswerStatus, RefuseInterlocked,
       RunSingle, RefuseBadRecord, ConfigureAfe, ConfigureChannel,
       RejectUnstaged, ApplyConfigureFrontend, ApplyTorn, ApplyMiscounted,
       Refuses, Answers

LEMMA ApplyApplied ==
    ASSUME NEW f, f.command.op = "Apply", HandleFrame(f), reply'.status = "Applied"
    PROVE  ApplyConfigureFrontend(f)
BY DEF HandleFrame, RejectUndecodable, AnswerStatus, RefuseInterlocked,
       RunSingle, RefuseBadRecord, BeginConfigureFrontend, ConfigureAfe,
       ConfigureChannel, RejectUnstaged, ApplyTorn, ApplyMiscounted,
       Refuses, Answers

LEMMA AfeRecordHandled ==
    ASSUME NEW f, f.command.op = "ConfigureAfe", HandleFrame(f)
    PROVE  ConfigureAfe(f) \/ UNCHANGED <<config_state, staged_config>>
BY DEF HandleFrame, RejectUndecodable, AnswerStatus, RefuseInterlocked,
       RunSingle, RefuseBadRecord, BeginConfigureFrontend, ConfigureChannel,
       RejectUnstaged, ApplyConfigureFrontend, ApplyTorn, ApplyMiscounted,
       Refuses

LEMMA ChannelRecordHandled ==
    ASSUME NEW f, f.command.op = "ConfigureChannel", HandleFrame(f)
    PROVE  ConfigureChannel(f) \/ UNCHANGED <<config_state, staged_config>>
BY DEF HandleFrame, RejectUndecodable, AnswerStatus, RefuseInterlocked,
       RunSingle, RefuseBadRecord, BeginConfigureFrontend, ConfigureAfe,
       RejectUnstaged, ApplyConfigureFrontend, ApplyTorn, ApplyMiscounted,
       Refuses

\* The RPU runs the frame the host waits for.
RunsHead(f) ==
    /\ HandleFrame(f)
    /\ heartbeat' = Len(origin)'
    /\ UNCHANGED request
    /\ Own(heartbeat)'
    /\ \A s : (s \in 1 .. Len(origin) /\ origin[s] = request.id) =>
                 (s \in 1 .. Len(origin') /\ origin'[s] = request.id)

LEMMA HeadFrame ==
    ASSUME NumberInv, PlaceInv, RpuHandles, pc = "wait", Len(toRpu) = 1
    PROVE  /\ \E f : /\ RunsHead(f)
                     /\ f.command = FrameCommand(request.command, Size - Len(frames) + 1)
           /\ toRpu' = <<>>
           /\ UNCHANGED <<pc, frames, request, clean, outcome>>
<1> DEFINE S == [frame : HostFrames, request : Nat, index : Int]
           f == Head(toRpu).frame
<1>1. /\ LinkTypes /\ toRpu # <<>> /\ toRpu' = Tail(toRpu)
      /\ UNCHANGED <<pc, frames, request, clean, outcome>>
      /\ origin' = Append(origin, Head(toRpu).request) /\ HandleFrame(f)
      /\ heartbeat' = heartbeat + 1
  BY DEF RpuHandles, NumberInv, hostVars, HandleFrame
<1>2. toRpu \in Seq(S)
  BY <1>1 DEF LinkTypes
<1>3. Head(toRpu) = toRpu[1] /\ toRpu' = <<>>
  <2> HIDE DEF S
  <2>1. QED
    BY <1>1, <1>2, TailFacts
<1>4. Head(toRpu).request = request.id /\ f = frames[1]
  BY <1>1, <1>3 DEF PlaceInv, LastSent
<1>5. /\ Len(origin) \in Nat /\ origin \in Seq(Nat) /\ request.id \in Nat
      /\ heartbeat = Len(origin)
  BY <1>1 DEF LinkTypes
<1>6. /\ Len(origin') = Len(origin) + 1 /\ origin'[Len(origin) + 1] = request.id
      /\ \A s \in 1 .. Len(origin) : origin'[s] = origin[s]
  BY <1>1, <1>4, <1>5
<1>7. /\ heartbeat' \in 1 .. Len(origin') /\ origin'[heartbeat'] = request'.id
      /\ heartbeat' = Len(origin')
  BY <1>1, <1>5, <1>6
<1>8. \A s : (s \in 1 .. Len(origin) /\ origin[s] = request.id) =>
                (s \in 1 .. Len(origin') /\ origin'[s] = request.id)
  BY <1>5, <1>6
<1>9. RunsHead(f)
  <2> HIDE DEF f
  <2>1. QED
    BY <1>1, <1>7, <1>8 DEF RunsHead, Own
<1>10. f.command = FrameCommand(request.command, Size - Len(frames) + 1)
  <2>1. frames # <<>> /\ 1 \in DOMAIN frames
    BY <1>1 DEF NumberInv, FramesNumbered, LinkTypes
  <2>2. frames[1].command = FrameCommand(request.command, Size - Len(frames) + 1)
    BY <2>1 DEF PlaceInv, FramesOfRequest
  <2>3. QED
    BY <1>4, <2>2
<1> HIDE DEF f
<1>11. QED
  BY <1>1, <1>3, <1>9, <1>10

LEMMA BeginRun ==
    ASSUME NEW f, RunsHead(f), request.command \in AfeCommands,
           request.command.kind = "Configure", reply'.status = "Applied",
           f.command = FrameCommand(request.command, 1)
    PROVE  StagedOwn(1)'
<1> DEFINE c == request.command
<1>1. /\ Len(c.afes) \in Nat /\ Len(c.channels) \in Nat
      /\ f.command = [op |-> "Begin", afe_count |-> Len(c.afes),
                      channel_count |-> Len(c.channels)]
  BY ConfigureFrames
<1>2. BeginConfigureFrontend(f)
  BY <1>1, BeginApplied DEF RunsHead
<1>3. /\ config_state'.expected_afes = Len(c.afes)
      /\ config_state'.expected_channels = Len(c.channels)
      /\ config_state'.received_afes = 0 /\ config_state'.received_channels = 0
      /\ staged_config'.begun = heartbeat'
  BY <1>1, <1>2 DEF BeginConfigureFrontend, NewStaging
<1>4. AfesRun(c, 1) = 0 /\ ChannelsRun(c, 1) = 0
  BY <1>1 DEF AfesRun, ChannelsRun
<1>5. UNCHANGED request /\ Own(staged_config.begun)'
  BY <1>3 DEF RunsHead, Own
<1> HIDE DEF c
<1>6. /\ config_state'.received_afes <= AfesRun(c, 1)
      /\ config_state'.received_channels <= ChannelsRun(c, 1)
      /\ \A i \in 1 .. AfesRun(c, 1) : FALSE
      /\ \A i \in 1 .. ChannelsRun(c, 1) : FALSE
  BY <1>3, <1>4
<1>7. request'.command = c
  BY <1>5 DEF c
<1>8. QED
  BY <1>3, <1>5, <1>6, <1>7 DEF StagedOwn

\* A record of the request, staged or refused.
LEMMA AfeRecordRun ==
    ASSUME RuntimeTypeOK, NEW f, RunsHead(f), request.command \in AfeCommands,
           request.command.kind = "Configure",
           NEW p \in 1 .. Len(request.command.afes), StagedOwn(p),
           f.command = FrameCommand(request.command, p + 1)
    PROVE  StagedOwn(p + 1)'
<1>0. PICK c \in AfeCommands : c = request.command /\ c.kind = "Configure"
  OBVIOUS
<1> DEFINE n == Len(c.afes)
           slot == c.afes[p]
<1>1. /\ n \in Nat /\ f.command = [op |-> "ConfigureAfe", slot |-> slot]
  BY <1>0, ConfigureFrames
<1>2. p \in 1 .. n
  BY <1>0
<1>3. /\ AfesRun(c, p) = p - 1 /\ AfesRun(c, p + 1) = p
      /\ ChannelsRun(c, p) = 0 /\ ChannelsRun(c, p + 1) = 0
  <2> HIDE DEF n
  <2>1. p \in Nat /\ p - 1 <= n /\ p <= n /\ (p + 1) - 1 = p
    BY <1>1, <1>2
  <2>2. QED
    BY <2>1 DEF AfesRun, ChannelsRun, n
<1>4. request' = request /\ \A s : Own(s) => (s \in 1 .. Len(origin') /\ origin'[s] = request.id)
  BY DEF RunsHead, Own
<1>5. /\ config_state.received_afes \in Nat /\ config_state.received_channels \in Nat
      /\ config_state.received_afes <= p - 1
      /\ config_state.received_afes = p - 1 =>
           \A i \in 1 .. p - 1 : Own(staged_config.afes[c.afes[i]])
      /\ config_state.received_channels <= 0
      /\ config_state.expected_afes = Len(c.afes)
      /\ config_state.expected_channels = Len(c.channels)
      /\ Own(staged_config.begun)
  BY <1>0, <1>3 DEF StagedOwn, RuntimeTypeOK, ConfigStates, Counts
<1>6. ConfigureAfe(f) \/ UNCHANGED <<config_state, staged_config>>
  BY <1>1, AfeRecordHandled DEF RunsHead
<1>7. /\ config_state'.expected_afes = Len(c.afes)
      /\ config_state'.expected_channels = Len(c.channels)
      /\ config_state'.received_channels = config_state.received_channels
      /\ staged_config'.begun = staged_config.begun
  BY <1>5, <1>6 DEF ConfigureAfe, RuntimeTypeOK, ConfigStates, StagedConfigs
<1>8. /\ config_state'.received_afes <= p
      /\ config_state'.received_afes = p =>
           \A i \in 1 .. p : Own(staged_config.afes[c.afes[i]])'
  <2>1. CASE UNCHANGED <<config_state, staged_config>>
    <3>1. config_state'.received_afes <= p /\ config_state'.received_afes # p
      BY <1>5, <2>1
    <3>2. QED
      BY <3>1
  <2>2. CASE ConfigureAfe(f)
    <3>1. /\ config_state'.received_afes = config_state.received_afes + 1
          /\ staged_config'.afes = [staged_config.afes EXCEPT ![slot] = heartbeat']
          /\ staged_config.afes \in [AfeSlots -> Stamps]
      BY <1>1, <2>2 DEF ConfigureAfe, RuntimeTypeOK, ConfigStates, StagedConfigs
    <3>2. c.afes \in Seq(AfeSlots)
      BY LinkAssumption DEF IsAfeCommand
    <3>3. ASSUME config_state'.received_afes = p, NEW i \in 1 .. p
          PROVE  Own(staged_config.afes[c.afes[i]])'
      <4> DEFINE a == c.afes[i]
      <4>1. a \in AfeSlots
        <5>1. i \in 1 .. Len(c.afes)
          BY <1>1, <1>2
        <5>2. QED
          BY <3>2, <5>1, ElementOfSeq
      <4>2. i \in 1 .. p - 1 => Own(staged_config.afes[a])
        BY <1>5, <3>1, <3>3
      <4>3. CASE a = slot
        <5>1. staged_config'.afes[a] = heartbeat'
          BY <3>1, <4>1, <4>3
        <5>2. Own(heartbeat)'
          BY DEF RunsHead
        <5>3. QED
          BY <1>4, <5>1, <5>2 DEF Own
      <4>4. CASE a # slot
        <5>1. i # p
          BY <4>4
        <5>2. i \in 1 .. p - 1
          BY <5>1
        <5>3. staged_config'.afes[a] = staged_config.afes[a]
          BY <3>1, <4>1, <4>4
        <5>4. QED
          BY <1>4, <4>2, <5>2, <5>3 DEF Own
      <4>5. QED
        BY <4>3, <4>4
    <3>4. config_state'.received_afes <= p
      BY <1>5, <3>1
    <3>5. QED
      BY <3>3, <3>4
  <2>3. QED
    BY <1>6, <2>1, <2>2
<1>9. Own(staged_config.begun)'
  BY <1>4, <1>5, <1>7 DEF Own
<1>10. /\ config_state'.received_channels <= 0
       /\ \A i \in 1 .. 0 : FALSE
  BY <1>5, <1>7
<1>11. request'.command = c
  BY <1>0, <1>4
<1> HIDE DEF n, slot
<1>12. QED
  BY <1>3, <1>7, <1>8, <1>9, <1>10, <1>11 DEF StagedOwn

LEMMA ChannelRecordRun ==
    ASSUME RuntimeTypeOK, NEW f, RunsHead(f), request.command \in AfeCommands,
           request.command.kind = "Configure",
           NEW k \in 1 .. Len(request.command.channels),
           NEW p, p = Len(request.command.afes) + k, StagedOwn(p),
           f.command = FrameCommand(request.command, Len(request.command.afes) + 1 + k)
    PROVE  StagedOwn(p + 1)'
<1>0. PICK c \in AfeCommands : c = request.command /\ c.kind = "Configure"
  OBVIOUS
<1> DEFINE slot == c.channels[k]
<1>1. PICK n \in Nat :
        /\ n = Len(c.afes) /\ Len(c.channels) \in Nat
        /\ f.command = [op |-> "ConfigureChannel", slot |-> slot]
  BY <1>0, ConfigureFrames
<1>2. k \in Nat /\ k > 0 /\ k \in 1 .. Len(c.channels)
  BY <1>0, <1>1
<1>3. p = n + k
  BY <1>0, <1>1
<1>4. /\ AfesRun(c, p) = n /\ AfesRun(c, p + 1) = n
      /\ ChannelsRun(c, p) = k - 1 /\ ChannelsRun(c, p + 1) = k
  <2>1. /\ ~(p <= n) /\ (p + 1) - 1 = p /\ p - n = k
        /\ (p - 1) - n = k - 1
        /\ p - 1 <= n => p - 1 = n /\ k - 1 = 0
    BY <1>2, <1>3
  <2>2. QED
    BY <1>1, <2>1 DEF AfesRun, ChannelsRun
<1>5. request' = request /\ \A s : Own(s) => (s \in 1 .. Len(origin') /\ origin'[s] = request.id)
  BY DEF RunsHead, Own
<1>6. /\ config_state.received_afes \in Nat /\ config_state.received_channels \in Nat
      /\ config_state.received_afes <= n
      /\ config_state.received_afes = n =>
           \A i \in 1 .. n : Own(staged_config.afes[c.afes[i]])
      /\ config_state.received_channels <= k - 1
      /\ config_state.received_channels = k - 1 =>
           \A i \in 1 .. k - 1 : Own(staged_config.channels[c.channels[i]])
      /\ config_state.expected_afes = Len(c.afes)
      /\ config_state.expected_channels = Len(c.channels)
      /\ Own(staged_config.begun)
  BY <1>0, <1>1, <1>4, <1>3 DEF StagedOwn, RuntimeTypeOK, ConfigStates, Counts
<1>7. ConfigureChannel(f) \/ UNCHANGED <<config_state, staged_config>>
  BY <1>1, ChannelRecordHandled DEF RunsHead
<1>8. /\ config_state'.expected_afes = Len(c.afes)
      /\ config_state'.expected_channels = Len(c.channels)
      /\ config_state'.received_afes = config_state.received_afes
      /\ staged_config'.begun = staged_config.begun
      /\ staged_config'.afes = staged_config.afes
  BY <1>6, <1>7 DEF ConfigureChannel, RuntimeTypeOK, ConfigStates, StagedConfigs
<1>9. /\ config_state'.received_channels <= k
      /\ config_state'.received_channels = k =>
           \A i \in 1 .. k : Own(staged_config.channels[c.channels[i]])'
  <2>1. CASE UNCHANGED <<config_state, staged_config>>
    <3>1. config_state'.received_channels <= k /\ config_state'.received_channels # k
      BY <1>6, <2>1
    <3>2. QED
      BY <3>1
  <2>2. CASE ConfigureChannel(f)
    <3>1. /\ config_state'.received_channels = config_state.received_channels + 1
          /\ staged_config'.channels = [staged_config.channels EXCEPT ![slot] = heartbeat']
          /\ staged_config.channels \in [ChannelSlots -> Stamps]
      BY <1>1, <2>2 DEF ConfigureChannel, RuntimeTypeOK, ConfigStates, StagedConfigs
    <3>2. c.channels \in Seq(ChannelSlots)
      BY LinkAssumption DEF IsAfeCommand
    <3>3. ASSUME config_state'.received_channels = k, NEW i \in 1 .. k
          PROVE  Own(staged_config.channels[c.channels[i]])'
      <4> DEFINE a == c.channels[i]
      <4>1. a \in ChannelSlots
        <5>1. i \in 1 .. Len(c.channels)
          BY <1>1, <1>2
        <5>2. QED
          BY <3>2, <5>1, ElementOfSeq
      <4>2. i \in 1 .. k - 1 => Own(staged_config.channels[a])
        <5>1. config_state.received_channels = k - 1
          BY <1>2, <1>6, <3>1, <3>3
        <5>2. QED
          BY <1>6, <5>1, Zenon
      <4>3. CASE a = slot
        <5>1. staged_config'.channels[a] = heartbeat'
          BY <3>1, <4>1, <4>3
        <5>2. Own(heartbeat)'
          BY DEF RunsHead
        <5>3. QED
          BY <1>5, <5>1, <5>2 DEF Own
      <4>4. CASE a # slot
        <5>1. i # k
          BY <4>4
        <5>2. i \in 1 .. k - 1
          BY <5>1
        <5>3. staged_config'.channels[a] = staged_config.channels[a]
          BY <3>1, <4>1, <4>4
        <5>4. QED
          BY <1>5, <4>2, <5>2, <5>3 DEF Own
      <4>5. QED
        BY <4>3, <4>4
    <3>4. config_state'.received_channels <= k
      BY <1>6, <3>1
    <3>5. QED
      BY <3>3, <3>4
  <2>3. QED
    BY <1>7, <2>1, <2>2
<1>10. Own(staged_config.begun)'
  BY <1>5, <1>6, <1>8 DEF Own
<1>11. /\ config_state'.received_afes <= n
       /\ config_state'.received_afes = n =>
            \A i \in 1 .. n : Own(staged_config.afes[c.afes[i]])'
  BY <1>5, <1>6, <1>8 DEF Own
<1>12. request'.command = c
  BY <1>0, <1>5
<1> HIDE DEF slot
<1>13. QED
  BY <1>4, <1>8, <1>9, <1>10, <1>11, <1>12 DEF StagedOwn

\* An Apply that is accepted finds every record of the request staged, and writes them all.
LEMMA ApplyRun ==
    ASSUME RuntimeTypeOK, NEW f, RunsHead(f), request.command \in AfeCommands,
           request.command.kind = "Configure", reply'.status = "Applied",
           StagedOwn(FrameCount(request.command) - 1),
           f.command = FrameCommand(request.command, FrameCount(request.command))
    PROVE  ConfiguredOwn'
<1> DEFINE c == request.command
           n == Len(c.afes)
           m == Len(c.channels)
<1>1. /\ n \in Nat /\ m \in Nat /\ FrameCount(c) = 2 + n + m
      /\ f.command = [op |-> "Apply"]
  BY ConfigureFrames
<1>2. AfesRun(c, FrameCount(c) - 1) = n /\ ChannelsRun(c, FrameCount(c) - 1) = m
  <2>1. PICK p \in Nat : p = FrameCount(c) - 1 /\ p - 1 = n + m
    <3> HIDE DEF n, m
    <3>1. QED
      BY <1>1
  <2>2. AfesRun(c, p) = n /\ ChannelsRun(c, p) = m
    <3>1. /\ p - 1 <= n => p - 1 = n /\ m = 0
          /\ p - 1 - n = m
      <4> HIDE DEF n, m
      <4>1. QED
        BY <1>1, <2>1
    <3>2. QED
      BY <3>1 DEF AfesRun, ChannelsRun
  <2>3. QED
    BY <2>1, <2>2
<1>3. ApplyConfigureFrontend(f)
  BY <1>1, ApplyApplied DEF RunsHead
<1>4. /\ \A i \in 1 .. n : Own(staged_config.afes[c.afes[i]])
      /\ \A i \in 1 .. m : Own(staged_config.channels[c.channels[i]])
      /\ Own(staged_config.begun)
  BY <1>2, <1>3 DEF ApplyConfigureFrontend, RecordsComplete, StagedOwn
<1>5. /\ request' = request
      /\ \A s : Own(s) => s # 0 /\ (s \in 1 .. Len(origin') /\ origin'[s] = request.id)
  BY DEF RunsHead, Own
<1>6. hw' = HwAfter(ApplySteps)
  BY <1>3 DEF ApplyConfigureFrontend
<1>7. /\ AfeCount \in Nat /\ ChannelCount \in Nat
      /\ c.afes \in Seq(AfeSlots) /\ c.channels \in Seq(ChannelSlots)
  BY LinkAssumption, RuntimeAssumption DEF IsAfeCommand
<1>8. /\ 1 + ChannelCount < ApplySteps
      /\ \A a \in AfeSlots : 1 + ChannelCount + 1 + a < ApplySteps
      /\ \A b \in ChannelSlots : 1 + b < ApplySteps
  BY <1>7 DEF ApplySteps, AfeSlots, ChannelSlots
<1>9. Own(hw.vbias)'
  BY <1>4, <1>5, <1>6, <1>8 DEF HwAfter, Own
<1>10. ASSUME NEW i \in 1 .. n PROVE Own(hw.afes[c.afes[i]])'
  <2> DEFINE a == c.afes[i]
  <2>1. a \in AfeSlots /\ Own(staged_config.afes[a])
    BY <1>4, <1>7, ElementOfSeq
  <2> HIDE DEF a
  <2>2. staged_config.afes[a] # NoRecord
    BY <1>5, <2>1 DEF NoRecord
  <2>3. hw'.afes[a] = staged_config.afes[a]
    BY <1>6, <1>8, <2>1, <2>2 DEF HwAfter
  <2>4. QED
    BY <1>5, <2>1, <2>3 DEF Own, a
<1>11. ASSUME NEW i \in 1 .. m PROVE Own(hw.channels[c.channels[i]])'
  <2> DEFINE b == c.channels[i]
  <2>1. b \in ChannelSlots /\ Own(staged_config.channels[b])
    BY <1>4, <1>7, ElementOfSeq
  <2> HIDE DEF b
  <2>2. staged_config.channels[b] # NoRecord
    BY <1>5, <2>1 DEF NoRecord
  <2>3. hw'.channels[b] = staged_config.channels[b]
    BY <1>6, <1>8, <2>1, <2>2 DEF HwAfter
  <2>4. QED
    BY <1>5, <2>1, <2>3 DEF Own, b
<1>12. DOMAIN c.afes = 1 .. n /\ DOMAIN c.channels = 1 .. m
  BY <1>7
<1>13. QED
  BY <1>5, <1>9, <1>10, <1>11, <1>12 DEF ConfiguredOwn

\* Nothing but the host's place in its command changes.
LEMMA KeepStaging ==
    ASSUME StagingOwn, UNCHANGED <<config_state, staged_config, hw, reply, origin, request>>,
           HeadRun' => HeadRun /\ UNCHANGED frames,
           pc' # "idle" => pc # "idle" /\ RunOfRequest' = RunOfRequest,
           clean' => clean, outcome' = "success" => outcome = "success"
    PROVE  StagingOwn'
<1>1. Size' = Size
  BY DEF Size
<1>2. \A p : StagedOwn(p) => StagedOwn(p)'
  BY DEF StagedOwn, Own
<1>3. ConfiguredOwn => ConfiguredOwn'
  BY DEF ConfiguredOwn, Own
<1>4. SUFFICES ASSUME request.command.kind = "Configure"
               PROVE  StagingOwn'
  BY DEF StagingOwn
<1>5. HeadRun' /\ Len(frames') = Size' /\ reply'.status = "Applied" => StagedOwn(1)'
  BY <1>1, <1>2, <1>4 DEF StagingOwn
<1>6. ASSUME clean', pc' # "idle", request'.begun
      PROVE  IF RunOfRequest' < Size' THEN StagedOwn(RunOfRequest)'
             ELSE reply'.status = "Applied" => ConfiguredOwn'
  <2>1. PICK p : p = RunOfRequest
    OBVIOUS
  <2>2. RunOfRequest' = p
    BY <1>6, <2>1
  <2>3. IF p < Size THEN StagedOwn(p) ELSE reply.status = "Applied" => ConfiguredOwn
    BY <1>4, <1>6, <2>1 DEF StagingOwn
  <2>4. IF p < Size THEN StagedOwn(p)' ELSE reply'.status = "Applied" => ConfiguredOwn'
    BY <1>2, <1>3, <2>3
  <2>5. StagedOwn(p)' => StagedOwn(RunOfRequest)'
    BY <2>2 DEF StagedOwn
  <2>6. QED
    BY <1>1, <2>2, <2>4, <2>5
<1>7. clean' /\ outcome' = "success" /\ request'.begun => ConfiguredOwn'
  BY <1>3, <1>4 DEF StagingOwn
<1>8. QED
  BY <1>5, <1>6, <1>7 DEF StagingOwn

\* The places in a command between its first frame and its last.
LEMMA PlaceCases ==
    ASSUME NEW p \in Nat, NEW n \in Nat, NEW m \in Nat, p > 0, p < 2 + n + m
    PROVE  p \in 1 .. n \/ (\E k \in 1 .. m : p = n + k) \/ p = 1 + n + m
<1>1. CASE p <= n
  BY <1>1
<1>2. CASE p > n /\ p <= n + m
  <2>1. p - n \in 1 .. m /\ p = n + (p - n)
    BY <1>2
  <2>2. QED
    BY <2>1
<1>3. CASE p > n + m
  BY <1>3
<1>4. QED
  BY <1>1, <1>2, <1>3

\* The RPU runs a frame. If the host is in the middle of a configuration that was begun, it
\* is the frame the host waits for.
LEMMA HandledStaging ==
    ASSUME LinkInv, PlaceInv, StagingOwn, RuntimeTypeOK, RpuHandles
    PROVE  StagingOwn'
<1>1. /\ NumberInv /\ LinkTypes /\ SuccessIsCurrent /\ toRpu # <<>> /\ toRpu' = Tail(toRpu)
      /\ UNCHANGED <<pc, frames, request, clean, outcome>>
  BY DEF RpuHandles, LinkInv, NumberInv, SuccessInv, hostVars
<1>2. Size' = Size /\ Size \in Nat /\ Len(frames) \in Nat
  BY <1>1, SenderFacts DEF Size
<1>3. SUFFICES ASSUME request.command.kind = "Configure" PROVE StagingOwn'
  BY <1>1 DEF StagingOwn
<1>4. PICK c \in AfeCommands : c = request.command /\ c.kind = "Configure"
  BY <1>1, <1>3 DEF LinkTypes, RequestCommands, NoRequest
<1>5. Size = FrameCount(c)
  BY <1>4 DEF Size
<1>6. Len(toRpu) \in Nat /\ Len(fromRpu) \in Nat /\ Len(toRpu) > 0
      /\ (toRpu' = <<>> => Len(toRpu) = 1)
  <2> DEFINE S == [frame : HostFrames, request : Nat, index : Int]
  <2>1. toRpu \in Seq(S) /\ Len(fromRpu) \in Nat
    BY <1>1 DEF LinkTypes
  <2> HIDE DEF S
  <2>2. QED
    BY <1>1, <2>1, TailFacts
<1>7. HeadRun' => pc = "wait" /\ Len(toRpu) = 1
  BY <1>1, <1>6 DEF HeadRun
<1>8. ASSUME HeadRun', Len(frames') = Size', reply'.status = "Applied"
      PROVE  StagedOwn(1)'
  <2>1. PICK f : /\ RunsHead(f)
                 /\ f.command = FrameCommand(request.command, Size - Len(frames) + 1)
    BY <1>1, <1>7, <1>8, HeadFrame
  <2>2. Size - Len(frames) + 1 = 1
    BY <1>1, <1>2, <1>8
  <2>3. QED
    BY <1>4, <1>8, <2>1, <2>2, BeginRun
<1>9. ASSUME clean', pc' # "idle", request'.begun
      PROVE  IF RunOfRequest' < Size' THEN StagedOwn(RunOfRequest)'
             ELSE reply'.status = "Applied" => ConfiguredOwn'
  <2>1. pc # "idle" /\ clean /\ request.begun /\ Len(frames) < Size
    BY <1>1, <1>9 DEF PlaceInv, BegunLater
  <2>2. pc = "wait" /\ Len(toRpu) = 1
    <3>1. Len(toRpu) + Len(fromRpu) = IF pc = "wait" THEN 1 ELSE 0
      BY <2>1, Zenon DEF PlaceInv, InStep
    <3>2. \A a, b \in Nat : a > 0 => (a + b # 0 /\ (a + b = 1 => a = 1))
      OBVIOUS
    <3>3. QED
      BY <1>6, <3>1, <3>2, Zenon
  <2>3. PICK p \in Nat : p = Size - Len(frames)
    BY <1>2, <2>1
  <2>4. Len(frames) > 0 /\ p > 0 /\ p < Size
    <3>1. Len(frames) # 0
      BY <1>1, <2>1, SenderFacts
    <3>2. QED
      BY <1>2, <2>1, <2>3, <3>1
  <2>5. PICK f : RunsHead(f) /\ f.command = FrameCommand(request.command, p + 1)
    BY <1>1, <2>2, <2>3, HeadFrame
  <2>6. HeadRun' /\ ~HeadRun /\ toRpu' = <<>>
    BY <1>1, <2>2, HeadFrame DEF HeadRun
  <2>7. RunOfRequest = p /\ RunOfRequest' = p + 1
    BY <1>1, <1>2, <2>3, <2>6 DEF RunOfRequest
  <2>8. StagedOwn(p)
    BY <1>3, <2>1, <2>4, <2>7 DEF StagingOwn
  <2> DEFINE n == Len(c.afes)
             m == Len(c.channels)
  <2>9. n \in Nat /\ m \in Nat /\ FrameCount(c) = 2 + n + m
    BY <1>4, ConfigureFrames
  <2>10. p \in 1 .. n \/ (\E k \in 1 .. m : p = n + k) \/ p = FrameCount(c) - 1
    <3> HIDE DEF n, m
    <3>1. p < 2 + n + m
      BY <1>5, <2>4, <2>9
    <3>2. p \in 1 .. n \/ (\E k \in 1 .. m : p = n + k) \/ p = 1 + n + m
      BY <2>4, <2>9, <3>1, PlaceCases
    <3>3. (2 + n + m) - 1 = 1 + n + m
      BY <2>9
    <3>4. QED
      BY <2>9, <3>2, <3>3
  <2>11. CASE p \in 1 .. n
    <3>1. StagedOwn(p + 1)'
      BY <1>4, <2>5, <2>8, <2>11, AfeRecordRun
    <3>2. p + 1 < Size
      <4> HIDE DEF n, m
      <4>1. QED
        BY <1>5, <2>9, <2>11
    <3>3. StagedOwn(RunOfRequest)'
      BY <2>7, <3>1 DEF StagedOwn
    <3>4. QED
      BY <1>2, <2>7, <3>2, <3>3
  <2>12. CASE \E k \in 1 .. m : p = n + k
    <3>1. PICK k \in 1 .. m : p = n + k
      BY <2>12
    <3>2. p + 1 = n + 1 + k
      <4> HIDE DEF n, m
      <4>1. QED
        BY <2>9, <3>1
    <3>3. f.command = FrameCommand(request.command, n + 1 + k)
      BY <2>5, <3>2
    <3>4. StagedOwn(p + 1)'
      BY <1>4, <2>5, <2>8, <3>1, <3>3, ChannelRecordRun
    <3>5. p + 1 < Size
      <4> HIDE DEF n, m
      <4>1. QED
        BY <1>5, <2>9, <3>1
    <3>6. StagedOwn(RunOfRequest)'
      BY <2>7, <3>4 DEF StagedOwn
    <3>7. QED
      BY <1>2, <2>7, <3>5, <3>6
  <2>13. CASE p = FrameCount(c) - 1
    <3>1. p + 1 = FrameCount(c) /\ ~(p + 1 < Size)
      BY <1>2, <1>5, <2>13
    <3>2. reply'.status = "Applied" => ConfiguredOwn'
      BY <1>4, <2>5, <2>8, <2>13, <3>1, ApplyRun
    <3>3. QED
      BY <1>2, <2>7, <3>1, <3>2
  <2>14. QED
    BY <2>10, <2>11, <2>12, <2>13
<1>10. ~(clean' /\ outcome' = "success")
  BY <1>1 DEF SuccessIsCurrent
<1>11. QED
  BY <1>8, <1>9, <1>10 DEF StagingOwn

\* The host takes the reply it waits for, which is the RPU's newest.
LEMMA ReplyStaging ==
    ASSUME LinkInv, PlaceInv, StagingOwn, ReceiveReply
    PROVE  StagingOwn'
<1>1. /\ NumberInv /\ LinkTypes /\ InOrder /\ NewestReply /\ SuccessInv
      /\ pc = "wait" /\ frames # <<>> /\ fromRpu # <<>> /\ frames' = Tail(frames)
      /\ ReplyMatches /\ pc' # "wait"
      /\ UNCHANGED <<config_state, staged_config, hw, reply, origin, clean, toRpu>>
  BY DEF ReceiveReply, LinkInv, NumberInv, FramesNumbered, rpuVars
<1>2. Size' = Size /\ Size \in Nat /\ Len(frames) \in Nat /\ Len(frames) > 0
      /\ Len(frames') = Len(frames) - 1 /\ Head(frames) = frames[1] /\ Len(frames) <= Size
  <2>1. request'.command = request.command
    BY <1>1 DEF ReceiveReply, LinkTypes
  <2>2. Len(frames) > 0 /\ Len(frames') = Len(frames) - 1 /\ Head(frames) = frames[1]
    BY <1>1, TailFacts DEF LinkTypes
  <2>3. QED
    BY <1>1, <2>1, <2>2, SenderFacts DEF Size, PlaceInv, FramesOfRequest
<1>3. SUFFICES ASSUME clean, request.command.kind = "Configure", request'.begun
               PROVE  /\ pc' # "idle" =>
                           IF RunOfRequest' < Size' THEN StagedOwn(RunOfRequest)'
                           ELSE reply'.status = "Applied" => ConfiguredOwn'
                      /\ outcome' = "success" => ConfiguredOwn'
  <2>1. request'.command = request.command
    BY <1>1 DEF ReceiveReply, LinkTypes
  <2>2. ~HeadRun'
    BY <1>1 DEF HeadRun
  <2>3. QED
    BY <1>1, <2>1, <2>2 DEF StagingOwn
<1>4. PICK c \in AfeCommands : c = request.command /\ c.kind = "Configure"
  BY <1>1, <1>3 DEF LinkTypes, RequestCommands, NoRequest
<1>5. Size = FrameCount(c)
  BY <1>4 DEF Size
<1>6. /\ toRpu = <<>> /\ Head(fromRpu) = reply
  <2>1. Head(fromRpu) = fromRpu[1]
    BY <1>1, TailFacts DEF LinkTypes
  <2>2. toRpu = <<>> /\ Len(fromRpu) = 1
    BY <1>1, <1>2, <1>3, <2>1, NothingBehind DEF ReplyMatches
  <2>3. QED
    BY <1>1, <2>1, <2>2 DEF NewestReply
<1>7. HeadRun /\ ~HeadRun'
  BY <1>1, <1>6 DEF HeadRun
<1>8. PICK p \in Nat : p = Size - Len(frames) + 1 /\ p > 0
  BY <1>2
<1>9. RunOfRequest = p /\ RunOfRequest' = p
  BY <1>2, <1>7, <1>8 DEF RunOfRequest
<1>10. /\ request'.id = request.id /\ request'.command = request.command
       /\ request.begun \/ (frames[1].command.op = "Begin" /\ reply.status = "Applied")
  BY <1>1, <1>2, <1>3, <1>6 DEF ReceiveReply, LinkTypes
<1>11. /\ \A q : StagedOwn(q) => StagedOwn(q)'
       /\ ConfiguredOwn => ConfiguredOwn'
  BY <1>1, <1>10 DEF StagedOwn, ConfiguredOwn, Own
<1>12. IF p < Size THEN StagedOwn(p) ELSE reply.status = "Applied" => ConfiguredOwn
  <2>1. CASE request.begun
    BY <1>1, <1>3, <1>9, <2>1 DEF StagingOwn
  <2>2. CASE frames[1].command.op = "Begin" /\ reply.status = "Applied"
    <3>1. frames[1].command = FrameCommand(c, p)
      <4>1. 1 \in DOMAIN frames
        BY <1>1, <1>2 DEF LinkTypes
      <4>2. frames[1].command = FrameCommand(request.command, Size - Len(frames) + 1)
        BY <1>1, <4>1 DEF PlaceInv, FramesOfRequest
      <4>3. QED
        BY <1>4, <1>8, <4>2
    <3>2. p \notin 2 .. Size
      BY <1>4, <1>5, <2>2, <3>1, ConfigureFrames
    <3>3. p = 1 /\ Len(frames) = Size
      BY <1>2, <1>8, <3>2
    <3>4. StagedOwn(1)
      BY <1>3, <1>7, <2>2, <3>3 DEF StagingOwn
    <3>5. 1 < Size
      <4>1. /\ Len(c.afes) \in Nat /\ Len(c.channels) \in Nat
            /\ Size = 2 + Len(c.afes) + Len(c.channels)
        BY <1>4, <1>5, ConfigureFrames
      <4>2. \A a, b \in Nat : 1 < 2 + a + b
        OBVIOUS
      <4>3. QED
        BY <4>1, <4>2
    <3>6. QED
      BY <3>3, <3>4, <3>5
  <2>3. QED
    BY <1>10, <2>1, <2>2
<1>13. IF p < Size THEN StagedOwn(p)' ELSE reply'.status = "Applied" => ConfiguredOwn'
  BY <1>1, <1>11, <1>12
<1>14. StagedOwn(p)' => StagedOwn(RunOfRequest)'
  BY <1>9 DEF StagedOwn
<1>15. outcome' = "success" => ConfiguredOwn'
  <2>1. SUFFICES ASSUME outcome' = "success" PROVE ConfiguredOwn'
    OBVIOUS
  <2>2. outcome = "none"
    BY <1>1 DEF SuccessInv
  <2>3. ~(Len(frames) > 1) /\ outcome' = Outcome(request.command.kind, Head(fromRpu).status)
    BY <2>1, <2>2 DEF ReceiveReply
  <2>4. reply'.status = "Applied"
    BY <1>1, <1>3, <1>6, <2>1, <2>3 DEF Outcome
  <2>5. ~(p < Size)
    BY <1>2, <1>8, <2>3
  <2>6. QED
    BY <1>13, <2>4, <2>5
<1>16. QED
  BY <1>2, <1>9, <1>13, <1>14, <1>15

LEMMA StepStaging ==
    LinkInv /\ PlaceInv /\ StagingOwn /\ RuntimeTypeOK /\ [Next]_vars => StagingOwn'
<1>1. SUFFICES ASSUME LinkInv, PlaceInv, StagingOwn, RuntimeTypeOK, [Next]_vars PROVE StagingOwn'
  OBVIOUS
<1>2. CASE \E c \in AfeCommands : SubmitStatus(c) \/ SubmitAfeCommand(c)
  <2>1. pc' = "send" /\ ~request'.begun
    BY <1>2 DEF SubmitStatus, SubmitAfeCommand, Start
  <2>2. QED
    BY <2>1 DEF StagingOwn, HeadRun
<1>3. CASE SendFrame
  <2>1. /\ pc = "send" /\ pc' = "wait"
        /\ UNCHANGED <<config_state, staged_config, hw, reply, origin, request, frames, clean, outcome>>
        /\ toRpu' = Append(toRpu, NextMessage)
    BY <1>3 DEF SendFrame, rpuVars
  <2>2. toRpu' # <<>>
    <3>1. Len(toRpu) \in Nat /\ Len(toRpu') = Len(toRpu) + 1
      BY <1>1, <2>1 DEF LinkInv, NumberInv, LinkTypes
    <3>2. QED
      BY <3>1
  <2>3. ~HeadRun /\ ~HeadRun'
    BY <2>1, <2>2 DEF HeadRun
  <2>4. RunOfRequest' = RunOfRequest
    BY <2>1, <2>3 DEF RunOfRequest, Size
  <2>5. QED
    BY <1>1, <2>1, <2>3, <2>4, KeepStaging
<1>4. CASE SendFails \/ TimeOut \/ ReceiveStale \/ ServerRestarts
  <2>1. /\ pc' = "idle" /\ outcome' # "success"
        /\ UNCHANGED <<config_state, staged_config, hw, reply, origin, request, clean>>
    BY <1>4 DEF SendFails, TimeOut, ReceiveStale, ServerRestarts, Abandon, rpuVars, linkVars
  <2>2. ~HeadRun'
    BY <2>1 DEF HeadRun
  <2>3. QED
    BY <1>1, <2>1, <2>2, KeepStaging
<1>5. CASE ReceiveReply
  BY <1>1, <1>5, ReplyStaging
<1>6. CASE RpuHandles
  BY <1>1, <1>6, HandledStaging
<1>7. CASE RpuInterlockChanges \/ UNCHANGED vars
  <2>1. UNCHANGED <<config_state, staged_config, hw, reply, origin, request, frames, toRpu, pc,
                    clean, outcome>>
    BY <1>7 DEF RpuInterlockChanges, SetInterlock, vars, rpuVars, hostVars, linkVars
  <2>2. (HeadRun' <=> HeadRun) /\ RunOfRequest' = RunOfRequest
    BY <2>1 DEF HeadRun, RunOfRequest, Size
  <2>3. QED
    BY <1>1, <2>1, <2>2, KeepStaging
<1>8. QED
  BY <1>1, <1>2, <1>3, <1>4, <1>5, <1>6, <1>7 DEF Next, HostStep

\* A configuration that was begun and is answered success is the one in the hardware, with the
\* records of this request in every slot it names, whatever went before it on the link.
THEOREM OwnBegin == Spec => []SuccessAfterOwnBegin
<1>1. Init => StagingOwn
  BY DEF Init, NoRequest, StagingOwn
<1>2. LinkInv /\ StagingOwn => SuccessAfterOwnBegin
  <2>1. SUFFICES ASSUME LinkInv, StagingOwn, clean, outcome = "success", request.begun,
                        request.command.kind = "Configure"
                 PROVE  ConfiguredAsAsked
    BY DEF SuccessAfterOwnBegin
  <2>2. ConfiguredOwn
    BY <2>1 DEF StagingOwn
  <2>3. \A s : Own(s) => WrittenBy(s)
    BY DEF Own, WrittenBy
  <2>4. QED
    BY <2>2, <2>3 DEF ConfiguredOwn, ConfiguredAsAsked
<1>3. QED
  BY <1>1, <1>2, InitPlace, StepPlaces, StepStaging, LinkInvariant, RuntimeTyped, PTL DEF Spec

===============================================================================
