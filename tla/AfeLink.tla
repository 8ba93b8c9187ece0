-------------------------------- MODULE AfeLink --------------------------------
(***************************************************************************)
(* The server's RpmsgAfeTransport talking to the RPU over the RPMsg        *)
(* device: how an AFE command becomes numbered frames, how transact sends  *)
(* one frame and takes the next reply that is there, and what the server   *)
(* then tells its client.                                                  *)
(*                                                                         *)
(* RPMsg is external: two FIFO queues that lose nothing. The RPU handles   *)
(* its queue at its own pace, so a reply may come after the host stopped   *)
(* waiting for it; the host never empties the reply queue. The server runs *)
(* one request at a time (router.rs), so one command is under way at most. *)
(* A server that starts again numbers from 1, over whatever is still in    *)
(* the device; what the device does with unread replies when it is closed  *)
(* is up to it. The RPU goes on through all of it.                         *)
(***************************************************************************)
EXTENDS RpuRuntime, Sequences

CONSTANTS
    AfeCommands,   \* the AFE commands a client may ask for
    MaxRequests,   \* bound: requests served in a behaviour
    MaxRestarts    \* bound: restarts of the server

VARIABLES
    next_sequence,   \* RpmsgAfeTransport.next_sequence
    pc,              \* "idle", about to "send" the head of frames, or "wait" for its reply
    frames,          \* frames of the current command not yet answered
    toRpu, fromRpu,  \* the RPMsg queues
    outcome,         \* what the last request was answered
    request,         \* history: number, command and Begin status of the last request
    sizes,           \* history: the frames of each request
    origin,          \* history: origin[s] is the request whose frame the RPU handled s-th
    place,           \* history: place[s] is the place of that frame in its request
    clean,           \* history: the link was empty when the number 1 was last given out
    restarts         \* restarts of the server so far

hostVars == <<next_sequence, pc, frames, outcome, request, sizes>>
linkVars == <<toRpu, fromRpu, origin, place>>
vars == <<rpuVars, hostVars, linkVars, clean, restarts>>

(***************************************************************************)
(* AFE commands: a status query, one of the single-frame operations, or a  *)
(* front-end configuration given by the slots its records name, in order.  *)
(***************************************************************************)
IsAfeCommand(c) ==
    /\ c.kind \in {"Status", "Single", "Configure"}
    /\ c.afes \in Seq(AfeSlots) /\ Len(c.afes) <= MaxRecords
    /\ c.channels \in Seq(ChannelSlots) /\ Len(c.channels) <= MaxRecords

FrameCount(c) == IF c.kind = "Configure" THEN 2 + Len(c.afes) + Len(c.channels) ELSE 1

ASSUME LinkAssumption ==
    /\ \A c \in AfeCommands : IsAfeCommand(c) /\ FrameCount(c) < SequenceMax
    /\ MaxRequests \in Nat
    /\ MaxRestarts \in Nat

\* Mutant: the slots are numbered from one, as the board numbers its AFEs.
FrameCommandOneBased(c, i) ==
    IF c.kind = "Configure" /\ i \in 2 .. Len(c.afes) + 1
    THEN [op |-> "ConfigureAfe", slot |-> c.afes[i - 1] + 1]
    ELSE [op |-> "Status"]

\* from_afe_command_sequence: what the i-th frame of c commands.
FrameCommand(c, i) ==
    LET n == Len(c.afes)
    IN  CASE c.kind # "Configure" -> [op |-> c.kind]
          [] c.kind = "Configure" /\ i = 1 ->
               [op |-> "Begin", afe_count |-> n, channel_count |-> Len(c.channels)]
          [] c.kind = "Configure" /\ i \in 2 .. n + 1 ->
               [op |-> "ConfigureAfe", slot |-> c.afes[i - 1]]
          [] c.kind = "Configure" /\ i \in n + 2 .. FrameCount(c) - 1 ->
               [op |-> "ConfigureChannel", slot |-> c.channels[i - 1 - n]]
          [] OTHER -> [op |-> "Apply"]

\* u64 arithmetic: wrapping_add(n).max(1) on 0 .. SequenceMax.
WrappingAddMaxOne(s, n) ==
    LET sum == (s + n) % (SequenceMax + 1) IN IF sum = 0 THEN 1 ELSE sum

SequenceForFrame(first, offset) == WrappingAddMaxOne(first, offset)

FramesOf(c, first) ==
    [i \in 1 .. FrameCount(c) |->
        [sequence |-> SequenceForFrame(first, i - 1), command |-> FrameCommand(c, i)]]

\* Mutant: the wrap looks at the next number alone, not at how many are reserved.
ReservedFirstAlone(count) == IF next_sequence = SequenceMax THEN 1 ELSE next_sequence

\* reserve_sequences: a command never runs over the end of the number space.
ReservedFirst(count) == IF next_sequence > SequenceMax - count THEN 1 ELSE next_sequence

NoRequest == [id |-> 0, command |-> [kind |-> "Status", afes |-> <<>>, channels |-> <<>>],
              begun |-> FALSE]

Init ==
    /\ RuntimeInit
    /\ next_sequence = 1
    /\ pc = "idle"
    /\ frames = <<>>
    /\ toRpu = <<>>
    /\ fromRpu = <<>>
    /\ outcome = "none"
    /\ request = NoRequest
    /\ sizes = <<>>
    /\ origin = <<>>
    /\ place = <<>>
    /\ clean = TRUE
    /\ restarts = 0

-------------------------------------------------------------------------------
(***************************************************************************)
(* The host                                                                *)
(***************************************************************************)
Start(c, first) ==
    /\ pc = "idle"
    /\ request.id < MaxRequests
    /\ frames' = FramesOf(c, first)
    /\ pc' = "send"
    /\ outcome' = "none"
    /\ request' = [id |-> request.id + 1, command |-> c, begun |-> FALSE]
    /\ sizes' = Append(sizes, FrameCount(c))
    /\ clean' = IF first = 1 THEN toRpu = <<>> /\ fromRpu = <<>> ELSE clean
    /\ UNCHANGED <<rpuVars, linkVars, restarts>>

\* RpmsgAfeTransport::status
SubmitStatus(c) ==
    /\ c.kind = "Status"
    /\ Start(c, next_sequence)
    /\ next_sequence' = WrappingAddMaxOne(next_sequence, 1)

\* RpmsgAfeTransport::submit_afe_command; the command passed validate().
SubmitAfeCommand(c) ==
    /\ c.kind # "Status"
    /\ Start(c, ReservedFirst(FrameCount(c)))
    /\ next_sequence' = ReservedFirst(FrameCount(c)) + FrameCount(c)

Abandon ==
    /\ pc' = "idle"
    /\ frames' = <<>>
    /\ outcome' = "failure"
    /\ UNCHANGED <<next_sequence, request, sizes>>

\* The frame at the head of frames, and its place in the request.
NextMessage == [frame |-> Head(frames), request |-> request.id,
                index |-> FrameCount(request.command) - Len(frames) + 1]

\* Mutant: the frame is written again after a write that seemed short.
SendFrameTwice ==
    /\ pc = "send"
    /\ toRpu' \in {Append(toRpu, NextMessage), toRpu \o <<NextMessage, NextMessage>>}
    /\ pc' = "wait"
    /\ UNCHANGED <<rpuVars, next_sequence, frames, outcome, request, sizes, fromRpu, origin, place,
                   clean, restarts>>

SendFrame ==
    /\ pc = "send"
    /\ toRpu' = Append(toRpu, NextMessage)
    /\ pc' = "wait"
    /\ UNCHANGED <<rpuVars, next_sequence, frames, outcome, request, sizes, fromRpu, origin, place,
                   clean, restarts>>

\* write_all or flush fails.
SendFails ==
    /\ pc = "send"
    /\ Abandon
    /\ UNCHANGED <<rpuVars, linkVars, clean, restarts>>

\* Mutant: an expired poll is polled again.
PollAgain ==
    /\ pc = "wait"
    /\ fromRpu = <<>>
    /\ UNCHANGED vars

\* wait_readable gives up; it does so only while there is nothing to read.
TimeOut ==
    /\ pc = "wait"
    /\ fromRpu = <<>>
    /\ Abandon
    /\ UNCHANGED <<rpuVars, linkVars, clean, restarts>>

\* Mutant: any reply is taken for the reply to the last frame.
AnyReplyMatches == Head(fromRpu).sequence \in Sequences

ReplyMatches == Head(fromRpu).sequence = Head(frames).sequence

\* The reply of another frame is consumed and the command given up.
ReceiveStale ==
    /\ pc = "wait"
    /\ fromRpu # <<>>
    /\ ~ReplyMatches
    /\ Abandon
    /\ fromRpu' = Tail(fromRpu)
    /\ UNCHANGED <<rpuVars, toRpu, origin, place, clean, restarts>>

\* Mutant: an answer is a success, whatever its status.
OutcomeOfAnswer(kind, status) ==
    IF kind = "Status" \/ status \in {"Applied", "Rejected", "Interlocked", "Fault"}
    THEN "success" ELSE "failure"

\* What the client is told: status() asks only for an answer, submit() for Applied.
Outcome(kind, status) ==
    IF kind = "Status" \/ status = "Applied" THEN "success" ELSE "failure"

\* submit_afe_command looks at the status of the last reply alone: whatever the RPU
\* answered to an earlier frame, the next one is sent.
ReceiveReply ==
    /\ pc = "wait"
    /\ fromRpu # <<>>
    /\ ReplyMatches
    /\ fromRpu' = Tail(fromRpu)
    /\ frames' = Tail(frames)
    /\ IF Len(frames) > 1
       THEN pc' = "send" /\ UNCHANGED outcome
       ELSE /\ pc' = "idle"
            /\ outcome' = Outcome(request.command.kind, Head(fromRpu).status)
    /\ request' = [request EXCEPT !.begun =
                     @ \/ /\ Head(frames).command.op = "Begin"
                          /\ Head(fromRpu).status = "Applied"]
    /\ UNCHANGED <<rpuVars, next_sequence, sizes, toRpu, origin, place, clean, restarts>>

(***************************************************************************)
(* The RPU: one frame is taken from its queue, handled and answered. The   *)
(* frame stays with the request that reserved its sequence numbers.        *)
(***************************************************************************)
RpuHandles ==
    /\ toRpu # <<>>
    /\ HandleFrame(Head(toRpu).frame)
    /\ origin' = Append(origin, Head(toRpu).request)
    /\ place' = Append(place, Head(toRpu).index)
    /\ toRpu' = Tail(toRpu)
    /\ fromRpu' = Append(fromRpu, reply')
    /\ UNCHANGED <<hostVars, clean, restarts>>

\* Mutant: the runtime forgets the configuration under way when its interlock changes.
InterlockDropsConfiguration ==
    /\ conditions' \in SUBSET Conditions
    /\ config_state' = Idle
    /\ UNCHANGED <<heartbeat, fault_code, staged_config, hw, reply>>
    /\ UNCHANGED <<hostVars, linkVars, clean, restarts>>

RpuInterlockChanges ==
    /\ SetInterlock
    /\ UNCHANGED <<hostVars, linkVars, clean, restarts>>

\* The process ends wherever it is, and RpmsgAfeTransport::open runs again. Frames that were
\* sent stay with the RPU, and unread replies may stay in the device.
ServerRestarts ==
    /\ restarts < MaxRestarts
    /\ restarts' = restarts + 1
    /\ next_sequence' = 1
    /\ pc' = "idle"
    /\ frames' = <<>>
    /\ outcome' = "none"
    /\ fromRpu' \in {fromRpu, <<>>}
    /\ UNCHANGED <<rpuVars, request, sizes, toRpu, origin, place, clean>>

HostStep == SendFrame \/ SendFails \/ TimeOut \/ ReceiveStale \/ ReceiveReply

Next ==
    \/ \E c \in AfeCommands : SubmitStatus(c) \/ SubmitAfeCommand(c)
    \/ HostStep
    \/ RpuHandles
    \/ RpuInterlockChanges
    \/ ServerRestarts

Spec == Init /\ [][Next]_vars

\* The server is a loop that runs while the process does, and poll returns within its
\* timeout. Nothing is assumed of the RPU, nor of the clients.
FairSpec == Spec /\ WF_vars(HostStep)

-------------------------------------------------------------------------------
(***************************************************************************)
(* Properties                                                              *)
(***************************************************************************)
Requests == 0 .. MaxRequests

TypeOK ==
    /\ RuntimeTypeOK
    /\ next_sequence \in Sequences
    /\ pc \in {"idle", "send", "wait"}
    /\ frames \in Seq(Frames)
    /\ toRpu \in Seq([frame : Frames, request : Requests, index : Nat])
    /\ fromRpu \in Seq(Replies)
    /\ outcome \in {"none", "success", "failure"}
    /\ request.id \in Requests
    /\ request.begun \in BOOLEAN
    /\ sizes \in Seq(Nat) /\ Len(sizes) = request.id
    /\ origin \in Seq(Requests)
    /\ place \in Seq(Nat) /\ Len(place) = Len(origin)
    /\ heartbeat = Len(origin)
    /\ clean \in BOOLEAN
    /\ restarts \in 0 .. MaxRestarts

\* The frames of a command carry consecutive sequence numbers in range, none of them is
\* given out again while the command is under way, and no number is 0: the wrap, which
\* reserve_sequences and status do by different arithmetic, happens between two commands,
\* never inside one.
FramesNumbered ==
    /\ \A i \in DOMAIN frames :
         /\ frames[i].sequence \in 1 .. SequenceMax
         /\ frames[i].sequence = frames[1].sequence + (i - 1)
         /\ frames[i].sequence # next_sequence
    /\ next_sequence \in 1 .. SequenceMax
    /\ pc # "idle" <=> frames # <<>>

\* A client is told success only when the RPU has handled every frame sent so far, the last
\* one of this command being the newest, and answered it Applied (a status query: answered).
SuccessIsCurrent ==
    clean /\ outcome = "success" =>
        /\ toRpu = <<>> /\ fromRpu = <<>>
        /\ origin # <<>> /\ origin[heartbeat] = request.id
        /\ request.command.kind = "Status" \/ reply.status = "Applied"

\* Frames or replies on the link beyond the one the host is waiting for.
Backlog == Len(toRpu) + Len(fromRpu) - (IF pc = "wait" THEN 1 ELSE 0)

\* Once a reply is late the link never catches up: each later transaction adds a reply and
\* reads one, so every later request of this process fails, although the RPU still runs its
\* frames (transact does not drain the device). A restart ends it if the device forgets the
\* replies; one in the middle of a transaction begins it.
BacklogStays == [][Backlog > 0 => Backlog' > 0 \/ ServerRestarts]_vars

\* The configuration in the hardware is the one the last request asked for.
WrittenBy(stamp) == stamp # 0 /\ origin[stamp] = request.id

ConfiguredAsAsked ==
    /\ WrittenBy(hw.vbias)
    /\ \A i \in DOMAIN request.command.afes : WrittenBy(hw.afes[request.command.afes[i]])
    /\ \A i \in DOMAIN request.command.channels :
         WrittenBy(hw.channels[request.command.channels[i]])

\* A ConfigureFrontend whose Begin frame was applied and that is answered success has put
\* its own VBIAS and its own record in every slot it names, whatever the interlock did
\* between its frames and whatever earlier commands left staged or on the link.
SuccessAfterOwnBegin ==
    (clean /\ outcome = "success" /\ request.command.kind = "Configure" /\ request.begun) =>
        ConfiguredAsAsked

\* docs/rpu-wire-abi.md:67 says of Applied that the command completed and the hardware was
\* updated; submit_afe_command never looks at the reply to Begin or to a record.
SuccessMeansConfigured ==
    (outcome = "success" /\ request.command.kind = "Configure") => ConfiguredAsAsked

\* The link keeps the promises of RequestAnswer through timeouts, late replies, restarts and
\* the wrap of the numbers: each request's frames from its first on, in order, none twice, those
\* of a request that was given up as well; and no success for another's frames.
Abstract ==
    INSTANCE RequestAnswer WITH
        sizes <- sizes,
        sound <- clean,
        answer <- IF pc = "idle" THEN outcome ELSE "pending",
        ran <- [s \in DOMAIN origin |-> [request |-> origin[s], index |-> place[s]]]

Promised == Abstract!Spec

\* The server answers every request, even if the RPU never answers a frame.
RequestsEnd == pc # "idle" ~> pc = "idle"

===============================================================================
