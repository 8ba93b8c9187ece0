------------------------------ MODULE PowerSupply ------------------------------
(***************************************************************************)
(* The bridge's ScpiPowerSupply: powerPollWorker polls it with a row of    *)
(* SCPI queries, powerMethodCallback writes to it, and powerClientMutex    *)
(* keeps one to the whole poll or the whole call. A reply has no number:   *)
(* what is read after a query, until an end of line is in it or the        *)
(* deadline passes, is taken for its answer.                               *)
(*                                                                         *)
(* The supply and the line are external. The supply answers in order, at   *)
(* any time or never, and a reply comes in one piece or in two, the second *)
(* of which may be the line feed of a carriage return. A line that is      *)
(* closed keeps nothing. The fake and the disabled supply are left out,    *)
(* and so is what a method writes: the properties are about replies.       *)
(***************************************************************************)
EXTENDS Integers, SequencesExt

CONSTANTS
    Serial,     \* whether the device is a tty, which has to be configured
    MaxOnLine   \* bound: commands and pieces of replies on the line

ASSUME PowerAssumption == Serial \in BOOLEAN /\ MaxOnLine \in Nat

\* The queries of a poll, in order; the replies to MEAS:VOLT? and MEAS:CURR? are numbers.
Queries == <<"*IDN?", "OUTP?", "MEAS:VOLT?", "MEAS:CURR?", "SYST:ERR?">>
Numeric == {"MEAS:VOLT?", "MEAS:CURR?"}

Setter == "set"

VARIABLES
    fd,          \* "closed", "ready", or "raw": open, but never configured
    pc,          \* "idle", about to "send" a query, or to "receive" its reply
    query,       \* the query under way
    response,    \* what was read after it so far
    status,      \* message of powerStatus; history: whether each answer was its query's own
    toSupply,    \* the commands on the way to the supply
    fromSupply,  \* the pieces of its replies on the way back
    port,        \* the pieces that have arrived and are not read
    own,         \* history: whether the answers of this poll so far are their queries' own
    late         \* history: since the device was opened the first piece of a reply was taken
                 \* without the second, or a reply to a query from before has arrived

line == <<toSupply, fromSupply>>
vars == <<fd, pc, query, response, status, line, port, own, late>>

\* History of a command and of its reply: its query is one of this "poll", of an earlier one
\* since the device was "opened", or from "before".
Ages == {"poll", "opened", "before"}

Aged(messages, age) == [i \in DOMAIN messages |-> [messages[i] EXCEPT !.age = age]]

Init ==
    /\ fd = "closed"
    /\ pc = "idle"
    /\ query = 1
    /\ response = <<>>
    /\ status = [message |-> "not polled", own |-> TRUE]
    /\ toSupply = <<>>
    /\ fromSupply = <<>>
    /\ port = <<>>
    /\ own = TRUE
    /\ late = FALSE

-------------------------------------------------------------------------------
(***************************************************************************)
(* The device, as ensureOpen finds and leaves it                           *)
(***************************************************************************)
IsOpen == fd # "closed" /\ UNCHANGED <<fd, line, port, late>>

\* No device is there, or it cannot be opened.
OpenFails == fd = "closed" /\ UNCHANGED <<fd, line, port, late>>

\* A tty that cannot be configured is left open as it is, and the caller gets an exception.
Open(state) ==
    /\ fd = "closed"
    /\ state = "raw" => Serial
    /\ fd' = state
    /\ port' = <<>>
    /\ toSupply' = Aged(toSupply, "before")
    /\ fromSupply' = Aged(fromSupply, "before")
    /\ late' = FALSE

-------------------------------------------------------------------------------
(***************************************************************************)
(* poll                                                                    *)
(***************************************************************************)
EndPoll(message, answersOwn) ==
    /\ pc' = "idle"
    /\ query' = 1
    /\ response' = <<>>
    /\ own' = TRUE
    /\ status' = [message |-> message, own |-> answersOwn]

\* What is still on the line when a poll ends.
LeaveLine ==
    /\ toSupply' = Aged(toSupply, "opened")
    /\ fromSupply' = Aged(fromSupply, "opened")

\* Mutant: the device is left open, for the next poll to go on with.
FailKeepsDevice ==
    /\ EndPoll("failed", own)
    /\ LeaveLine
    /\ port' = Aged(port, "opened")
    /\ UNCHANGED fd

\* The catch of poll, with closeDevice.
FailPoll ==
    /\ EndPoll("failed", own)
    /\ LeaveLine
    /\ fd' = "closed"
    /\ port' = <<>>

\* Mutant: whether the device could be opened is not looked at.
StartPollUnopened ==
    /\ pc = "idle"
    /\ IsOpen \/ OpenFails \/ Open("ready")
    /\ pc' = "send"
    /\ UNCHANGED <<query, response, status, own>>

StartPoll ==
    /\ pc = "idle"
    /\ IsOpen \/ Open("ready")
    /\ pc' = "send"
    /\ UNCHANGED <<query, response, status, own>>

PollWithoutDevice ==
    /\ pc = "idle"
    /\ OpenFails
    /\ EndPoll("no device", TRUE)

\* configureSerial throws, and the catch closes the device again.
PollUnconfigured ==
    /\ pc = "idle"
    /\ Serial /\ fd = "closed"
    /\ FailPoll
    /\ UNCHANGED late

SendQuery ==
    /\ pc = "send"
    /\ Len(toSupply \o fromSupply \o port) < MaxOnLine
    /\ toSupply' = Append(toSupply, [command |-> Queries[query], age |-> "poll"])
    /\ pc' = "receive"
    /\ UNCHANGED <<fd, query, response, status, fromSupply, port, own, late>>

\* The write fails, or later the select or the read.
LineFails ==
    /\ pc \in {"send", "receive"}
    /\ FailPoll
    /\ UNCHANGED late

IsEnd(piece) == piece.part # "head"

Ended(text) == \E i \in DOMAIN text : IsEnd(text[i])

\* trim: what is left of a text are the pieces that are more than an end of line. No piece is
\* twice on the line, and the pieces of a reply stay together.
Trimmed(text) == {piece \in ToSet(text) : piece.part # "lf"}

\* A reply in pieces.
Reply(command, parts) ==
    [i \in DOMAIN parts |-> [command |-> command.command, age |-> command.age, part |-> parts[i]]]

Replies == {<<"whole">>, <<"head", "tail">>, <<"whole", "lf">>}

\* The whole reply to the query under way, and nothing else.
IsAnswer(text) ==
    \E parts \in Replies :
        Trimmed(text) = Trimmed(Reply([command |-> Queries[query], age |-> "poll"], parts))

\* A first piece without its second.
Cut(text) ==
    \E piece \in Trimmed(text) :
        piece.part = "head" /\ [piece EXCEPT !.part = "tail"] \notin Trimmed(text)

\* The text is taken for the answer, and the poll goes on.
Accept(text) ==
    /\ Trimmed(text) # {}
    /\ IF query < Len(Queries)
       THEN /\ pc' = "send"
            /\ query' = query + 1
            /\ response' = <<>>
            /\ own' = (own /\ IsAnswer(text))
            /\ UNCHANGED <<status, line>>
       ELSE EndPoll("ok", own /\ IsAnswer(text)) /\ LeaveLine
    /\ late' = (late \/ Cut(text))
    /\ UNCHANGED fd

\* An empty answer is a timeout. One that is not the answer to the query, or not all of it,
\* may begin with a number or not.
Refuse(text) ==
    /\ Trimmed(text) = {} \/ (Queries[query] \in Numeric /\ ~IsAnswer(text))
    /\ FailPoll
    /\ UNCHANGED late

\* read takes all that has arrived, up to a size no reply has; the first end of line ends the
\* query.
ReadPort ==
    /\ pc = "receive"
    /\ port # <<>>
    /\ LET text == response \o port
       IN  \/ Ended(text) /\ Accept(text)
           \/ Ended(text) /\ Refuse(text)
           \/ /\ ~Ended(text)
              /\ response' = text
              /\ UNCHANGED <<fd, pc, query, status, line, own, late>>
    /\ port' = <<>>

\* What there is of an answer at the deadline is the answer.
DeadlinePasses ==
    /\ pc = "receive"
    /\ \/ Accept(response) /\ port' = IF pc' = "idle" THEN Aged(port, "opened") ELSE port
       \/ Refuse(response)

-------------------------------------------------------------------------------
(***************************************************************************)
(* setOutput, setVoltage and setCurrent, after requireWrites and the check *)
(* of the bounds. No reply is read, and no failure closes the device. Two  *)
(* actions are enough, since a write that fails is CallOpens alone.        *)
(***************************************************************************)
CallOpens ==
    /\ pc = "idle"
    /\ \E state \in {"ready", "raw"} : Open(state)
    /\ UNCHANGED <<pc, query, response, status, own>>

CallWrites ==
    /\ pc = "idle"
    /\ fd # "closed"
    /\ Len(toSupply \o fromSupply \o port) < MaxOnLine
    /\ toSupply' = Append(toSupply, [command |-> Setter, age |-> "opened"])
    /\ UNCHANGED <<fd, pc, query, response, status, fromSupply, port, own, late>>

-------------------------------------------------------------------------------
(***************************************************************************)
(* The supply                                                              *)
(***************************************************************************)
SupplyTakesCommand ==
    /\ toSupply # <<>>
    /\ toSupply' = Tail(toSupply)
    /\ \E parts \in Replies \cup {<<>>} :
         /\ Head(toSupply).command = Setter => parts = <<>>
         /\ fromSupply' = fromSupply \o Reply(Head(toSupply), parts)
    /\ UNCHANGED <<fd, pc, query, response, status, port, own, late>>

PieceArrives ==
    /\ fromSupply # <<>>
    /\ fromSupply' = Tail(fromSupply)
    /\ IF fd = "closed"
       THEN UNCHANGED <<port, late>>
       ELSE /\ port' = Append(port, Head(fromSupply))
            /\ late' = (late \/ Head(fromSupply).age = "before")
    /\ UNCHANGED <<fd, pc, query, response, status, toSupply, own>>

Next ==
    \/ StartPoll \/ PollWithoutDevice \/ PollUnconfigured
    \/ SendQuery \/ LineFails \/ ReadPort \/ DeadlinePasses
    \/ CallOpens \/ CallWrites
    \/ SupplyTakesCommand \/ PieceArrives

Spec == Init /\ [][Next]_vars

-------------------------------------------------------------------------------
(***************************************************************************)
(* Properties                                                              *)
(***************************************************************************)
Commands == [command : ToSet(Queries) \cup {Setter}, age : Ages]
Pieces == [command : ToSet(Queries), age : Ages, part : {"whole", "head", "tail", "lf"}]

\* The device is open while a poll is under way, and what was read of an answer that goes on
\* has no end of line.
TypeOK ==
    /\ fd \in {"closed", "ready", "raw"}
    /\ pc \in {"idle", "send", "receive"}
    /\ query \in DOMAIN Queries
    /\ response \in Seq(Pieces)
    /\ status \in [message : {"not polled", "no device", "failed", "ok"}, own : BOOLEAN]
    /\ toSupply \in Seq(Commands) /\ fromSupply \in Seq(Pieces) /\ port \in Seq(Pieces)
    /\ own \in BOOLEAN /\ late \in BOOLEAN
    /\ pc # "idle" => fd # "closed"
    /\ fd = "closed" => port = <<>>
    /\ ~Ended(response)

\* Although a reply says nothing of its query, a poll whose message is ok has taken for each
\* answer the whole reply to that very query. The device that every failure closes is what
\* makes it so: what is still under way when a query is given up must not meet the next one.
\* It cannot help where a part of a reply is taken for all of it, which is no failure (at the
\* deadline, or after the line feed of the reply before), and where a reply comes after the
\* device is open again; then the answers may be off by one, in this poll and those after it.
OkPollIsOwn == status.message = "ok" /\ ~late => status.own

===============================================================================
