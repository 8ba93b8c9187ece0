-------------------------- MODULE PowerSupply_proofs --------------------------
(***************************************************************************)
(* The power supply's theorems, for a line of any length, a tty or not: a  *)
(* poll that ends ok has read for each query the reply to that query,      *)
(* unless a piece of an older reply was still to come.                     *)
(***************************************************************************)
EXTENDS PowerSupply, TLAPS

-------------------------------------------------------------------------------
(***************************************************************************)
(* The inductive invariant: while the device is open and no piece of an    *)
(* older reply has mixed in, what is on the line belongs to the query      *)
(* under way, if one waits for its reply: the command, or the one reply to *)
(* it, in order. What else there is are line feeds, settings, and, ahead   *)
(* of all that, what was asked before the device was opened and not read.  *)
(***************************************************************************)
Text == response \o port
Stream == Text \o fromSupply

Counts(piece) == piece.part # "lf" /\ piece.age # "before"
Asks(command) == command.command # Setter /\ command.age # "before"

OfQuery(m) == m.command = Queries[query] /\ m.age = "poll"

NoneCounts(pieces) == \A i \in DOMAIN pieces : ~Counts(pieces[i])
NoneAsks(commands) == \A i \in DOMAIN commands : ~Asks(commands[i])

\* At most one reply, whole or in two pieces, and its second piece not without the first.
OneReply(pieces) ==
    /\ \A i, j \in DOMAIN pieces :
         i < j /\ Counts(pieces[i]) /\ Counts(pieces[j]) =>
             pieces[i].part = "head" /\ pieces[j].part = "tail"
    /\ \A j \in DOMAIN pieces :
         Counts(pieces[j]) /\ pieces[j].part = "tail" =>
             \E i \in DOMAIN pieces : i < j /\ Counts(pieces[i]) /\ pieces[i].part = "head"

OneCommand(commands) ==
    \A i, j \in DOMAIN commands : Asks(commands[i]) /\ Asks(commands[j]) => i = j

\* What was asked before the device was opened comes before what was asked since.
OldFirst ==
    /\ \A i, j \in DOMAIN Stream : i < j /\ Counts(Stream[i]) => Stream[j].age # "before"
    /\ \A i, j \in DOMAIN toSupply : i < j /\ Asks(toSupply[i]) => toSupply[j].age # "before"
    /\ (\E i \in DOMAIN Stream : Counts(Stream[i])) =>
          \A j \in DOMAIN toSupply : toSupply[j].age # "before"

LineInv ==
    /\ OldFirst
    /\ \A i \in DOMAIN Stream : Counts(Stream[i]) => pc = "receive" /\ OfQuery(Stream[i])
    /\ OneReply(Stream)
    /\ \A i \in DOMAIN Text : Text[i].age # "before"
    /\ \A i \in DOMAIN toSupply :
         Asks(toSupply[i]) => pc = "receive" /\ OfQuery(toSupply[i]) /\ NoneCounts(Stream)
    /\ OneCommand(toSupply)

PowerInv ==
    /\ TypeOK
    /\ fd = "closed" => status.message # "ok"
    /\ pc # "receive" => response = <<>>
    /\ pc = "idle" => own
    /\ fd # "closed" /\ ~late => own /\ LineInv
    /\ status.message = "ok" /\ ~late => status.own

-------------------------------------------------------------------------------
(***************************************************************************)
(* The operators                                                           *)
(***************************************************************************)
LEMMA QueryFacts ==
    /\ DOMAIN Queries = 1 .. 5 /\ Len(Queries) = 5 /\ 1 \in DOMAIN Queries
    /\ \A i \in DOMAIN Queries : Queries[i] \in ToSet(Queries) /\ Queries[i] # Setter
<1>1. DOMAIN Queries = 1 .. 5 /\ Len(Queries) = 5
  BY DEF Queries
<1>2. \A i \in 1 .. 5 : Queries[i] # Setter
  BY DEF Queries, Setter
<1>3. \A i \in DOMAIN Queries : Queries[i] \in ToSet(Queries)
  BY DEF ToSet
<1>4. QED
  BY <1>1, <1>2, <1>3

LEMMA AgedPieces ==
    ASSUME NEW q \in Seq(Pieces), NEW age \in Ages
    PROVE  /\ Aged(q, age) \in Seq(Pieces) /\ DOMAIN Aged(q, age) = DOMAIN q /\ Len(Aged(q, age)) = Len(q)
           /\ \A i \in DOMAIN q : /\ Aged(q, age)[i].command = q[i].command
                                  /\ Aged(q, age)[i].part = q[i].part
                                  /\ Aged(q, age)[i].age = age
<1>1. \A p \in Pieces : /\ [p EXCEPT !.age = age] \in Pieces /\ [p EXCEPT !.age = age].age = age
                        /\ [p EXCEPT !.age = age].command = p.command
                        /\ [p EXCEPT !.age = age].part = p.part
  BY DEF Pieces
<1>2. \A i \in DOMAIN q : q[i] \in Pieces
  OBVIOUS
<1>3. \A i \in DOMAIN q : [q[i] EXCEPT !.age = age] \in Pieces
  BY <1>1, <1>2
<1>4. Aged(q, age) \in Seq(Pieces) /\ DOMAIN Aged(q, age) = DOMAIN q /\ Len(Aged(q, age)) = Len(q)
  BY <1>3 DEF Aged
<1>5. \A i \in DOMAIN q : Aged(q, age)[i] = [q[i] EXCEPT !.age = age]
  BY DEF Aged
<1>6. ASSUME NEW i \in DOMAIN q
      PROVE  /\ Aged(q, age)[i].command = q[i].command
             /\ Aged(q, age)[i].part = q[i].part
             /\ Aged(q, age)[i].age = age
  <2>1. q[i] \in Pieces /\ Aged(q, age)[i] = [q[i] EXCEPT !.age = age]
    BY <1>2, <1>5
  <2>2. QED
    BY <1>1, <2>1
<1>7. QED
  BY <1>4, <1>6

LEMMA AgedCommands ==
    ASSUME NEW q \in Seq(Commands), NEW age \in Ages
    PROVE  /\ Aged(q, age) \in Seq(Commands) /\ DOMAIN Aged(q, age) = DOMAIN q
           /\ \A i \in DOMAIN q : /\ Aged(q, age)[i].command = q[i].command
                                  /\ Aged(q, age)[i].age = age
<1>1. \A m \in Commands : /\ [m EXCEPT !.age = age] \in Commands /\ [m EXCEPT !.age = age].age = age
                          /\ [m EXCEPT !.age = age].command = m.command
  BY DEF Commands
<1>2. \A i \in DOMAIN q : q[i] \in Commands
  OBVIOUS
<1>3. \A i \in DOMAIN q : [q[i] EXCEPT !.age = age] \in Commands
  BY <1>1, <1>2
<1>4. Aged(q, age) \in Seq(Commands) /\ DOMAIN Aged(q, age) = DOMAIN q
  BY <1>3 DEF Aged
<1>5. \A i \in DOMAIN q : Aged(q, age)[i] = [q[i] EXCEPT !.age = age]
  BY DEF Aged
<1>6. ASSUME NEW i \in DOMAIN q
      PROVE  /\ Aged(q, age)[i].command = q[i].command
             /\ Aged(q, age)[i].age = age
  <2>1. q[i] \in Commands
    BY <1>2
  <2>2. /\ [q[i] EXCEPT !.age = age].age = age
        /\ [q[i] EXCEPT !.age = age].command = q[i].command
    BY <1>1, <2>1, Zenon
  <2>3. QED
    BY <1>5, <2>2, Zenon
<1>7. QED
  BY <1>4, <1>6

LEMMA ReplyFacts ==
    ASSUME NEW m \in Commands, m.command # Setter, NEW parts \in Replies \cup {<<>>}
    PROVE  /\ Reply(m, parts) \in Seq(Pieces) /\ DOMAIN Reply(m, parts) = DOMAIN parts
           /\ Len(Reply(m, parts)) = Len(parts)
           /\ \A i \in DOMAIN parts : /\ Reply(m, parts)[i].command = m.command
                                      /\ Reply(m, parts)[i].age = m.age
                                      /\ Reply(m, parts)[i].part = parts[i]
<1>1. m.command \in ToSet(Queries) /\ m.age \in Ages
  BY DEF Commands
<1>2. \A i \in DOMAIN parts : parts[i] \in {"whole", "head", "tail", "lf"}
  <2>1. \/ parts = <<"whole">> \/ parts = <<"head", "tail">> \/ parts = <<"whole", "lf">>
        \/ parts = <<>>
    BY DEF Replies
  <2>2. QED
    BY <2>1
<1>3. DOMAIN parts = 1 .. Len(parts) /\ Len(parts) \in Nat
  BY DEF Replies
<1>4. \A i \in DOMAIN parts :
        [command |-> m.command, age |-> m.age, part |-> parts[i]] \in Pieces
  BY <1>1, <1>2 DEF Pieces
<1>5. Reply(m, parts) \in Seq(Pieces) /\ Len(Reply(m, parts)) = Len(parts)
  BY <1>3, <1>4 DEF Reply
<1>6. QED
  BY <1>5 DEF Reply

LEMMA NoReply == \A m : Reply(m, <<>>) = <<>>
BY DEF Reply

LEMMA Joined ==
    ASSUME NEW S, NEW p \in Seq(S), NEW q \in Seq(S)
    PROVE  /\ p \o q \in Seq(S) /\ Len(p \o q) = Len(p) + Len(q)
           /\ Len(p) \in Nat /\ Len(q) \in Nat
           /\ DOMAIN p = 1 .. Len(p) /\ DOMAIN q = 1 .. Len(q)
           /\ DOMAIN (p \o q) = 1 .. Len(p) + Len(q)
           /\ \A i \in 1 .. Len(p) : (p \o q)[i] = p[i]
           /\ \A i \in 1 .. Len(q) : (p \o q)[Len(p) + i] = q[i]
           /\ \A i \in DOMAIN (p \o q) :
                i \in 1 .. Len(p) \/ (i - Len(p) \in 1 .. Len(q) /\ (p \o q)[i] = q[i - Len(p)])
OBVIOUS

LEMMA Moved ==
    ASSUME NEW S, NEW q \in Seq(S), NEW r \in Seq(S), r # <<>>
    PROVE  /\ Append(q, Head(r)) \in Seq(S) /\ Tail(r) \in Seq(S) /\ Len(Tail(r)) = Len(r) - 1
           /\ Len(Append(q, Head(r))) = Len(q) + 1
           /\ Len(r) \in Nat /\ Len(r) > 0 /\ Len(q) \in Nat
           /\ \A i \in 1 .. Len(q) : Append(q, Head(r))[i] = q[i]
           /\ Append(q, Head(r))[Len(q) + 1] = r[1]
           /\ \A i \in 1 .. Len(r) - 1 : Tail(r)[i] = r[i + 1]
OBVIOUS

LEMMA MovedJoined ==
    ASSUME NEW S, NEW q \in Seq(S), NEW r \in Seq(S), r # <<>>
    PROVE  Append(q, Head(r)) \o Tail(r) = q \o r
<1> DEFINE left == Append(q, Head(r)) \o Tail(r)
           right == q \o r
<1>1. Len(r) \in Nat /\ Len(r) > 0 /\ Len(q) \in Nat
  BY Moved
<1>2. left \in Seq(S) /\ right \in Seq(S)
  BY Moved
<1>3. Len(left) = Len(q) + Len(r) /\ Len(right) = Len(q) + Len(r)
  BY Moved
<1>4. \A i \in 1 .. Len(q) : left[i] = right[i]
  BY Moved
<1>5. ASSUME NEW i \in 1 .. Len(r) PROVE left[Len(q) + i] = r[i]
  <2>1. CASE i = 1
    BY Moved, <2>1
  <2>2. CASE i # 1
    <3>1. i - 1 \in 1 .. Len(Tail(r))
      BY Moved, <2>2
    <3>2. left[Len(Append(q, Head(r))) + (i - 1)] = Tail(r)[i - 1]
      BY Moved, <3>1
    <3>3. QED
      BY Moved, <3>1, <3>2
  <2>3. QED
    BY <2>1, <2>2
<1>6. \A i \in 1 .. Len(r) : right[Len(q) + i] = r[i]
  OBVIOUS
<1>7. ASSUME NEW i \in 1 .. Len(q) + Len(r) PROVE left[i] = right[i]
  <2>1. CASE i <= Len(q)
    BY <1>1, <1>4, <2>1
  <2>2. CASE i > Len(q)
    <3>1. i - Len(q) \in 1 .. Len(r) /\ i = Len(q) + (i - Len(q))
      BY <1>1, <2>2
    <3>2. QED
      BY <1>5, <1>6, <3>1
  <2>3. QED
    BY <1>1, <2>1, <2>2
<1>8. QED
  BY <1>2, <1>3, <1>7

\* The stream does not change when a piece arrives, or is read.
LEMMA Regrouped ==
    ASSUME NEW S, NEW p \in Seq(S), NEW q \in Seq(S), NEW r \in Seq(S)
    PROVE  /\ (p \o q) \o r = p \o (q \o r)
           /\ p \o <<>> = p /\ <<>> \o p = p
<1>1. \A x, y, z \in Seq(S) : (x \o y) \o z = x \o (y \o z)
  BY SMTT(60)
<1>2. p \o <<>> = p /\ <<>> \o p = p
  OBVIOUS
<1>3. QED
  BY <1>1, <1>2

LEMMA Passed ==
    ASSUME NEW S, NEW p \in Seq(S), NEW q \in Seq(S), NEW r \in Seq(S), r # <<>>
    PROVE  (p \o Append(q, Head(r))) \o Tail(r) = (p \o q) \o r
<1> DEFINE x == Append(q, Head(r))
           y == Tail(r)
<1>1. x \in Seq(S) /\ y \in Seq(S)
  BY Moved
<1>2. x \o y = q \o r
  BY MovedJoined
<1> HIDE DEF x, y
<1>3. (p \o x) \o y = p \o (x \o y)
  BY <1>1, SMTT(60)
<1>4. (p \o q) \o r = p \o (q \o r)
  OBVIOUS
<1>5. (p \o x) \o y = (p \o q) \o r
  BY <1>2, <1>3, <1>4, Zenon
<1>6. QED
  BY <1>5 DEF x, y

-------------------------------------------------------------------------------
(***************************************************************************)
(* Type correctness                                                        *)
(***************************************************************************)
LEMMA NothingRead == <<>> \in Seq(Pieces) /\ ~Ended(<<>>)
<1>1. DOMAIN <<>> = {}
  OBVIOUS
<1>2. QED
  BY <1>1 DEF Ended

LEMMA EndPollTyped ==
    ASSUME TypeOK, NEW message \in {"no device", "failed", "ok"}, NEW answersOwn \in BOOLEAN,
           EndPoll(message, answersOwn)
    PROVE  /\ pc' = "idle" /\ query' \in DOMAIN Queries /\ response' = <<>> /\ own' = TRUE
           /\ response' \in Seq(Pieces) /\ ~Ended(response')
           /\ status' \in [message : {"not polled", "no device", "failed", "ok"}, own : BOOLEAN]
<1>1. /\ pc' = "idle" /\ query' = 1 /\ response' = <<>> /\ own' = TRUE
      /\ status' = [message |-> message, own |-> answersOwn]
  BY DEF EndPoll
<1>2. response' \in Seq(Pieces) /\ ~Ended(response')
  BY <1>1, NothingRead
<1>3. query' \in DOMAIN Queries
  <2>1. 1 \in DOMAIN Queries
    BY QueryFacts
  <2>2. QED
    BY <1>1, <2>1
<1>4. QED
  BY <1>1, <1>2, <1>3

LEMMA LeaveLineTyped ==
    ASSUME TypeOK, LeaveLine
    PROVE  toSupply' \in Seq(Commands) /\ fromSupply' \in Seq(Pieces)
BY AgedCommands, AgedPieces DEF LeaveLine, TypeOK, Ages

LEMMA FailPollTyped ==
    ASSUME TypeOK, FailPoll, late' \in BOOLEAN
    PROVE  TypeOK'
<1>1. own \in BOOLEAN
  BY DEF TypeOK
<1>2. /\ pc' = "idle" /\ query' \in DOMAIN Queries /\ own' = TRUE
      /\ response' \in Seq(Pieces) /\ ~Ended(response')
      /\ status' \in [message : {"not polled", "no device", "failed", "ok"}, own : BOOLEAN]
  BY <1>1, EndPollTyped DEF FailPoll
<1>3. toSupply' \in Seq(Commands) /\ fromSupply' \in Seq(Pieces)
  BY LeaveLineTyped DEF FailPoll
<1>4. fd' = "closed" /\ port' = <<>> /\ port' \in Seq(Pieces)
  BY DEF FailPoll
<1>5. QED
  BY <1>2, <1>3, <1>4 DEF TypeOK, Ended

LEMMA OpenTyped ==
    ASSUME TypeOK, NEW state \in {"ready", "raw"}, Open(state)
    PROVE  /\ fd' \in {"ready", "raw"} /\ port' = <<>> /\ port' \in Seq(Pieces) /\ late' = FALSE
           /\ toSupply' \in Seq(Commands) /\ fromSupply' \in Seq(Pieces)
<1>1. toSupply' \in Seq(Commands) /\ fromSupply' \in Seq(Pieces)
  BY AgedCommands, AgedPieces DEF Open, TypeOK, Ages
<1>2. fd' = state /\ port' = <<>> /\ late' = FALSE
  BY DEF Open
<1>3. QED
  BY <1>1, <1>2

LEMMA AcceptTyped ==
    ASSUME TypeOK, pc # "idle", NEW text \in Seq(Pieces), Accept(text)
    PROVE  /\ fd' = fd /\ fd # "closed" /\ late' \in BOOLEAN /\ own' \in BOOLEAN
           /\ pc' \in {"idle", "send"} /\ query' \in DOMAIN Queries /\ response' = <<>>
           /\ response' \in Seq(Pieces) /\ ~Ended(response')
           /\ status' \in [message : {"not polled", "no device", "failed", "ok"}, own : BOOLEAN]
           /\ toSupply' \in Seq(Commands) /\ fromSupply' \in Seq(Pieces)
<1>1. IsAnswer(text) \in BOOLEAN /\ Cut(text) \in BOOLEAN
  BY DEF IsAnswer, Cut
<1>2. fd' = fd /\ fd # "closed" /\ late' \in BOOLEAN
  BY <1>1 DEF Accept, TypeOK
<1>3. CASE query < Len(Queries)
  <2>1. query + 1 \in DOMAIN Queries
    <3>1. query \in 1 .. 5 /\ Len(Queries) = 5
      BY QueryFacts DEF TypeOK
    <3>2. QED
      BY <1>3, <3>1, QueryFacts
  <2>2. /\ pc' = "send" /\ query' = query + 1 /\ response' = <<>>
        /\ own' = (own /\ IsAnswer(text)) /\ UNCHANGED <<status, line>>
    BY <1>3 DEF Accept
  <2>3. response' \in Seq(Pieces) /\ ~Ended(response')
    BY <2>2 DEF Ended
  <2>4. QED
    BY <1>1, <1>2, <2>1, <2>2, <2>3 DEF TypeOK, line
<1>4. CASE ~(query < Len(Queries))
  <2>1. EndPoll("ok", own /\ IsAnswer(text)) /\ LeaveLine
    BY <1>4 DEF Accept
  <2>2. (own /\ IsAnswer(text)) \in BOOLEAN
    OBVIOUS
  <2>3. QED
    BY <1>2, <2>1, <2>2, EndPollTyped, LeaveLineTyped
<1>5. QED
  BY <1>3, <1>4

\* The steps that end in a poll's answer or failure, or that open the device.
LEMMA AskingTyped ==
    ASSUME TypeOK, ReadPort \/ DeadlinePasses
    PROVE  TypeOK'
<1>1. pc = "receive" /\ fd # "closed" /\ response \in Seq(Pieces) /\ port \in Seq(Pieces)
  BY DEF ReadPort, DeadlinePasses, TypeOK
<1>2. response \o port \in Seq(Pieces)
  BY <1>1
<1>3. ASSUME NEW text \in Seq(Pieces), Accept(text), port' \in Seq(Pieces) PROVE TypeOK'
  BY <1>1, <1>3, AcceptTyped DEF TypeOK
<1>4. ASSUME NEW text \in Seq(Pieces), Refuse(text) PROVE TypeOK'
  BY <1>4, FailPollTyped DEF Refuse, TypeOK
<1>5. CASE ReadPort
  <2>1. port' = <<>> /\ port' \in Seq(Pieces)
    BY <1>5 DEF ReadPort
  <2>2. CASE Accept(response \o port) \/ Refuse(response \o port)
    BY <1>2, <1>3, <1>4, <2>1, <2>2
  <2>3. CASE /\ ~Ended(response \o port) /\ response' = response \o port
             /\ UNCHANGED <<fd, pc, query, status, line, own, late>>
    <3>1. ~Ended(response')
      BY <2>3
    <3>2. QED
      BY <1>1, <1>2, <2>1, <2>3, <3>1 DEF TypeOK, line
  <2>4. QED
    BY <1>5, <2>2, <2>3 DEF ReadPort
<1>6. CASE DeadlinePasses
  <2>1. port' \in Seq(Pieces)
    <3>1. Aged(port, "opened") \in Seq(Pieces)
      BY <1>1, AgedPieces DEF Ages
    <3>2. CASE port' = IF pc' = "idle" THEN Aged(port, "opened") ELSE port
      BY <1>1, <3>1, <3>2
    <3>3. CASE Refuse(response)
      BY <3>3, NothingRead DEF Refuse, FailPoll
    <3>4. QED
      BY <1>6, <3>2, <3>3 DEF DeadlinePasses
  <2>2. QED
    BY <1>1, <1>3, <1>4, <1>6, <2>1 DEF DeadlinePasses
<1>7. QED
  BY <1>5, <1>6

LEMMA DeviceTyped ==
    ASSUME TypeOK,
           \/ StartPoll \/ PollWithoutDevice \/ PollUnconfigured \/ LineFails
           \/ CallOpens \/ CallWrites \/ SendQuery
    PROVE  TypeOK'
<1>1. CASE StartPoll
  <2>1. CASE IsOpen
    BY <1>1, <2>1 DEF StartPoll, IsOpen, TypeOK, line
  <2>2. CASE Open("ready")
    BY <1>1, <2>2, OpenTyped DEF StartPoll, TypeOK
  <2>3. QED
    BY <1>1, <2>1, <2>2 DEF StartPoll
<1>2. CASE PollWithoutDevice
  <2>1. EndPoll("no device", TRUE) /\ UNCHANGED <<fd, line, port, late>>
    BY <1>2 DEF PollWithoutDevice, OpenFails
  <2>2. QED
    BY <2>1, EndPollTyped, NothingRead DEF TypeOK, line
<1>3. CASE PollUnconfigured \/ LineFails
  BY <1>3, FailPollTyped DEF PollUnconfigured, LineFails, TypeOK
<1>4. CASE CallOpens
  BY <1>4, OpenTyped DEF CallOpens, TypeOK
<1>5. CASE CallWrites
  <2> DEFINE m == [command |-> Setter, age |-> "opened"]
  <2>1. m \in Commands
    BY DEF Commands, Ages
  <2>2. toSupply' = Append(toSupply, m) /\ toSupply \in Seq(Commands)
    BY <1>5 DEF CallWrites, TypeOK
  <2> HIDE DEF m
  <2>4. toSupply' \in Seq(Commands)
    BY <2>1, <2>2
  <2>3. QED
    BY <1>5, <2>4 DEF CallWrites, TypeOK
<1>6. CASE SendQuery
  <2>1. Queries[query] \in ToSet(Queries)
    BY QueryFacts DEF TypeOK
  <2> DEFINE m == [command |-> Queries[query], age |-> "poll"]
  <2>2. m \in Commands
    BY <2>1 DEF Commands, Ages
  <2>5. toSupply' = Append(toSupply, m) /\ toSupply \in Seq(Commands)
    BY <1>6 DEF SendQuery, TypeOK
  <2> HIDE DEF m
  <2>3. toSupply' \in Seq(Commands)
    BY <2>2, <2>5
  <2>4. QED
    BY <1>6, <2>3 DEF SendQuery, TypeOK
<1>7. QED
  BY <1>1, <1>2, <1>3, <1>4, <1>5, <1>6

\* The command that the supply takes, and the pieces it answers with.
LEMMA SupplyAnswers ==
    ASSUME TypeOK, SupplyTakesCommand
    PROVE  \E parts \in Replies \cup {<<>>} :
             /\ fromSupply' = fromSupply \o Reply(toSupply[1], parts)
             /\ Reply(toSupply[1], parts) \in Seq(Pieces)
             /\ toSupply[1] \in Commands /\ toSupply # <<>> /\ toSupply' = Tail(toSupply)
             /\ toSupply[1].command = Setter => parts = <<>>
<1>1. toSupply \in Seq(Commands) /\ toSupply # <<>> /\ toSupply' = Tail(toSupply)
  BY DEF SupplyTakesCommand, TypeOK
<1>2. Head(toSupply) = toSupply[1] /\ toSupply[1] \in Commands
  BY <1>1
<1>3. PICK parts \in Replies \cup {<<>>} :
        /\ Head(toSupply).command = Setter => parts = <<>>
        /\ fromSupply' = fromSupply \o Reply(Head(toSupply), parts)
  BY DEF SupplyTakesCommand
<1>4. Reply(toSupply[1], parts) \in Seq(Pieces)
  <2>1. CASE parts = <<>>
    BY <2>1, NoReply, NothingRead
  <2>2. CASE toSupply[1].command # Setter
    BY <1>2, <2>2, ReplyFacts
  <2>3. QED
    BY <1>2, <1>3, <2>1, <2>2
<1>5. QED
  BY <1>1, <1>2, <1>3, <1>4

LEMMA LineTyped ==
    ASSUME TypeOK, SupplyTakesCommand \/ PieceArrives
    PROVE  TypeOK'
<1>1. CASE SupplyTakesCommand
  <2>1. PICK parts \in Replies \cup {<<>>} :
          /\ fromSupply' = fromSupply \o Reply(toSupply[1], parts)
          /\ Reply(toSupply[1], parts) \in Seq(Pieces)
          /\ toSupply # <<>> /\ toSupply' = Tail(toSupply)
    BY <1>1, SupplyAnswers
  <2>2. fromSupply' \in Seq(Pieces) /\ toSupply' \in Seq(Commands)
    <3>1. fromSupply \in Seq(Pieces) /\ toSupply \in Seq(Commands)
      BY DEF TypeOK
    <3>2. fromSupply \o Reply(toSupply[1], parts) \in Seq(Pieces)
      BY <2>1, <3>1, Joined
    <3>3. Tail(toSupply) \in Seq(Commands)
      BY <2>1, <3>1
    <3>4. QED
      BY <2>1, <3>2, <3>3
  <2>3. QED
    BY <1>1, <2>2 DEF SupplyTakesCommand, TypeOK
<1>2. CASE PieceArrives
  <2>1. fromSupply \in Seq(Pieces) /\ fromSupply # <<>> /\ port \in Seq(Pieces)
    BY <1>2 DEF PieceArrives, TypeOK
  <2>2. Append(port, Head(fromSupply)) \in Seq(Pieces) /\ Tail(fromSupply) \in Seq(Pieces)
    BY <2>1
  <2>3. port' \in Seq(Pieces) /\ fromSupply' \in Seq(Pieces) /\ late' \in BOOLEAN
    BY <1>2, <2>1, <2>2 DEF PieceArrives, TypeOK
  <2>4. fd = "closed" => port' = <<>>
    BY <1>2 DEF PieceArrives, TypeOK
  <2>5. QED
    BY <1>2, <2>3, <2>4 DEF PieceArrives, TypeOK
<1>3. QED
  BY <1>1, <1>2

LEMMA NextTyped == TypeOK /\ [Next]_vars => TypeOK'
<1>1. TypeOK /\ UNCHANGED vars => TypeOK'
  BY DEF TypeOK, vars, line, Ended
<1>2. QED
  BY <1>1, AskingTyped, DeviceTyped, LineTyped DEF Next

LEMMA InitTyped == Init => TypeOK
<1>1. SUFFICES ASSUME Init PROVE TypeOK
  OBVIOUS
<1>2. response \in Seq(Pieces) /\ ~Ended(response) /\ query \in DOMAIN Queries
  BY <1>1, NothingRead, QueryFacts DEF Init
<1>3. /\ toSupply \in Seq(Commands) /\ fromSupply \in Seq(Pieces) /\ port \in Seq(Pieces)
  <2>1. toSupply = <<>> /\ fromSupply = <<>> /\ port = <<>>
    BY <1>1 DEF Init
  <2>2. <<>> \in Seq(Commands) /\ <<>> \in Seq(Pieces)
    OBVIOUS
  <2>3. QED
    BY <2>1, <2>2
<1>4. QED
  BY <1>1, <1>2, <1>3 DEF Init, TypeOK

\* The device is open while a poll is under way, and no part of an answer that is waited for
\* has an end of line.
THEOREM Typing == Spec => []TypeOK
<1>1. QED
  BY InitTyped, NextTyped, PTL DEF Spec

-------------------------------------------------------------------------------
(***************************************************************************)
(* The line                                                                *)
(***************************************************************************)
LEMMA StreamTyped ==
    ASSUME TypeOK
    PROVE  /\ response \in Seq(Pieces) /\ port \in Seq(Pieces) /\ fromSupply \in Seq(Pieces)
           /\ Text \in Seq(Pieces) /\ Stream \in Seq(Pieces) /\ port \o fromSupply \in Seq(Pieces)
           /\ Stream = Text \o fromSupply /\ Stream = response \o (port \o fromSupply)
<1>1. response \in Seq(Pieces) /\ port \in Seq(Pieces) /\ fromSupply \in Seq(Pieces)
  BY DEF TypeOK
<1>2. Text \in Seq(Pieces) /\ port \o fromSupply \in Seq(Pieces)
  BY <1>1, Joined DEF Text
<1>3. Stream \in Seq(Pieces) /\ Stream = Text \o fromSupply
  BY <1>1, <1>2, Joined DEF Stream
<1>4. Stream = response \o (port \o fromSupply)
  BY <1>1, Regrouped DEF Stream, Text
<1>5. QED
  BY <1>1, <1>2, <1>3, <1>4

\* The line on which no reply is waited for.
Quiet ==
    /\ NoneCounts(Stream) /\ NoneAsks(toSupply)
    /\ \A i \in DOMAIN Text : Text[i].age # "before"

LEMMA QuietLine ==
    /\ Quiet => LineInv
    /\ Quiet' => LineInv'
    /\ LineInv /\ pc # "receive" => Quiet
BY DEF Quiet, NoneCounts, NoneAsks, LineInv, OldFirst, OneReply, OneCommand

\* Nothing of what is on the line is heard of again before it arrives.
LEMMA OldIsQuiet ==
    ASSUME NEW q \in Seq(Pieces), NEW commands \in Seq(Commands)
    PROVE  NoneCounts(Aged(q, "before")) /\ NoneAsks(Aged(commands, "before"))
<1>1. NoneCounts(Aged(q, "before"))
  BY AgedPieces DEF NoneCounts, Counts, Ages
<1>2. NoneAsks(Aged(commands, "before"))
  BY AgedCommands DEF NoneAsks, Asks, Ages
<1>3. QED
  BY <1>1, <1>2

LEMMA OpenIsQuiet ==
    ASSUME TypeOK, response' = <<>>, NEW state \in {"ready", "raw"}, Open(state)
    PROVE  Quiet'
<1>1. /\ port' = <<>> /\ fromSupply' = Aged(fromSupply, "before")
      /\ toSupply' = Aged(toSupply, "before")
      /\ fromSupply \in Seq(Pieces) /\ toSupply \in Seq(Commands)
  BY DEF Open, TypeOK
<1>2. fromSupply' \in Seq(Pieces)
  BY <1>1, AgedPieces DEF Ages
<1>3. Text' = <<>>
  BY <1>1 DEF Text
<1>4. Stream' = fromSupply'
  BY <1>2, <1>3, Regrouped DEF Stream
<1>5. NoneCounts(fromSupply') /\ NoneAsks(toSupply')
  BY <1>1, OldIsQuiet
<1>6. QED
  BY <1>3, <1>4, <1>5 DEF Quiet, NoneCounts, NoneAsks

LEMMA TrimmedReplies ==
    ASSUME TypeOK
    PROVE  LET m == [command |-> Queries[query], age |-> "poll"]
               piece(part) == [command |-> Queries[query], age |-> "poll", part |-> part]
           IN  /\ Trimmed(Reply(m, <<"whole">>)) = {piece("whole")}
               /\ Trimmed(Reply(m, <<"head", "tail">>)) = {piece("head"), piece("tail")}
<1> DEFINE m == [command |-> Queries[query], age |-> "poll"]
           piece(part) == [command |-> Queries[query], age |-> "poll", part |-> part]
<1>1. /\ DOMAIN Reply(m, <<"whole">>) = {1} /\ Reply(m, <<"whole">>)[1] = piece("whole")
  BY DEF Reply
<1>2. /\ DOMAIN Reply(m, <<"head", "tail">>) = {1, 2}
      /\ Reply(m, <<"head", "tail">>)[1] = piece("head")
      /\ Reply(m, <<"head", "tail">>)[2] = piece("tail")
  BY DEF Reply
<1>3. /\ ToSet(Reply(m, <<"whole">>)) = {piece("whole")}
      /\ ToSet(Reply(m, <<"head", "tail">>)) = {piece("head"), piece("tail")}
  BY <1>1, <1>2 DEF ToSet
<1>4. QED
  BY <1>3 DEF Trimmed

(***************************************************************************)
(* The heart of the matter: a text that is taken for an answer, has more   *)
(* than line feeds in it and is not the first half of a reply alone is the *)
(* whole reply to the query under way, and nothing is left behind it.      *)
(***************************************************************************)
LEMMA TextIsAnswer ==
    ASSUME TypeOK, LineInv, NEW text \in Seq(Pieces), NEW rest \in Seq(Pieces),
           Stream = text \o rest, \A i \in DOMAIN text : text[i].age # "before",
           Trimmed(text) # {}, ~Cut(text)
    PROVE  /\ IsAnswer(text)
           /\ \A i \in DOMAIN rest : rest[i].part = "lf"
           /\ \A i \in DOMAIN toSupply : toSupply[i].command = Setter
<1>1. /\ DOMAIN text = 1 .. Len(text) /\ DOMAIN rest = 1 .. Len(rest)
      /\ Len(text) \in Nat /\ Len(rest) \in Nat
      /\ \A i \in 1 .. Len(text) : i \in DOMAIN Stream /\ Stream[i] = text[i]
      /\ \A i \in 1 .. Len(rest) : /\ Len(text) + i \in DOMAIN Stream
                                   /\ Stream[Len(text) + i] = rest[i]
  BY Joined
<1>2. \A i \in 1 .. Len(text) : text[i] \in Pieces
  OBVIOUS
<1>3. /\ OldFirst /\ OneReply(Stream)
      /\ \A i \in DOMAIN Stream : Counts(Stream[i]) => OfQuery(Stream[i])
      /\ \A i \in DOMAIN toSupply : Asks(toSupply[i]) => NoneCounts(Stream)
  BY DEF LineInv
<1>4. \A p : p \in Trimmed(text) <=> \E i \in 1 .. Len(text) : p = text[i] /\ Counts(text[i])
  BY <1>1 DEF Trimmed, ToSet, Counts
<1> DEFINE piece(part) == [command |-> Queries[query], age |-> "poll", part |-> part]
<1>5. ASSUME NEW i \in 1 .. Len(text), Counts(text[i]) PROVE text[i] = piece(text[i].part)
  BY <1>1, <1>2, <1>3, <1>5 DEF OfQuery, Pieces
<1>6. ASSUME NEW n \in 1 .. Len(text), Counts(text[n]), text[n].part \in {"whole", "tail"}
      PROVE  /\ \A i \in DOMAIN rest : rest[i].part = "lf"
             /\ \A i \in DOMAIN toSupply : toSupply[i].command = Setter
  <2>1. n \in DOMAIN Stream /\ Counts(Stream[n]) /\ Stream[n].part # "head"
    BY <1>1, <1>6
  <2>2. ASSUME NEW i \in 1 .. Len(rest) PROVE rest[i].part = "lf"
    <3>1. /\ Len(text) + i \in DOMAIN Stream /\ n < Len(text) + i
          /\ Stream[Len(text) + i] = rest[i]
      BY <1>1
    <3>2. rest[i].age # "before"
      BY <1>3, <2>1, <3>1 DEF OldFirst
    <3>3. ~Counts(rest[i])
      BY <1>3, <2>1, <3>1 DEF OneReply
    <3>4. QED
      BY <3>2, <3>3 DEF Counts
  <2>3. ASSUME NEW i \in DOMAIN toSupply PROVE toSupply[i].command = Setter
    BY <1>3, <2>1 DEF OldFirst, NoneCounts, Asks
  <2>4. QED
    BY <1>1, <2>2, <2>3
<1>7. ASSUME NEW n \in 1 .. Len(text), Counts(text[n]), text[n].part = "whole"
      PROVE  IsAnswer(text)
  <2>1. ASSUME NEW i \in 1 .. Len(text), Counts(text[i]) PROVE i = n
    <3>1. i < n => FALSE
      BY <1>1, <1>3, <1>7, <2>1 DEF OneReply
    <3>2. n < i => FALSE
      BY <1>1, <1>3, <1>7, <2>1 DEF OneReply
    <3>3. QED
      BY <3>1, <3>2
  <2>2. \A p : p \in Trimmed(text) <=> p = piece("whole")
    <3>1. text[n] = piece("whole")
      BY <1>5, <1>7
    <3>2. QED
      BY <1>4, <1>7, <2>1, <3>1
  <2>3. Trimmed(text) = {piece("whole")}
    BY <2>2
  <2>4. QED
    BY <2>3, TrimmedReplies DEF IsAnswer, Replies
<1>8. ASSUME NEW n \in 1 .. Len(text), Counts(text[n]), text[n].part = "tail"
      PROVE  IsAnswer(text)
  <2>1. PICK m \in 1 .. Len(text) : m < n /\ Counts(text[m]) /\ text[m].part = "head"
    <3>1. PICK m \in DOMAIN Stream : m < n /\ Counts(Stream[m]) /\ Stream[m].part = "head"
      BY <1>1, <1>3, <1>8 DEF OneReply
    <3>2. m \in 1 .. Len(text)
      BY <1>1, <3>1, StreamTyped
    <3>3. QED
      BY <1>1, <3>1, <3>2
  <2>2. ASSUME NEW i \in 1 .. Len(text), Counts(text[i]) PROVE i = n \/ i = m
    <3>1. \A k, l \in 1 .. Len(text) : k < l /\ Counts(text[k]) /\ Counts(text[l]) =>
            text[k].part = "head" /\ text[l].part = "tail"
      <4>1. \A k, l \in DOMAIN Stream : k < l /\ Counts(Stream[k]) /\ Counts(Stream[l]) =>
              Stream[k].part = "head" /\ Stream[l].part = "tail"
        BY <1>3, Zenon DEF OneReply
      <4>2. \A k \in 1 .. Len(text) : k \in DOMAIN Stream /\ Stream[k] = text[k]
        BY <1>1, Zenon
      <4>3. ASSUME NEW k \in 1 .. Len(text), NEW l \in 1 .. Len(text),
                   k < l, Counts(text[k]), Counts(text[l])
            PROVE  text[k].part = "head" /\ text[l].part = "tail"
        <5>1. /\ k \in DOMAIN Stream /\ Stream[k] = text[k]
              /\ l \in DOMAIN Stream /\ Stream[l] = text[l]
          BY <4>2
        <5>2. Stream[k].part = "head" /\ Stream[l].part = "tail"
          BY <4>1, <4>3, <5>1, Zenon
        <5>3. QED
          BY <5>1, <5>2, Zenon
      <4>4. QED
        BY <4>3
    <3>2. ~(i < m)
      BY <2>1, <2>2, <3>1
    <3>3. ~(m < i /\ i < n)
      <4>1. m < i => text[i].part = "tail"
        BY <2>1, <2>2, <3>1
      <4>2. i < n => text[i].part = "head"
        BY <1>8, <2>2, <3>1
      <4>3. QED
        BY <4>1, <4>2
    <3>4. ~(n < i)
      BY <1>8, <2>2, <3>1
    <3>5. QED
      BY <3>2, <3>3, <3>4
  <2>3. \A p : p \in Trimmed(text) <=> p = piece("head") \/ p = piece("tail")
    <3>1. text[m] = piece("head") /\ text[n] = piece("tail")
      BY <1>5, <1>8, <2>1
    <3>2. QED
      BY <1>4, <1>8, <2>1, <2>2, <3>1
  <2>4. Trimmed(text) = {piece("head"), piece("tail")}
    BY <2>3
  <2>5. QED
    BY <2>4, TrimmedReplies DEF IsAnswer, Replies
<1>9. PICK n \in 1 .. Len(text) : Counts(text[n]) /\ text[n].part \in {"whole", "tail"}
  <2>1. PICK p \in Trimmed(text) : TRUE
    OBVIOUS
  <2>2. PICK i \in 1 .. Len(text) : p = text[i] /\ Counts(text[i])
    BY <1>4, <2>1
  <2>3. p.part \in {"whole", "head", "tail"}
    BY <1>2, <2>2 DEF Pieces, Counts
  <2>4. CASE p.part # "head"
    BY <2>2, <2>3, <2>4
  <2>5. CASE p.part = "head"
    <3>1. [p EXCEPT !.part = "tail"] \in Trimmed(text)
      BY <2>1, <2>5 DEF Cut
    <3>2. PICK j \in 1 .. Len(text) : [p EXCEPT !.part = "tail"] = text[j] /\ Counts(text[j])
      BY <1>4, <3>1
    <3>3. p \in Pieces
      BY <1>2, <2>2
    <3>4. text[j].part = "tail"
      BY <3>2, <3>3 DEF Pieces
    <3>5. QED
      BY <3>2, <3>4
  <2>6. QED
    BY <2>4, <2>5
<1>10. QED
  BY <1>6, <1>7, <1>8, <1>9

-------------------------------------------------------------------------------
(***************************************************************************)
(* The steps                                                               *)
(***************************************************************************)
LineFeeds(pieces) == \A i \in DOMAIN pieces : pieces[i].part = "lf"
Settings(commands) == \A i \in DOMAIN commands : commands[i].command = Setter

\* What a poll leaves on the line.
LEMMA AgedQuiet ==
    ASSUME NEW q \in Seq(Pieces), NEW commands \in Seq(Commands)
    PROVE  /\ LineFeeds(q) => LineFeeds(Aged(q, "opened"))
           /\ Settings(commands) => Settings(Aged(commands, "opened"))
<1>1. "opened" \in Ages
  BY DEF Ages
<1>2. LineFeeds(q) => LineFeeds(Aged(q, "opened"))
  <2>1. /\ DOMAIN Aged(q, "opened") = DOMAIN q
        /\ \A i \in DOMAIN q : Aged(q, "opened")[i].part = q[i].part
    BY <1>1, AgedPieces
  <2>2. QED
    BY <2>1 DEF LineFeeds
<1>3. Settings(commands) => Settings(Aged(commands, "opened"))
  BY <1>1, AgedCommands DEF Settings
<1>4. QED
  BY <1>2, <1>3

LEMMA LineFeedsQuiet ==
    ASSUME TypeOK', response' = <<>>, LineFeeds(port'), LineFeeds(fromSupply'), Settings(toSupply'),
           \A i \in DOMAIN port' : port'[i].age # "before"
    PROVE  Quiet'
<1>1. port' \in Seq(Pieces) /\ fromSupply' \in Seq(Pieces)
  BY DEF TypeOK
<1>2. Text' = port'
  BY <1>1, Regrouped DEF Text
<1>3. Stream' = port' \o fromSupply'
  BY <1>2 DEF Stream
<1>4. \A i \in DOMAIN Stream' : Stream'[i].part = "lf"
  BY <1>1, <1>3, Joined DEF LineFeeds
<1>5. QED
  BY <1>2, <1>4 DEF Quiet, NoneCounts, NoneAsks, Counts, Asks, Settings

LEMMA AcceptKeeps ==
    ASSUME PowerInv, TypeOK', pc = "receive", NEW text \in Seq(Pieces), NEW rest \in Seq(Pieces),
           Stream = text \o rest, ~late => \A i \in DOMAIN text : text[i].age # "before",
           Accept(text),
           LineFeeds(rest) => LineFeeds(port') /\ LineFeeds(fromSupply'),
           ~late => \A i \in DOMAIN port' : port'[i].age # "before"
    PROVE  PowerInv'
<1>1. /\ fd # "closed" /\ fd' = fd /\ late' = (late \/ Cut(text)) /\ Trimmed(text) # {}
      /\ toSupply \in Seq(Commands)
  BY DEF PowerInv, TypeOK, Accept
<1>2. /\ response' = <<>> /\ pc' # "receive"
      /\ toSupply' = toSupply \/ toSupply' = Aged(toSupply, "opened")
      /\ \/ pc' = "send" /\ own' = (own /\ IsAnswer(text)) /\ status' = status
         \/ pc' = "idle" /\ own' = TRUE /\ status' = [message |-> "ok", own |-> own /\ IsAnswer(text)]
  BY DEF Accept, EndPoll, LeaveLine, line
<1>3. CASE late'
  BY <1>1, <1>2, <1>3 DEF PowerInv
<1>4. CASE ~late'
  <2>1. ~late /\ own /\ LineInv /\ ~Cut(text)
    BY <1>1, <1>4 DEF PowerInv
  <2>2. IsAnswer(text) /\ LineFeeds(rest) /\ Settings(toSupply)
    BY <1>1, <2>1, TextIsAnswer DEF PowerInv, LineFeeds, Settings
  <2>3. Settings(toSupply')
    BY <1>1, <1>2, <2>2, AgedQuiet, NothingRead
  <2>4. LineInv'
    BY <1>2, <2>1, <2>2, <2>3, LineFeedsQuiet, QuietLine
  <2>5. own' /\ (status'.message = "ok" => status'.own)
    <3>1. (own /\ IsAnswer(text)) = TRUE /\ (status.message = "ok" => status.own)
      BY <2>1, <2>2 DEF PowerInv
    <3>2. CASE pc' = "send" /\ own' = (own /\ IsAnswer(text)) /\ status' = status
      BY <3>1, <3>2
    <3>3. CASE own' = TRUE /\ status' = [message |-> "ok", own |-> own /\ IsAnswer(text)]
      BY <3>1, <3>3
    <3>4. QED
      BY <1>2, <3>2, <3>3
  <2>6. QED
    BY <1>1, <1>2, <2>4, <2>5 DEF PowerInv
<1>5. QED
  BY <1>3, <1>4

\* A poll that fails closes the device.
LEMMA FailKeeps ==
    ASSUME PowerInv, TypeOK', FailPoll
    PROVE  PowerInv'
BY DEF FailPoll, EndPoll, PowerInv

LEMMA AskingKeeps ==
    ASSUME PowerInv, TypeOK', ReadPort \/ DeadlinePasses
    PROVE  PowerInv'
<1>1. /\ pc = "receive" /\ fd # "closed"
      /\ response \in Seq(Pieces) /\ port \in Seq(Pieces) /\ fromSupply \in Seq(Pieces)
      /\ Text \in Seq(Pieces) /\ Stream \in Seq(Pieces) /\ port \o fromSupply \in Seq(Pieces)
      /\ Stream = Text \o fromSupply /\ Stream = response \o (port \o fromSupply)
  BY StreamTyped DEF ReadPort, DeadlinePasses, PowerInv, TypeOK
<1>2. ~late => \A i \in DOMAIN Text : Text[i].age # "before"
  BY <1>1 DEF PowerInv, LineInv
<1>3. ~late => /\ \A i \in DOMAIN response : response[i].age # "before"
               /\ \A i \in DOMAIN port : port[i].age # "before"
  <2>1. ASSUME ~late, NEW i \in DOMAIN response PROVE response[i].age # "before"
    <3>1. i \in DOMAIN Text /\ Text[i] = response[i]
      BY <1>1, Joined DEF Text
    <3>2. QED
      BY <1>2, <2>1, <3>1
  <2>2. ASSUME ~late, NEW i \in DOMAIN port PROVE port[i].age # "before"
    <3>1. Len(response) + i \in DOMAIN Text /\ Text[Len(response) + i] = port[i]
      BY <1>1, Joined DEF Text
    <3>2. QED
      BY <1>2, <2>2, <3>1
  <2>3. QED
    BY <2>1, <2>2
<1>4. ASSUME NEW text, Refuse(text) PROVE PowerInv'
  BY <1>4, FailKeeps DEF Refuse
<1>5. CASE ReadPort
  <2>1. port' = <<>>
    BY <1>5 DEF ReadPort
  <2>2. CASE Accept(Text)
    <3>1. fromSupply' = fromSupply \/ fromSupply' = Aged(fromSupply, "opened")
      BY <2>2 DEF Accept, LeaveLine, line
    <3>2. LineFeeds(fromSupply) => LineFeeds(port') /\ LineFeeds(fromSupply')
      <4>1. LineFeeds(fromSupply) => LineFeeds(fromSupply')
        BY <1>1, <3>1, AgedQuiet DEF PowerInv, TypeOK
      <4>2. LineFeeds(<<>>)
        BY DEF LineFeeds
      <4>3. QED
        BY <2>1, <4>1, <4>2
    <3>3. \A i \in DOMAIN port' : port'[i].age # "before"
      BY <2>1
    <3>4. QED
      BY <1>1, <1>2, <2>2, <3>2, <3>3, AcceptKeeps
  <2>3. CASE Refuse(Text)
    BY <1>4, <2>3
  <2>4. CASE response' = Text /\ UNCHANGED <<fd, pc, query, status, line, own, late>>
    <3>1. Text' = Text
      BY <1>1, <2>1, <2>4, Regrouped DEF Text
    <3>2. Stream' = Stream
      BY <2>4, <3>1 DEF Stream, line
    <3>3. LineInv => LineInv'
      BY <2>4, <3>1, <3>2
         DEF LineInv, OldFirst, OfQuery, NoneCounts, line
    <3>4. QED
      BY <1>1, <2>4, <3>3 DEF PowerInv
  <2>5. QED
    BY <1>5, <2>2, <2>3, <2>4 DEF ReadPort, Text
<1>6. CASE DeadlinePasses
  <2>1. CASE Accept(response) /\ port' = IF pc' = "idle" THEN Aged(port, "opened") ELSE port
    <3>1. fromSupply' = fromSupply \/ fromSupply' = Aged(fromSupply, "opened")
      BY <2>1 DEF Accept, LeaveLine, line
    <3>2. ASSUME LineFeeds(port \o fromSupply) PROVE LineFeeds(port') /\ LineFeeds(fromSupply')
      <4>1. LineFeeds(port) /\ LineFeeds(fromSupply)
        <5>1. \A i \in DOMAIN port : i \in DOMAIN (port \o fromSupply) /\ (port \o fromSupply)[i] = port[i]
          BY <1>1, Joined
        <5>2. \A i \in DOMAIN fromSupply :
                /\ Len(port) + i \in DOMAIN (port \o fromSupply)
                /\ (port \o fromSupply)[Len(port) + i] = fromSupply[i]
          BY <1>1, Joined
        <5>3. QED
          BY <3>2, <5>1, <5>2 DEF LineFeeds
      <4>2. QED
        BY <1>1, <2>1, <3>1, <4>1, AgedQuiet DEF PowerInv, TypeOK
    <3>3. ~late => \A i \in DOMAIN port' : port'[i].age # "before"
      BY <1>1, <1>3, <2>1, AgedPieces DEF Ages
    <3>4. QED
      BY <1>1, <1>3, <2>1, <3>2, <3>3, AcceptKeeps
  <2>2. QED
    BY <1>4, <1>6, <2>1 DEF DeadlinePasses
<1>7. QED
  BY <1>5, <1>6

LEMMA DeviceKeeps ==
    ASSUME PowerInv, TypeOK',
           StartPoll \/ PollWithoutDevice \/ PollUnconfigured \/ LineFails \/ CallOpens
    PROVE  PowerInv'
<1>1. CASE PollUnconfigured \/ LineFails
  BY <1>1, FailKeeps DEF PollUnconfigured, LineFails
<1>2. CASE PollWithoutDevice
  BY <1>2 DEF PollWithoutDevice, OpenFails, EndPoll, PowerInv
<1>3. ASSUME pc = "idle", NEW state \in {"ready", "raw"}, Open(state), pc' # "receive",
             UNCHANGED <<query, response, status, own>>
      PROVE  PowerInv'
  <2>1. response' = <<>> /\ own' /\ late' = FALSE /\ status.message # "ok" /\ fd' # "closed"
    BY <1>3 DEF Open, PowerInv
  <2>2. LineInv'
    BY <1>3, <2>1, OpenIsQuiet, QuietLine DEF PowerInv
  <2>3. QED
    BY <1>3, <2>1, <2>2 DEF PowerInv
<1>4. CASE StartPoll /\ IsOpen
  <2>1. UNCHANGED <<fd, line, port, late, query, response, status, own>> /\ pc = "idle" /\ pc' = "send"
    BY <1>4 DEF StartPoll, IsOpen
  <2>2. Quiet => Quiet'
    BY <2>1 DEF Quiet, NoneCounts, NoneAsks, Stream, Text, line
  <2>3. LineInv => LineInv'
    BY <2>1, <2>2, QuietLine
  <2>4. QED
    BY <2>1, <2>3 DEF PowerInv
<1>5. CASE StartPoll /\ Open("ready")
  BY <1>3, <1>5 DEF StartPoll
<1>6. CASE CallOpens
  BY <1>3, <1>6 DEF CallOpens
<1>7. QED
  BY <1>1, <1>2, <1>4, <1>5, <1>6 DEF StartPoll

LEMMA SendKeeps ==
    ASSUME PowerInv, TypeOK', SendQuery \/ CallWrites
    PROVE  PowerInv'
<1>1. /\ pc # "receive" /\ fd # "closed" /\ toSupply \in Seq(Commands)
      /\ UNCHANGED <<fd, query, response, status, fromSupply, port, own, late>>
  BY DEF SendQuery, CallWrites, PowerInv, TypeOK
<1>2. PICK m : /\ toSupply' = Append(toSupply, m) /\ m.age # "before"
               /\ m.command = Setter \/ (pc' = "receive" /\ OfQuery(m))
  <2>1. CASE SendQuery
    BY <2>1 DEF SendQuery, OfQuery
  <2>2. CASE CallWrites
    BY <2>2 DEF CallWrites
  <2>3. QED
    BY <2>1, <2>2
<1>3. LineInv => LineInv'
  <2>1. SUFFICES ASSUME LineInv PROVE LineInv'
    OBVIOUS
  <2>2. Quiet
    BY <1>1, <2>1, QuietLine
  <2>3. Text' = Text /\ Stream' = Stream /\ NoneCounts(Stream)
    BY <1>1, <2>2 DEF Stream, Text, Quiet
  <2>4. /\ DOMAIN toSupply' = 1 .. Len(toSupply) + 1 /\ DOMAIN toSupply = 1 .. Len(toSupply)
        /\ Len(toSupply) \in Nat
        /\ \A i \in 1 .. Len(toSupply) : toSupply'[i] = toSupply[i]
        /\ toSupply'[Len(toSupply) + 1] = m
    BY <1>1, <1>2
  <2>5. ASSUME NEW i \in DOMAIN toSupply', Asks(toSupply'[i])
        PROVE  i = Len(toSupply) + 1 /\ pc' = "receive" /\ OfQuery(m)
    <3>1. i \in 1 .. Len(toSupply) \/ i = Len(toSupply) + 1
      BY <2>4
    <3>2. i \notin 1 .. Len(toSupply)
      BY <2>2, <2>4, <2>5 DEF Quiet, NoneAsks
    <3>3. QED
      BY <1>2, <2>4, <2>5, <3>1, <3>2 DEF Asks
  <2>6. OldFirst'
    <3>1. \A i, j \in DOMAIN toSupply' :
            i < j /\ Asks(toSupply'[i]) => toSupply'[j].age # "before"
      BY <2>4, <2>5
    <3>2. QED
      BY <2>3, <3>1 DEF OldFirst, NoneCounts
  <2>7. OneCommand(toSupply')
    BY <2>5 DEF OneCommand
  <2>8. (\A i \in DOMAIN toSupply :
           Asks(toSupply[i]) => pc = "receive" /\ OfQuery(toSupply[i]) /\ NoneCounts(Stream))'
    <3>1. NoneCounts(Stream)'
      BY <2>3 DEF NoneCounts
    <3>2. QED
      BY <1>1, <2>4, <2>5, <3>1 DEF OfQuery
  <2>9. QED
    <3>1. OneReply(Stream)' /\ (\A i \in DOMAIN Stream : ~Counts(Stream[i]))'
      BY <2>3 DEF OneReply, NoneCounts
    <3>2. (\A i \in DOMAIN Text : Text[i].age # "before")'
      BY <2>2, <2>3 DEF Quiet
    <3>3. QED
      BY <2>6, <2>7, <2>8, <3>1, <3>2 DEF LineInv
<1>4. pc' # "receive" => response' = <<>>
  BY <1>1 DEF PowerInv
<1>5. pc' = "idle" => own'
  BY DEF SendQuery, CallWrites, PowerInv
<1>6. QED
  BY <1>1, <1>3, <1>4, <1>5 DEF PowerInv

LEMMA PieceArrivesKeeps ==
    ASSUME PowerInv, TypeOK', PieceArrives
    PROVE  PowerInv'
<1>1. /\ response \in Seq(Pieces) /\ port \in Seq(Pieces) /\ fromSupply \in Seq(Pieces)
      /\ fromSupply # <<>> /\ Text \in Seq(Pieces)
      /\ UNCHANGED <<fd, pc, query, response, status, toSupply, own>>
  BY StreamTyped DEF PieceArrives, PowerInv, TypeOK
<1>2. CASE fd = "closed"
  BY <1>1, <1>2 DEF PieceArrives, PowerInv
<1>3. CASE fd # "closed"
  <2>1. /\ port' = Append(port, Head(fromSupply)) /\ fromSupply' = Tail(fromSupply)
        /\ late' = (late \/ Head(fromSupply).age = "before")
    BY <1>3 DEF PieceArrives
  <2>2. Stream' = Stream
    <3>1. (response \o Append(port, Head(fromSupply))) \o Tail(fromSupply)
            = (response \o port) \o fromSupply
      <4>1. ASSUME NEW p \in Seq(Pieces), NEW q \in Seq(Pieces), NEW r \in Seq(Pieces), r # <<>>
            PROVE  (p \o Append(q, Head(r))) \o Tail(r) = (p \o q) \o r
        BY <4>1, Passed, SMTT(60)
      <4>2. QED
        BY <1>1, <4>1, Zenon
    <3>2. QED
      BY <1>1, <2>1, <3>1 DEF Stream, Text
  <2>3. ASSUME ~late' PROVE \A i \in DOMAIN Text' : Text'[i].age # "before"
    <3>1. ~late /\ Head(fromSupply).age # "before"
      BY <2>1, <2>3
    <3>2. \A i \in DOMAIN Text : Text[i].age # "before"
      BY <1>3, <3>1 DEF PowerInv, LineInv
    <3>3. port' \in Seq(Pieces)
      BY DEF TypeOK
    <3>4. \A i \in DOMAIN port' : (i \in DOMAIN port /\ port'[i] = port[i]) \/ port'[i] = Head(fromSupply)
      BY <1>1, <2>1
    <3>5. ASSUME NEW i \in DOMAIN Text' PROVE Text'[i].age # "before"
      <4>1. Text' = response \o port'
        BY <1>1 DEF Text
      <4>2. CASE i \in 1 .. Len(response)
        <5>1. Text'[i] = response[i]
          BY <1>1, <3>3, <4>1, <4>2, Joined
        <5>2. i \in DOMAIN Text /\ Text[i] = response[i]
          BY <1>1, <4>2, Joined DEF Text
        <5>3. QED
          BY <3>2, <5>1, <5>2
      <4>3. CASE i \notin 1 .. Len(response)
        <5>1. i - Len(response) \in 1 .. Len(port') /\ Text'[i] = port'[i - Len(response)]
          BY <1>1, <3>3, <3>5, <4>1, <4>3, Joined
        <5> DEFINE j == i - Len(response)
        <5>2. j \in DOMAIN port'
          BY <3>3, <5>1
        <5>3. CASE port'[j] = Head(fromSupply)
          BY <3>1, <5>1, <5>3
        <5>4. CASE j \in DOMAIN port /\ port'[j] = port[j]
          <6>1. Len(response) + j \in DOMAIN Text /\ Text[Len(response) + j] = port[j]
            BY <1>1, <5>4, Joined DEF Text
          <6>2. QED
            BY <3>2, <5>1, <5>4, <6>1
        <5>5. QED
          BY <3>4, <5>2, <5>3, <5>4
      <4>4. QED
        BY <4>2, <4>3
    <3>6. QED
      BY <3>5
  <2>4. ASSUME ~late' PROVE own' /\ LineInv'
    <3>1. own /\ LineInv
      BY <1>3, <2>1, <2>4 DEF PowerInv
    <3>2. QED
      BY <1>1, <2>2, <2>3, <2>4, <3>1 DEF LineInv, OldFirst, OfQuery
  <2>5. late => late'
    BY <2>1
  <2>6. QED
    BY <1>1, <1>3, <2>4, <2>5 DEF PowerInv
<1>4. QED
  BY <1>2, <1>3

\* The reply to one command is in order by itself.
LEMMA ReplyInOrder ==
    ASSUME NEW m \in Commands, m.command # Setter, NEW parts \in Replies \cup {<<>>}
    PROVE  OneReply(Reply(m, parts))
<1> DEFINE q == Reply(m, parts)
<1>1. DOMAIN q = DOMAIN parts /\ \A i \in DOMAIN parts : q[i].part = parts[i] /\ q[i].age = m.age
  BY ReplyFacts
<1> HIDE DEF q
<1>2. CASE parts = <<>>
  <2>1. DOMAIN q = {}
    BY <1>1, <1>2
  <2>2. QED
    BY <2>1 DEF OneReply, q
<1>3. CASE parts = <<"whole">>
  <2>1. DOMAIN q = {1} /\ q[1].part = "whole"
    BY <1>1, <1>3
  <2>2. QED
    BY <2>1 DEF OneReply, q
<1>4. CASE parts = <<"head", "tail">>
  <2>1. DOMAIN q = {1, 2} /\ q[1].part = "head" /\ q[2].part = "tail" /\ q[1].age = q[2].age
    BY <1>1, <1>4
  <2>2. QED
    BY <2>1 DEF OneReply, Counts, q
<1>5. CASE parts = <<"whole", "lf">>
  <2>1. DOMAIN q = {1, 2} /\ q[1].part = "whole" /\ q[2].part = "lf"
    BY <1>1, <1>5
  <2>2. QED
    BY <2>1 DEF OneReply, Counts, q
<1>6. QED
  BY <1>2, <1>3, <1>4, <1>5 DEF Replies

LEMMA OneReplyJoined ==
    ASSUME NEW p \in Seq(Pieces), NEW q \in Seq(Pieces), OneReply(p), OneReply(q),
           NoneCounts(p) \/ NoneCounts(q)
    PROVE  OneReply(p \o q)
<1> DEFINE s == p \o q
<1>1. /\ DOMAIN p = 1 .. Len(p) /\ DOMAIN q = 1 .. Len(q) /\ Len(p) \in Nat /\ Len(q) \in Nat
      /\ DOMAIN s = 1 .. Len(p) + Len(q)
      /\ \A i \in 1 .. Len(p) : s[i] = p[i]
      /\ \A i \in 1 .. Len(q) : s[Len(p) + i] = q[i]
  BY Joined
<1> HIDE DEF s
<1>2. ASSUME NEW i \in DOMAIN s
      PROVE  i \in DOMAIN p \/ (i > Len(p) /\ i - Len(p) \in DOMAIN q /\ s[i] = q[i - Len(p)])
  <2>1. CASE i > Len(p)
    <3>1. i - Len(p) \in 1 .. Len(q) /\ Len(p) + (i - Len(p)) = i
      BY <1>1, <2>1
    <3>2. QED
      BY <1>1, <2>1, <3>1
  <2>2. QED
    BY <1>1, <2>1
<1>3. ASSUME NEW i \in DOMAIN s, NEW j \in DOMAIN s, i < j, Counts(s[i]), Counts(s[j])
      PROVE  s[i].part = "head" /\ s[j].part = "tail"
  <2>1. CASE i \in DOMAIN p /\ j \in DOMAIN p
    BY <1>1, <1>3, <2>1 DEF OneReply
  <2>2. CASE i \notin DOMAIN p /\ j \notin DOMAIN p
    <3>1. i - Len(p) \in DOMAIN q /\ j - Len(p) \in DOMAIN q /\ i - Len(p) < j - Len(p)
      BY <1>1, <1>2, <1>3, <2>2
    <3>2. s[i] = q[i - Len(p)] /\ s[j] = q[j - Len(p)]
      BY <1>2, <2>2
    <3>3. QED
      BY <1>3, <3>1, <3>2 DEF OneReply
  <2>3. CASE i \in DOMAIN p /\ j \notin DOMAIN p
    BY <1>1, <1>2, <1>3, <2>3 DEF NoneCounts
  <2>4. CASE i \notin DOMAIN p /\ j \in DOMAIN p
    BY <1>1, <1>2, <1>3, <2>4
  <2>5. QED
    BY <2>1, <2>2, <2>3, <2>4
<1>4. ASSUME NEW j \in DOMAIN s, Counts(s[j]), s[j].part = "tail"
      PROVE  \E i \in DOMAIN s : i < j /\ Counts(s[i]) /\ s[i].part = "head"
  <2>1. CASE j \in DOMAIN p
    <3>1. PICK i \in DOMAIN p : i < j /\ Counts(p[i]) /\ p[i].part = "head"
      BY <1>1, <1>4, <2>1 DEF OneReply
    <3>2. i \in DOMAIN s /\ s[i] = p[i]
      BY <1>1
    <3>3. QED
      BY <3>1, <3>2
  <2>2. CASE j \notin DOMAIN p
    <3>1. j - Len(p) \in DOMAIN q /\ s[j] = q[j - Len(p)]
      BY <1>2, <2>2
    <3>2. PICK i \in DOMAIN q : i < j - Len(p) /\ Counts(q[i]) /\ q[i].part = "head"
      BY <1>4, <3>1 DEF OneReply
    <3>3. Len(p) + i \in DOMAIN s /\ s[Len(p) + i] = q[i] /\ Len(p) + i < j
      BY <1>1, <3>2
    <3>4. QED
      BY <3>2, <3>3
  <2>3. QED
    BY <2>1, <2>2
<1>5. OneReply(s)
  BY <1>3, <1>4 DEF OneReply
<1>6. QED
  BY <1>5 DEF s

LEMMA SupplyKeepsLine ==
    ASSUME TypeOK, LineInv, SupplyTakesCommand
    PROVE  LineInv'
<1> DEFINE m == toSupply[1]
<1>1. PICK parts \in Replies \cup {<<>>} :
        /\ fromSupply' = fromSupply \o Reply(m, parts) /\ Reply(m, parts) \in Seq(Pieces)
        /\ m \in Commands /\ toSupply # <<>> /\ toSupply' = Tail(toSupply)
        /\ m.command = Setter => parts = <<>>
  BY SupplyAnswers
<1> DEFINE new == Reply(m, parts)
<1>2. UNCHANGED <<pc, query, response, port>> /\ Text' = Text
  BY DEF SupplyTakesCommand, Text
<1>3. /\ Text \in Seq(Pieces) /\ fromSupply \in Seq(Pieces) /\ Stream \in Seq(Pieces)
      /\ new \in Seq(Pieces) /\ Stream = Text \o fromSupply /\ toSupply \in Seq(Commands)
  BY <1>1, StreamTyped DEF TypeOK
<1>4. Stream' = Stream \o new
  <2>1. \A x, y, z \in Seq(Pieces) : x \o (y \o z) = (x \o y) \o z
    OBVIOUS
  <2>2. Stream' = Text \o (fromSupply \o new)
    BY <1>1, <1>2, Zenon DEF Stream
  <2>3. QED
    BY <1>3, <2>1, <2>2, ZenonT(60)
<1>5. \A i \in DOMAIN new : new[i].command = m.command /\ new[i].age = m.age /\ m.command # Setter
  <2>1. CASE m.command = Setter
    BY <1>1, <2>1, NoReply
  <2>2. CASE m.command # Setter
    BY <1>1, <2>2, ReplyFacts
  <2>3. QED
    BY <2>1, <2>2
<1>6. OneReply(new)
  <2>1. CASE m.command = Setter
    <3>1. new = <<>>
      BY <1>1, <2>1, NoReply
    <3>2. QED
      BY <3>1 DEF OneReply
  <2>2. CASE m.command # Setter
    BY <1>1, <2>2, ReplyInOrder
  <2>3. QED
    BY <2>1, <2>2
<1> HIDE DEF new
<1>7. /\ 1 \in DOMAIN toSupply
      /\ \A i \in DOMAIN toSupply' : i + 1 \in DOMAIN toSupply /\ toSupply'[i] = toSupply[i + 1] /\ 1 < i + 1
  BY <1>1, <1>3
<1>8. /\ DOMAIN Stream = 1 .. Len(Stream) /\ DOMAIN new = 1 .. Len(new)
      /\ Len(Stream) \in Nat /\ Len(new) \in Nat
      /\ \A i \in DOMAIN Stream' : \/ i \in DOMAIN Stream /\ Stream'[i] = Stream[i]
                                   \/ /\ i - Len(Stream) \in DOMAIN new /\ i > Len(Stream)
                                      /\ Stream'[i] = new[i - Len(Stream)]
  <2>1. /\ DOMAIN Stream = 1 .. Len(Stream) /\ DOMAIN new = 1 .. Len(new)
        /\ Len(Stream) \in Nat /\ Len(new) \in Nat
        /\ \A i \in 1 .. Len(Stream) : (Stream \o new)[i] = Stream[i]
        /\ \A i \in DOMAIN (Stream \o new) :
             \/ i \in 1 .. Len(Stream)
             \/ i - Len(Stream) \in 1 .. Len(new) /\ (Stream \o new)[i] = new[i - Len(Stream)]
    BY <1>3, Joined
  <2>2. QED
    BY <1>4, <2>1
<1>9. /\ OldFirst /\ OneReply(Stream) /\ OneCommand(toSupply)
      /\ \A i \in DOMAIN Stream : Counts(Stream[i]) => pc = "receive" /\ OfQuery(Stream[i])
      /\ \A i \in DOMAIN Text : Text[i].age # "before"
      /\ \A i \in DOMAIN toSupply :
           Asks(toSupply[i]) => pc = "receive" /\ OfQuery(toSupply[i]) /\ NoneCounts(Stream)
  BY DEF LineInv
<1>10. ASSUME NEW i \in DOMAIN new, Counts(new[i])
       PROVE  Asks(m) /\ NoneCounts(Stream)
  <2>1. Asks(m)
    BY <1>5, <1>10 DEF Asks, Counts
  <2>2. QED
    BY <1>7, <1>9, <2>1
<1>11. NoneCounts(Stream) \/ NoneCounts(new)
  BY <1>10 DEF NoneCounts
<1>12. OneReply(Stream')
  BY <1>3, <1>4, <1>6, <1>9, <1>11, OneReplyJoined
<1>13. ASSUME NEW i \in DOMAIN Stream', Counts(Stream'[i])
       PROVE  /\ pc = "receive" /\ OfQuery(Stream'[i])
              /\ \A j \in DOMAIN toSupply' : toSupply'[j].age # "before" /\ ~Asks(toSupply'[j])
              /\ \A j \in DOMAIN Stream' : i < j => Stream'[j].age # "before"
  <2>1. CASE i \in DOMAIN Stream /\ Stream'[i] = Stream[i]
    <3>1. \A j \in DOMAIN toSupply : toSupply[j].age # "before" /\ ~Asks(toSupply[j])
      BY <1>9, <1>13, <2>1 DEF OldFirst, NoneCounts
    <3>2. \A j \in DOMAIN new : FALSE
      BY <1>5, <1>7, <3>1 DEF Asks
    <3>3. \A j \in DOMAIN Stream : i < j => Stream[j].age # "before"
      BY <1>9, <1>13, <2>1 DEF OldFirst
    <3>4. \A j \in DOMAIN Stream' : i < j => Stream'[j].age # "before"
      BY <1>8, <3>2, <3>3
    <3>5. QED
      BY <1>7, <1>9, <1>13, <2>1, <3>1, <3>4
  <2>2. CASE /\ i - Len(Stream) \in DOMAIN new /\ i > Len(Stream)
             /\ Stream'[i] = new[i - Len(Stream)]
    <3>1. Asks(m) /\ NoneCounts(Stream)
      BY <1>10, <1>13, <2>2
    <3>2. pc = "receive" /\ OfQuery(m)
      BY <1>7, <1>9, <3>1
    <3>3. OfQuery(Stream'[i])
      BY <1>5, <2>2, <3>2 DEF OfQuery
    <3>4. ASSUME NEW j \in DOMAIN toSupply'
          PROVE  toSupply'[j].age # "before" /\ ~Asks(toSupply'[j])
      <4>1. j + 1 \in DOMAIN toSupply /\ toSupply'[j] = toSupply[j + 1] /\ 1 < j + 1 /\ j + 1 # 1
        BY <1>7
      <4>2. toSupply[j + 1].age # "before"
        BY <1>7, <1>9, <3>1, <4>1 DEF OldFirst
      <4>3. ~Asks(toSupply[j + 1])
        BY <1>7, <1>9, <3>1, <4>1 DEF OneCommand
      <4>4. QED
        BY <4>1, <4>2, <4>3
    <3>5. \A j \in DOMAIN Stream' : i < j => Stream'[j].age # "before"
      <4>1. m.age # "before"
        BY <3>1 DEF Asks
      <4>2. ASSUME NEW j \in DOMAIN Stream', i < j PROVE Stream'[j].age # "before"
        <5>1. j \notin DOMAIN Stream
          BY <1>8, <2>2, <4>2, SMTT(40)
        <5>2. j - Len(Stream) \in DOMAIN new /\ Stream'[j] = new[j - Len(Stream)]
          BY <1>8, <5>1
        <5>3. QED
          BY <1>5, <4>1, <5>2
      <4>3. QED
        BY <4>2
    <3>6. QED
      BY <3>2, <3>3, <3>4, <3>5
  <2>3. QED
    BY <1>8, <2>1, <2>2
<1>14. ASSUME NEW i \in DOMAIN toSupply', Asks(toSupply'[i])
       PROVE  /\ pc = "receive" /\ OfQuery(toSupply'[i]) /\ NoneCounts(Stream')
              /\ \A j \in DOMAIN toSupply' : /\ Asks(toSupply'[j]) => i = j
                                             /\ i < j => toSupply'[j].age # "before"
  <2>1. NoneCounts(Stream')
    BY <1>13, <1>14 DEF NoneCounts
  <2>2. i + 1 \in DOMAIN toSupply /\ toSupply'[i] = toSupply[i + 1]
    BY <1>7
  <2>3. pc = "receive" /\ OfQuery(toSupply'[i])
    BY <1>9, <1>14, <2>2
  <2>4. ASSUME NEW j \in DOMAIN toSupply'
        PROVE  /\ Asks(toSupply'[j]) => i = j
               /\ i < j => toSupply'[j].age # "before"
    <3>1. /\ j + 1 \in DOMAIN toSupply /\ toSupply'[j] = toSupply[j + 1]
          /\ i \in Int /\ j \in Int
      BY <1>1, <1>3, <1>7
    <3>2. Asks(toSupply'[j]) => i + 1 = j + 1
      BY <1>9, <1>14, <2>2, <3>1 DEF OneCommand
    <3>3. i + 1 < j + 1 => toSupply'[j].age # "before"
      BY <1>9, <1>14, <2>2, <3>1 DEF OldFirst
    <3>4. QED
      BY <3>1, <3>2, <3>3
  <2>5. QED
    BY <2>1, <2>3, <2>4
<1>15. OldFirst' /\ OneCommand(toSupply')
  BY <1>13, <1>14 DEF OldFirst, OneCommand
<1>16. QED
  BY <1>2, <1>9, <1>12, <1>13, <1>14, <1>15 DEF LineInv, OfQuery

LEMMA NextKeeps == PowerInv /\ [Next]_vars => PowerInv'
<1>1. SUFFICES ASSUME PowerInv, [Next]_vars PROVE PowerInv'
  OBVIOUS
<1>2. TypeOK'
  BY <1>1, NextTyped DEF PowerInv
<1>3. CASE SupplyTakesCommand
  <2>1. UNCHANGED <<fd, pc, query, response, status, port, own, late>>
    BY <1>3 DEF SupplyTakesCommand
  <2>2. LineInv => LineInv'
    BY <1>1, <1>3, SupplyKeepsLine DEF PowerInv
  <2>3. QED
    BY <1>1, <1>2, <2>1, <2>2 DEF PowerInv
<1>4. CASE UNCHANGED vars
  <2>1. Text' = Text /\ Stream' = Stream
    BY <1>4 DEF Text, Stream, vars, line
  <2>2. LineInv => LineInv'
    BY <1>4, <2>1 DEF LineInv, OldFirst, OfQuery, vars, line
  <2>3. QED
    BY <1>1, <1>2, <1>4, <2>2 DEF PowerInv, vars
<1>5. QED
  BY <1>1, <1>2, <1>3, <1>4, AskingKeeps, DeviceKeeps, SendKeeps, PieceArrivesKeeps DEF Next

\* A poll whose message is ok has taken for each answer the whole reply to that very query,
\* unless a part of a reply was taken for all of it, or a reply from before the device was
\* opened has arrived since.
THEOREM OkPollsAreOwn == Spec => []OkPollIsOwn
<1>1. Init => PowerInv
  <2>1. SUFFICES ASSUME Init PROVE PowerInv
    OBVIOUS
  <2>2. TypeOK
    BY <2>1, InitTyped
  <2>3. QED
    BY <2>1, <2>2 DEF Init, PowerInv
<1>2. PowerInv => OkPollIsOwn
  BY DEF PowerInv, OkPollIsOwn
<1>3. QED
  BY <1>1, <1>2, NextKeeps, PTL DEF Spec

===============================================================================
