----------------------------- MODULE Bridge_proofs -----------------------------
(***************************************************************************)
(* Proofs about Bridge, for any number of boards, workers, readings and    *)
(* message ids: a worker keeps to its own boards, an answer is made of     *)
(* replies to its own requests (but for late ones without a number), no    *)
(* thread takes another one's reply, and the nodes of a board are of one   *)
(* poll.                                                                   *)
(***************************************************************************)
EXTENDS Bridge, TLAPS

-------------------------------------------------------------------------------
(***************************************************************************)
(* The boards of a worker                                                  *)
(***************************************************************************)
LEMMA Residue ==
    ASSUME NEW n \in Nat \ {0}, NEW a \in 0 .. n - 1, NEW q \in Nat
    PROVE  (q * n + a) % n = a
OBVIOUS

LEMMA Quotient ==
    ASSUME NEW n \in Nat \ {0}, NEW a \in Nat
    PROVE  /\ a % n \in 0 .. n - 1 /\ a \div n \in Nat
           /\ a = ((a \div n) * n) + (a % n)
OBVIOUS

LEMMA NextTurn ==
    ASSUME NEW n \in Nat \ {0}, NEW a \in Nat
    PROVE  (a + n) % n = a % n
<1> DEFINE q == a \div n
           r == a % n
<1>1. r \in 0 .. n - 1 /\ q \in Nat /\ a = (q * n) + r
  BY Quotient
<1> HIDE DEF q, r
<1>2. a + n = ((q + 1) * n) + r
  BY <1>1
<1>3. (a + n) % n = r
  BY <1>1, <1>2, Residue
<1>4. QED
  BY <1>3 DEF r

\* A worker goes from its own boards to its own boards.
LEMMA OwnBoardsClosed ==
    ASSUME NEW w \in Workers
    PROVE  /\ w \in OwnBoards(w)
           /\ \A b \in OwnBoards(w) : NextBoard(b) \in OwnBoards(w)
<1>1. /\ WorkerCount \in Nat \ {0} /\ BoardCount \in Nat /\ WorkerCount <= BoardCount
      /\ w \in Nat /\ w - 1 \in 0 .. WorkerCount - 1 /\ w \in Boards
  BY BridgeAssumption DEF Boards, Workers
<1>2. w \in OwnBoards(w)
  <2>1. (w - 1) % WorkerCount = w - 1
    BY <1>1
  <2>2. QED
    BY <1>1, <2>1 DEF OwnBoards
<1>3. ASSUME NEW b \in OwnBoards(w) PROVE NextBoard(b) \in OwnBoards(w)
  <2>1. b \in Nat /\ b - 1 \in Nat /\ (b - 1) % WorkerCount = w - 1
    BY <1>1 DEF OwnBoards, Boards
  <2>2. CASE b + WorkerCount \in Boards
    <3>1. ((b - 1) + WorkerCount) % WorkerCount = w - 1
      BY <1>1, <2>1, NextTurn
    <3>2. (b + WorkerCount) - 1 = (b - 1) + WorkerCount
      BY <1>1, <2>1
    <3>3. QED
      BY <2>2, <3>1, <3>2 DEF OwnBoards, NextBoard
  <2>3. CASE b + WorkerCount \notin Boards
    BY <1>1, <1>2, <2>1, <2>3 DEF NextBoard
  <2>4. QED
    BY <2>2, <2>3
<1>4. QED
  BY <1>2, <1>3

-------------------------------------------------------------------------------
(***************************************************************************)
(* Type correctness                                                        *)
(***************************************************************************)
LEMMA InitTyped == Init => TypeOK
<1>1. SUFFICES ASSUME Init PROVE TypeOK
  OBVIOUS
<1>2. /\ Workers \subseteq Boards /\ Workers \subseteq Threads /\ Main \in Threads /\ 1 \in Boards
      /\ Threads = Workers \cup {Main} /\ Main \notin Workers /\ 1 \in Ids
  BY BridgeAssumption DEF Workers, Boards, Threads, Main, Ids
<1>3. /\ NotPolled \in Statuses /\ Unbacked \in NodeStates
      /\ NeverGood \in LastGoods /\ Uncopied \in [status : Statuses, last_good : LastGoods]
  BY DEF NotPolled, Statuses, Unbacked, NodeStates, Qualities, NeverGood, LastGoods, Uncopied
<1>4. thread \in [Threads -> ThreadStates]
  BY <1>1, <1>2, <1>3 DEF Init, ThreadStates, Stages
<1>5. ASSUME NEW w \in Workers PROVE thread[w].board \in OwnBoards(w)
  BY <1>1, <1>2, OwnBoardsClosed DEF Init
<1>6. nodes \in [Boards -> BoardNodes]
  BY <1>1, <1>3 DEF Init, NodeStates, Qualities, BoardNodes
<1>7. /\ toServer \in [Boards -> Seq(Requests)] /\ fromServer \in [Boards -> Seq(Replies)]
      /\ mutex \in [Boards -> Threads \cup {Free}] /\ next_message_id \in [Boards -> Ids]
      /\ status \in [Boards -> Statuses] /\ last_good \in [Boards -> LastGoods]
      /\ copied \in [status : Statuses, last_good : LastGoods]
  BY <1>1, <1>2, <1>3 DEF Init
<1>8. running \in BOOLEAN /\ calls \in 0 .. MaxCalls
  BY <1>1, BridgeAssumption DEF Init
<1>9. QED
  BY <1>4, <1>5, <1>6, <1>7, <1>8 DEF TypeOK

\* A thread that goes on at its board.
LEMMA ThreadTyped ==
    ASSUME TypeOK, NEW t \in Threads, NEW r \in ThreadStates, Becomes(t, r),
           t # Main => r.board \in OwnBoards(t)
    PROVE  /\ thread' \in [Threads -> ThreadStates]
           /\ \A w \in Workers : thread'[w].board \in OwnBoards(w)
<1>1. thread \in [Threads -> ThreadStates] /\ thread' = [thread EXCEPT ![t] = r]
  BY DEF TypeOK, Becomes
<1>2. thread' \in [Threads -> ThreadStates]
  BY <1>1
<1>3. ASSUME NEW w \in Workers PROVE thread'[w].board \in OwnBoards(w)
  <2>1. w \in Threads /\ w # Main
    BY BridgeAssumption DEF Workers, Threads, Boards, Main
  <2>2. QED
    BY <1>1, <2>1 DEF TypeOK
<1>4. QED
  BY <1>2, <1>3

LEMMA BoardTyped ==
    ASSUME TypeOK, NEW t \in Threads
    PROVE  /\ thread[t] \in ThreadStates /\ Board(t) \in Boards /\ Board(t) = thread[t].board
           /\ t # Main => t \in Workers /\ Board(t) \in OwnBoards(t)
<1>1. t # Main => t \in Workers
  BY BridgeAssumption DEF Workers, Threads, Main, Boards
<1>2. QED
  BY <1>1 DEF TypeOK, Board, ThreadStates

LEMMA DisownedTyped ==
    /\ \A q \in Seq(Requests) : Disowned(q) \in Seq(Requests) /\ Len(Disowned(q)) = Len(q)
    /\ \A q \in Seq(Replies) : Disowned(q) \in Seq(Replies) /\ Len(Disowned(q)) = Len(q)
<1>1. /\ \A m \in Requests : [m EXCEPT !.current = FALSE] \in Requests
      /\ \A m \in Replies : [m EXCEPT !.current = FALSE] \in Replies
  BY DEF Requests, Replies
<1>2. ASSUME NEW q \in Seq(Requests)
      PROVE  Disowned(q) \in Seq(Requests) /\ Len(Disowned(q)) = Len(q)
  <2>1. \A i \in DOMAIN q : q[i] \in Requests
    OBVIOUS
  <2>2. \A i \in DOMAIN q : [q[i] EXCEPT !.current = FALSE] \in Requests
    BY <1>1, <2>1
  <2>3. QED
    BY <2>2 DEF Disowned
<1>3. ASSUME NEW q \in Seq(Replies)
      PROVE  Disowned(q) \in Seq(Replies) /\ Len(Disowned(q)) = Len(q)
  <2>1. \A i \in DOMAIN q : q[i] \in Replies
    OBVIOUS
  <2>2. \A i \in DOMAIN q : [q[i] EXCEPT !.current = FALSE] \in Replies
    BY <1>1, <2>1
  <2>3. QED
    BY <2>2 DEF Disowned
<1>4. QED
  BY <1>2, <1>3

LEMMA TakeIdTyped ==
    ASSUME TypeOK, NEW b \in Boards, TakeId(b)
    PROVE  next_message_id' \in [Boards -> Ids]
<1>1. next_message_id \in [Boards -> Ids] /\ IdMax \in Nat \ {0}
  BY BridgeAssumption DEF TypeOK
<1>2. \A id \in Ids : (id % IdMax) + 1 \in Ids
  BY <1>1 DEF Ids
<1>3. QED
  BY <1>1, <1>2 DEF TakeId

\* The part of the state that the steps of a client change.
ClientTyped ==
    /\ mutex \in [Boards -> Threads \cup {Free}]
    /\ thread \in [Threads -> ThreadStates]
    /\ \A w \in Workers : thread[w].board \in OwnBoards(w)
    /\ toServer \in [Boards -> Seq(Requests)]
    /\ fromServer \in [Boards -> Seq(Replies)]

LEMMA FinishTyped ==
    ASSUME TypeOK, NEW t \in Threads, NEW result \in Statuses, NEW late \in SUBSET Kinds,
           NEW left \in Seq(Replies), Finish(t, result, late, left)
    PROVE  ClientTyped'
<1> DEFINE r == [thread[t] EXCEPT !.pc = IF t = Main THEN "serve" ELSE "store",
                                  !.stage = "v8", !.awaits = 0, !.result = result, !.late = late]
<1>1. /\ thread[t] \in ThreadStates /\ Board(t) \in Boards /\ Board(t) = thread[t].board
      /\ t # Main => t \in Workers /\ Board(t) \in OwnBoards(t)
  BY BoardTyped
<1>2. r \in ThreadStates /\ r.board = thread[t].board /\ Becomes(t, r)
  BY <1>1 DEF ThreadStates, Stages, Finish
<1> HIDE DEF r
<1>3. /\ thread' \in [Threads -> ThreadStates]
      /\ \A w \in Workers : thread'[w].board \in OwnBoards(w)
  BY <1>1, <1>2, ThreadTyped
<1>4. mutex' \in [Boards -> Threads \cup {Free}]
  BY DEF TypeOK, Finish
<1>5. /\ Disowned(toServer[Board(t)]) \in Seq(Requests)
      /\ Disowned(left) \in Seq(Replies)
  BY <1>1, DisownedTyped DEF TypeOK
<1>6. /\ toServer' \in [Boards -> Seq(Requests)]
      /\ fromServer' \in [Boards -> Seq(Replies)]
  BY <1>5 DEF TypeOK, Finish
<1>7. QED
  BY <1>3, <1>4, <1>6 DEF ClientTyped

LEMMA GiveUpTyped ==
    ASSUME TypeOK, NEW t \in Threads, GiveUp(t)
    PROVE  ClientTyped'
<1>1. /\ thread[t] \in ThreadStates /\ Board(t) \in Boards /\ Board(t) = thread[t].board
      /\ t # Main => t \in Workers /\ Board(t) \in OwnBoards(t)
  BY BoardTyped
<1>2. CASE thread[t].stage = "v8"
  <2> DEFINE r == [thread[t] EXCEPT !.pc = "send", !.stage = "test", !.awaits = 0]
  <2>1. r \in ThreadStates /\ r.board = thread[t].board
    BY <1>1 DEF ThreadStates, Stages
  <2>2. Becomes(t, r) /\ UNCHANGED <<mutex, toServer, fromServer>>
    BY <1>2 DEF GiveUp
  <2> HIDE DEF r
  <2>3. /\ thread' \in [Threads -> ThreadStates]
        /\ \A w \in Workers : thread'[w].board \in OwnBoards(w)
    BY <1>1, <2>1, <2>2, ThreadTyped
  <2>4. QED
    BY <2>2, <2>3 DEF TypeOK, ClientTyped
<1>3. CASE thread[t].stage # "v8"
  <2>1. /\ NotPolled \in Statuses /\ thread[t].late \in SUBSET Kinds
        /\ fromServer[Board(t)] \in Seq(Replies)
    BY <1>1 DEF NotPolled, Statuses, ThreadStates, TypeOK
  <2>2. Finish(t, NotPolled, thread[t].late, fromServer[Board(t)])
    BY <1>3 DEF GiveUp
  <2>3. QED
    BY <2>1, <2>2, FinishTyped
<1>4. QED
  BY <1>2, <1>3

\* What arrived, and what is left when it is taken.
LEMMA ReplyTyped ==
    ASSUME TypeOK, NEW t \in Threads, Arrived(t)
    PROVE  /\ Reply(t) \in Replies /\ Tail(fromServer[Board(t)]) \in Seq(Replies)
           /\ Reply(t).ok \in BOOLEAN /\ Reply(t).current \in BOOLEAN
           /\ Reply(t).reading \in Readings \cup {0} /\ WithReply(t) \in SUBSET Kinds
<1>1. fromServer[Board(t)] \in Seq(Replies) /\ fromServer[Board(t)] # <<>>
  BY BoardTyped DEF TypeOK, Arrived
<1>2. Reply(t) \in Replies /\ Tail(fromServer[Board(t)]) \in Seq(Replies)
  BY <1>1 DEF Reply
<1>3. thread[t].late \in SUBSET Kinds
  BY BoardTyped DEF ThreadStates
<1>4. WithReply(t) \in SUBSET Kinds
  BY <1>3 DEF WithReply, Kinds
<1>5. QED
  BY <1>2, <1>4 DEF Replies

LEMMA ConcludeTyped ==
    ASSUME TypeOK, NEW t \in Threads, NEW result \in Statuses, Arrived(t), Conclude(t, result)
    PROVE  ClientTyped'
<1>2. Tail(fromServer[Board(t)]) \in Seq(Replies)
  BY ReplyTyped
<1>3. WithReply(t) \in SUBSET Kinds
  BY ReplyTyped
<1>4. Finish(t, result, WithReply(t), Tail(fromServer[Board(t)]))
  BY DEF Conclude
<1>5. QED
  BY <1>2, <1>3, <1>4, FinishTyped

LEMMA ContinueTyped ==
    ASSUME TypeOK, NEW t \in Threads, NEW stage \in Stages, Arrived(t), Continue(t, stage)
    PROVE  ClientTyped'
<1> DEFINE r == [thread[t] EXCEPT !.pc = "send", !.stage = stage, !.awaits = 0,
                                  !.late = WithReply(t)]
<1>1. /\ thread[t] \in ThreadStates /\ Board(t) \in Boards /\ Board(t) = thread[t].board
      /\ t # Main => t \in Workers /\ Board(t) \in OwnBoards(t)
  BY BoardTyped
<1>2. r \in ThreadStates /\ r.board = thread[t].board
  BY <1>1, ReplyTyped DEF ThreadStates
<1>3. /\ Becomes(t, r) /\ UNCHANGED <<mutex, toServer>>
      /\ fromServer' = [fromServer EXCEPT ![Board(t)] = Tail(fromServer[Board(t)])]
  BY <1>1 DEF Continue, TypeOK
<1> HIDE DEF r
<1>4. /\ thread' \in [Threads -> ThreadStates]
      /\ \A w \in Workers : thread'[w].board \in OwnBoards(w)
  BY <1>1, <1>2, <1>3, ThreadTyped
<1>5. fromServer' \in [Boards -> Seq(Replies)]
  BY <1>1, <1>3, ReplyTyped DEF TypeOK
<1>6. QED
  BY <1>3, <1>4, <1>5 DEF TypeOK, ClientTyped

LEMMA ReceiveReplyTyped ==
    ASSUME TypeOK, NEW t \in Threads, ReceiveReply(t)
    PROVE  ClientTyped'
<1>1. Arrived(t) /\ NotPolled \in Statuses
  BY DEF ReceiveReply, NotPolled, Statuses
<1>2. Snapshot(Reply(t).reading) \in Statuses /\ LegacyReadback(Reply(t).reading) \in Statuses
  BY <1>1, ReplyTyped DEF Snapshot, LegacyReadback, Statuses
<1>3. CASE Continue(t, "test") \/ Continue(t, "info")
  BY <1>1, <1>3, ContinueTyped DEF Stages
<1>4. CASE \/ Conclude(t, NotPolled) \/ Conclude(t, Snapshot(Reply(t).reading))
           \/ Conclude(t, LegacyReadback(Reply(t).reading))
  BY <1>1, <1>2, <1>4, ConcludeTyped
<1>5. QED
  BY <1>3, <1>4 DEF ReceiveReply

LEMMA SendTyped ==
    ASSUME TypeOK, NEW t \in Threads, Send(t)
    PROVE  ClientTyped' /\ next_message_id' \in [Boards -> Ids]
<1> DEFINE b == Board(t)
           id == next_message_id[b]
           m == [id |-> id, stage |-> thread[t].stage, current |-> TRUE]
           r == [thread[t] EXCEPT !.pc = "wait", !.awaits = id]
<1>1. /\ thread[t] \in ThreadStates /\ b \in Boards /\ b = thread[t].board
      /\ t # Main => t \in Workers /\ b \in OwnBoards(t)
  BY BoardTyped
<1>2. id \in Ids
  BY <1>1 DEF TypeOK
<1>3. m \in Requests /\ r \in ThreadStates /\ r.board = thread[t].board
  BY <1>1, <1>2 DEF ThreadStates, Requests
<1>4. /\ toServer' = [toServer EXCEPT ![b] = Append(toServer[b], m)]
      /\ TakeId(b) /\ Becomes(t, r) /\ UNCHANGED <<mutex, fromServer>>
  BY <1>1 DEF Send, TypeOK
<1> HIDE DEF m, r
<1>5. /\ thread' \in [Threads -> ThreadStates]
      /\ \A w \in Workers : thread'[w].board \in OwnBoards(w)
  BY <1>1, <1>3, <1>4, ThreadTyped
<1>6. toServer' \in [Boards -> Seq(Requests)]
  <2>1. Append(toServer[b], m) \in Seq(Requests)
    BY <1>1, <1>3 DEF TypeOK
  <2>2. QED
    BY <1>4, <2>1 DEF TypeOK
<1>7. QED
  BY <1>1, <1>4, <1>5, <1>6, TakeIdTyped DEF TypeOK, ClientTyped

LEMMA ClientStepTyped ==
    ASSUME TypeOK, NEW t \in Threads, ClientStep(t)
    PROVE  TypeOK'
<1>1. Board(t) \in Boards
  BY BoardTyped
<1>2. ClientTyped'
  <2>1. CASE LockClient(t)
    <3> DEFINE r == [thread[t] EXCEPT !.pc = "send"]
    <3>1. /\ thread[t] \in ThreadStates /\ Board(t) = thread[t].board
          /\ t # Main => t \in Workers /\ Board(t) \in OwnBoards(t)
      BY BoardTyped
    <3>2. r \in ThreadStates /\ r.board = thread[t].board
      BY <3>1 DEF ThreadStates
    <3>3. Becomes(t, r)
      BY <2>1 DEF LockClient
    <3> HIDE DEF r
    <3>4. /\ thread' \in [Threads -> ThreadStates]
          /\ \A w \in Workers : thread'[w].board \in OwnBoards(w)
      BY <3>1, <3>2, <3>3, ThreadTyped
    <3>5. QED
      BY <2>1, <3>4 DEF LockClient, link, TypeOK, ClientTyped
  <2>2. CASE Send(t)
    BY <2>2, SendTyped
  <2>3. CASE SendTimesOut(t) \/ ReceiveTimesOut(t)
    BY <2>3, GiveUpTyped DEF SendTimesOut, ReceiveTimesOut
  <2>4. CASE ReceiveStale(t)
    <3>1. Tail(fromServer[Board(t)]) \in Seq(Replies)
      BY <2>4, ReplyTyped DEF ReceiveStale
    <3>2. QED
      BY <2>4, <3>1 DEF ReceiveStale, TypeOK, ClientTyped
  <2>5. CASE ReceiveReply(t)
    BY <2>5, ReceiveReplyTyped
  <2>6. QED
    BY <2>1, <2>2, <2>3, <2>4, <2>5 DEF ClientStep
<1>3. next_message_id' \in [Boards -> Ids]
  BY <1>1, TakeIdTyped, SendTyped
     DEF ClientStep, LockClient, link, SendTimesOut, ReceiveTimesOut, ReceiveStale, ReceiveReply, TypeOK
<1>4. UNCHANGED <<running, published, calls>>
  BY DEF ClientStep, LockClient, Send, SendTimesOut, ReceiveTimesOut, ReceiveStale, ReceiveReply
<1>5. QED
  BY <1>2, <1>3, <1>4 DEF TypeOK, ClientTyped, published

LEMMA StorePollTyped ==
    ASSUME TypeOK, NEW w \in Workers, StorePoll(w)
    PROVE  TypeOK'
<1> DEFINE r == [thread[w] EXCEPT !.pc = "next", !.board = NextBoard(Board(w)),
                                  !.result = NotPolled, !.late = {}]
<1>1. w \in Threads /\ w # Main
  BY BridgeAssumption DEF Workers, Threads, Boards, Main
<1>2. thread[w] \in ThreadStates /\ Board(w) \in Boards /\ Board(w) \in OwnBoards(w)
  BY <1>1, BoardTyped
<1>3. NextBoard(Board(w)) \in OwnBoards(w) /\ NextBoard(Board(w)) \in Boards
  BY <1>2, OwnBoardsClosed DEF OwnBoards
<1>4. NotPolled \in Statuses /\ thread[w].result \in Statuses
  BY <1>2 DEF NotPolled, Statuses, ThreadStates
<1>5. r \in ThreadStates /\ r.board \in OwnBoards(w) /\ Becomes(w, r)
  BY <1>2, <1>3, <1>4 DEF ThreadStates, StorePoll
<1> HIDE DEF r
<1>6. /\ thread' \in [Threads -> ThreadStates]
      /\ \A u \in Workers : thread'[u].board \in OwnBoards(u)
  BY <1>1, <1>5, ThreadTyped
<1>7. /\ status' \in [Boards -> Statuses]
      /\ last_good' \in [Boards -> LastGoods]
  BY <1>4 DEF StorePoll, TypeOK, LastGoods
<1>8. QED
  BY <1>6, <1>7 DEF StorePoll, link, TypeOK

\* The steps of a thread that change its own state alone.
LEMMA MovesTyped ==
    ASSUME TypeOK, NEW t \in Threads, NEW r \in ThreadStates, Becomes(t, r),
           t # Main => r.board \in OwnBoards(t), running' \in BOOLEAN, calls' \in 0 .. MaxCalls,
           UNCHANGED <<mutex, link, published>>
    PROVE  TypeOK'
<1>1. /\ thread' \in [Threads -> ThreadStates]
      /\ \A w \in Workers : thread'[w].board \in OwnBoards(w)
  BY ThreadTyped
<1>2. QED
  BY <1>1 DEF TypeOK, link, published

LEMMA StartPollTyped ==
    ASSUME TypeOK, NEW w \in Workers, StartPoll(w)
    PROVE  TypeOK'
<1> DEFINE r == [thread[w] EXCEPT !.pc = IF running THEN "lock" ELSE "done"]
<1>1. w \in Threads /\ w # Main
  BY BridgeAssumption DEF Workers, Threads, Boards, Main
<1>2. thread[w] \in ThreadStates /\ Board(w) \in OwnBoards(w) /\ Board(w) = thread[w].board
  BY <1>1, BoardTyped
<1>3. r \in ThreadStates /\ r.board = thread[w].board /\ Becomes(w, r)
  BY <1>2 DEF ThreadStates, StartPoll
<1> HIDE DEF r
<1>4. QED
  BY <1>1, <1>2, <1>3, MovesTyped DEF StartPoll, TypeOK

LEMMA MeasurementTyped ==
    ASSUME TypeOK, NEW b \in Boards
    PROVE  /\ Measurement(b) \in Statuses /\ Measurement(b).reading \in Readings \cup {0}
           /\ Measurement(b).v8 \in BOOLEAN /\ MeasurementStatus \in Qualities
<1>1. Measurement(b) \in Statuses
  BY DEF TypeOK, Measurement, LastGoods
<1>2. QED
  BY <1>1 DEF Statuses, MeasurementStatus, Qualities

LEMMA ServerLoopTyped ==
    ASSUME TypeOK,
           \/ UpdateNodes \/ CopyStatus \/ PublishBoard \/ StopPollers \/ JoinPollers
           \/ \E b \in Boards : CallMethod(b)
    PROVE  TypeOK'
<1>1. /\ Main \in Threads /\ 1 \in Boards /\ BoardCount \in Nat
      /\ running \in BOOLEAN /\ calls \in 0 .. MaxCalls /\ MaxCalls \in Nat
  BY BridgeAssumption DEF Main, Threads, Boards, TypeOK
<1>2. thread[Main] \in ThreadStates /\ Board(Main) \in Boards
  BY <1>1, BoardTyped
<1>3. CASE UpdateNodes
  <2>1. [thread[Main] EXCEPT !.pc = "update", !.board = 1, !.late = {}] \in ThreadStates
    BY <1>1, <1>2 DEF ThreadStates
  <2>2. QED
    BY <1>1, <1>3, <2>1, MovesTyped DEF UpdateNodes
<1>4. CASE StopPollers
  <2>1. [thread[Main] EXCEPT !.pc = "join"] \in ThreadStates
    BY <1>2 DEF ThreadStates
  <2>2. QED
    BY <1>1, <1>4, <2>1, MovesTyped DEF StopPollers
<1>5. CASE JoinPollers
  <2>1. [thread[Main] EXCEPT !.pc = "done"] \in ThreadStates
    BY <1>2 DEF ThreadStates
  <2>2. QED
    BY <1>1, <1>5, <2>1, MovesTyped DEF JoinPollers
<1>6. ASSUME NEW b \in Boards, CallMethod(b) PROVE TypeOK'
  <2>1. [thread[Main] EXCEPT !.pc = "lock", !.board = b, !.stage = "method", !.late = {}] \in ThreadStates
    BY <1>2 DEF ThreadStates, Stages
  <2>2. calls' \in 0 .. MaxCalls
    <3>1. calls < MaxCalls /\ calls' = calls + 1
      BY <1>6 DEF CallMethod
    <3>2. QED
      BY <1>1, <3>1
  <2>3. QED
    BY <1>1, <1>6, <2>1, <2>2, MovesTyped DEF CallMethod
<1>7. CASE PublishBoard
  <2> DEFINE b == Board(Main)
             r == IF b = BoardCount THEN [thread[Main] EXCEPT !.pc = "serve", !.board = 1]
                                    ELSE [thread[Main] EXCEPT !.pc = "update", !.board = b + 1]
             shown == [reading |-> Measurement(b).reading, quality |-> MeasurementStatus]
             legacy == [good |-> copied.status.good, reading |-> copied.status.reading]
  <2>1. b # BoardCount => b + 1 \in Boards
    BY <1>1, <1>2 DEF Boards
  <2>2. r \in ThreadStates
    BY <1>1, <1>2, <2>1 DEF ThreadStates
  <2>3. /\ Becomes(Main, r) /\ copied' = Uncopied
        /\ UNCHANGED <<running, mutex, link, status, last_good, calls>>
    BY <1>7 DEF PublishBoard
  <2>4. /\ shown \in NodeStates /\ legacy \in [good : BOOLEAN, reading : Readings \cup {0}]
        /\ Measurement(b).v8 \in BOOLEAN
    BY <1>2, MeasurementTyped DEF NodeStates, TypeOK, Statuses
  <2>5. nodes' = [nodes EXCEPT ![b] = [native |-> IF Measurement(b).v8 THEN shown ELSE nodes[b].native,
                                       shared |-> shown, snapshot |-> Measurement(b).v8,
                                       legacy |-> legacy]]
    BY <1>2, <1>7 DEF PublishBoard, TypeOK
  <2> HIDE DEF r, shown, legacy
  <2>6. nodes' \in [Boards -> BoardNodes]
    BY <1>2, <2>4, <2>5 DEF TypeOK, BoardNodes
  <2>7. /\ thread' \in [Threads -> ThreadStates]
        /\ \A w \in Workers : thread'[w].board \in OwnBoards(w)
    BY <1>1, <2>2, <2>3, ThreadTyped
  <2>8. Uncopied \in [status : Statuses, last_good : LastGoods]
    BY DEF Uncopied, NeverGood, NotPolled, Statuses, LastGoods
  <2>9. QED
    BY <2>3, <2>6, <2>7, <2>8 DEF TypeOK, link
<1>8. CASE CopyStatus
  <2> DEFINE r == [thread[Main] EXCEPT !.pc = "publish"]
  <2>1. r \in ThreadStates
    BY <1>2 DEF ThreadStates
  <2>2. Becomes(Main, r) /\ UNCHANGED <<running, mutex, link, status, last_good, nodes, calls>>
    BY <1>8 DEF CopyStatus
  <2> HIDE DEF r
  <2>3. /\ thread' \in [Threads -> ThreadStates]
        /\ \A w \in Workers : thread'[w].board \in OwnBoards(w)
    BY <1>1, <2>1, <2>2, ThreadTyped
  <2>4. copied' \in [status : Statuses, last_good : LastGoods]
    BY <1>2, <1>8 DEF CopyStatus, TypeOK
  <2>5. QED
    BY <2>2, <2>3, <2>4 DEF TypeOK, link
<1>9. QED
  BY <1>3, <1>4, <1>5, <1>6, <1>7, <1>8

LEMMA ServerTyped ==
    ASSUME TypeOK, NEW b \in Boards, ServerAnswers(b) \/ RequestLost(b)
    PROVE  TypeOK'
<1>1. /\ toServer[b] \in Seq(Requests) /\ toServer[b] # <<>> /\ fromServer[b] \in Seq(Replies)
      /\ toServer' = [toServer EXCEPT ![b] = Tail(toServer[b])]
  BY DEF TypeOK, ServerAnswers, RequestLost
<1>2. Head(toServer[b]) \in Requests /\ Tail(toServer[b]) \in Seq(Requests)
  BY <1>1
<1>3. toServer' \in [Boards -> Seq(Requests)]
  BY <1>1, <1>2 DEF TypeOK
<1>4. fromServer' \in [Boards -> Seq(Replies)]
  <2>1. CASE RequestLost(b)
    BY <2>1 DEF RequestLost, TypeOK
  <2>2. CASE ServerAnswers(b)
    <3>1. PICK ok \in BOOLEAN, reading \in Readings \cup {0}, correl \in Ids \cup {0} :
            fromServer' = [fromServer EXCEPT ![b] =
                             Append(@, [id |-> Head(toServer[b]).id, correl |-> correl,
                                        stage |-> Head(toServer[b]).stage,
                                        ok |-> ok, reading |-> reading,
                                        current |-> Head(toServer[b]).current])]
      BY <2>2 DEF ServerAnswers
    <3> DEFINE m == [id |-> Head(toServer[b]).id, correl |-> correl,
                     stage |-> Head(toServer[b]).stage, ok |-> ok, reading |-> reading, current |-> Head(toServer[b]).current]
    <3>2. m \in Replies
      BY <1>2 DEF Requests, Replies
    <3>3. fromServer' = [fromServer EXCEPT ![b] = Append(fromServer[b], m)]
      BY <3>1 DEF TypeOK
    <3> HIDE DEF m
    <3>4. Append(fromServer[b], m) \in Seq(Replies)
      BY <1>1, <3>2
    <3>5. QED
      BY <3>3, <3>4 DEF TypeOK
  <2>3. QED
    BY <2>1, <2>2
<1>5. UNCHANGED <<running, mutex, thread, next_message_id, published, calls>>
  BY DEF ServerAnswers, RequestLost
<1>6. QED
  BY <1>3, <1>4, <1>5 DEF TypeOK, published

LEMMA NextTyped == TypeOK /\ [Next]_vars => TypeOK'
<1>1. SUFFICES ASSUME TypeOK, [Next]_vars PROVE TypeOK'
  OBVIOUS
<1>2. Main \in Threads /\ Workers \subseteq Threads
  BY BridgeAssumption DEF Main, Threads, Workers, Boards
<1>3. CASE UNCHANGED vars
  BY <1>1, <1>3 DEF vars, TypeOK
<1>4. ASSUME NEW w \in Workers, WorkerStep(w) PROVE TypeOK'
  BY <1>1, <1>2, <1>4, StartPollTyped, StorePollTyped, ClientStepTyped DEF WorkerStep
<1>5. CASE MainStep \/ UpdateNodes \/ StopPollers
  BY <1>1, <1>2, <1>5, ServerLoopTyped, ClientStepTyped DEF MainStep
<1>6. ASSUME NEW b \in Boards, CallMethod(b) \/ ServerAnswers(b) \/ RequestLost(b) PROVE TypeOK'
  BY <1>1, <1>6, ServerLoopTyped, ServerTyped
<1>7. QED
  BY <1>1, <1>3, <1>4, <1>5, <1>6 DEF Next

\* The types hold of every state; a worker polls no board but its own.
THEOREM Typing == Spec => []TypeOK
<1>1. QED
  BY InitTyped, NextTyped, PTL DEF Spec

-------------------------------------------------------------------------------
(***************************************************************************)
(* The inductive invariant of the client: clientMutex is held by the one   *)
(* thread that is in a request of the board, so what travels with the id   *)
(* that thread waits for was sent by its own operation (an id is not taken *)
(* again while a message carries it), and so is all it has read so far,    *)
(* but for replies without a number. Each operation starts with none read. *)
(***************************************************************************)
Asks(t) == thread[t].pc \in {"send", "wait"}

MutexHeld == \A b \in Boards, t \in Threads : mutex[b] = t <=> Asks(t) /\ Board(t) = b

AllCurrent(messages, id) == \A i \in DOMAIN messages : messages[i].id = id => messages[i].current

AwaitedIsCurrent ==
    \A t \in Threads : At(t, "wait") =>
        /\ AllCurrent(toServer[Board(t)], thread[t].awaits)
        /\ AllCurrent(fromServer[Board(t)], thread[t].awaits)

\* The reply carries the number of its request, or none where the server may do so.
Numbered(messages, b) ==
    \A i \in DOMAIN messages :
        messages[i].correl = messages[i].id \/ (messages[i].correl = 0 /\ b \in Unnumbering)

AllNumbered == \A b \in Boards : Numbered(fromServer[b], b)

ReadOwn(r) ==
    /\ r.late \subseteq Exempt(r.board)
    /\ \/ r.pc \in {"next", "update", "publish"}
       \/ r.pc \in {"lock", "send", "wait"} /\ r.stage = "v8"
       \/ r.pc = "store" /\ r.result.v8
       => r.late = {}

AllOwn == \A t \in Threads : ReadOwn(thread[t])

BridgeInv == TypeOK /\ MutexHeld /\ AwaitedIsCurrent /\ AllNumbered /\ AllOwn

LEMMA InitOwn == Init => BridgeInv
<1>1. SUFFICES ASSUME Init PROVE BridgeInv
  OBVIOUS
<1>2. \A t \in Threads : t # Free
  BY BridgeAssumption DEF Threads, Boards, Free
<1>3. MutexHeld
  BY <1>1, <1>2 DEF Init, MutexHeld, Asks
<1>4. AwaitedIsCurrent /\ AllNumbered /\ AllOwn
  BY <1>1 DEF Init, AwaitedIsCurrent, AllNumbered, Numbered, AllOwn, ReadOwn, At
<1>5. QED
  BY <1>1, <1>3, <1>4, InitTyped DEF BridgeInv

\* The client of a board is in the hands of one thread.
LEMMA OneAsks ==
    ASSUME BridgeInv, NEW t \in Threads, NEW u \in Threads, Asks(t), Asks(u), Board(t) = Board(u)
    PROVE  t = u
<1>1. Board(t) \in Boards
  BY BoardTyped DEF BridgeInv
<1>2. mutex[Board(t)] = t /\ mutex[Board(u)] = u
  BY <1>1 DEF BridgeInv, MutexHeld
<1>3. QED
  BY <1>2

\* A step of the thread that holds, takes or gives back the mutex of its board.
LEMMA HolderKeeps ==
    ASSUME BridgeInv, NEW t \in Threads, NEW r \in ThreadStates, Becomes(t, r),
           r.board = Board(t), ReadOwn(r), mutex[Board(t)] \in {t, Free},
           mutex' = [mutex EXCEPT ![Board(t)] = IF r.pc \in {"send", "wait"} THEN t ELSE Free],
           \A b \in Boards \ {Board(t)} : toServer'[b] = toServer[b] /\ fromServer'[b] = fromServer[b],
           r.pc = "wait" => /\ AllCurrent(toServer'[Board(t)], r.awaits)
                            /\ AllCurrent(fromServer'[Board(t)], r.awaits)
    PROVE  MutexHeld' /\ AwaitedIsCurrent' /\ AllOwn'
<1>1. /\ thread' = [thread EXCEPT ![t] = r] /\ thread \in [Threads -> ThreadStates]
      /\ mutex \in [Boards -> Threads \cup {Free}] /\ Board(t) \in Boards
  BY BoardTyped DEF BridgeInv, TypeOK, Becomes
<1>2. \A u \in Threads : u # Free
  BY BridgeAssumption DEF Threads, Boards, Free
<1>3. thread'[t] = r /\ \A u \in Threads \ {t} : thread'[u] = thread[u]
  BY <1>1
<1>4. ASSUME NEW u \in Threads \ {t}, Asks(u) PROVE Board(u) \in Boards \ {Board(t)}
  <2>1. Board(u) \in Boards /\ mutex[Board(u)] = u
    BY <1>4, BoardTyped DEF BridgeInv, MutexHeld
  <2>2. QED
    BY <1>2, <2>1
<1>5. ASSUME NEW b \in Boards, NEW u \in Threads
      PROVE  mutex'[b] = u <=> Asks(u)' /\ Board(u)' = b
  <2>1. CASE u = t
    BY <1>1, <1>2, <1>3, <2>1 DEF BridgeInv, MutexHeld, Asks, Board
  <2>2. CASE u # t
    <3>1. mutex[b] = u <=> Asks(u) /\ Board(u) = b
      BY DEF BridgeInv, MutexHeld
    <3>2. Asks(u)' = Asks(u) /\ Board(u)' = Board(u)
      BY <1>3, <2>2 DEF Asks, Board
    <3>3. CASE b = Board(t)
      BY <1>1, <1>2, <1>4, <2>2, <3>2, <3>3
    <3>4. CASE b # Board(t)
      BY <1>1, <3>1, <3>2, <3>4
    <3>5. QED
      BY <3>3, <3>4
  <2>3. QED
    BY <2>1, <2>2
<1>6. ASSUME NEW u \in Threads, At(u, "wait")'
      PROVE  /\ AllCurrent(toServer'[Board(u)'], thread'[u].awaits)
             /\ AllCurrent(fromServer'[Board(u)'], thread'[u].awaits)
  <2>1. CASE u = t
    BY <1>3, <1>6, <2>1 DEF At, Board
  <2>2. CASE u # t
    <3>1. At(u, "wait") /\ Asks(u) /\ Board(u)' = Board(u) /\ thread'[u].awaits = thread[u].awaits
      BY <1>3, <1>6, <2>2 DEF At, Asks, Board
    <3>2. Board(u) \in Boards \ {Board(t)}
      BY <1>4, <2>2, <3>1
    <3>3. QED
      BY <3>1, <3>2 DEF BridgeInv, AwaitedIsCurrent
  <2>3. QED
    BY <2>1, <2>2
<1>7. AllOwn'
  BY <1>3 DEF BridgeInv, AllOwn
<1>8. AwaitedIsCurrent'
  BY <1>6 DEF AwaitedIsCurrent, AllCurrent
<1>9. QED
  BY <1>5, <1>7, <1>8 DEF MutexHeld

\* A step of a thread that holds no mutex, before or after.
LEMMA MoveKeeps ==
    ASSUME BridgeInv, NEW t \in Threads, NEW r \in ThreadStates, Becomes(t, r),
           ~Asks(t), r.pc \notin {"send", "wait"}, ReadOwn(r), UNCHANGED <<mutex, toServer, fromServer>>
    PROVE  MutexHeld' /\ AwaitedIsCurrent' /\ AllOwn'
<1>1. thread'[t] = r /\ \A u \in Threads \ {t} : thread'[u] = thread[u]
  BY DEF BridgeInv, TypeOK, Becomes
<1>2. MutexHeld'
  BY <1>1 DEF BridgeInv, MutexHeld, Asks, Board
<1>3. AwaitedIsCurrent'
  BY <1>1 DEF BridgeInv, AwaitedIsCurrent, AllCurrent, Asks, At, Board
<1>4. AllOwn'
  BY <1>1 DEF BridgeInv, AllOwn
<1>5. QED
  BY <1>2, <1>3, <1>4

LEMMA FinishKeeps ==
    ASSUME BridgeInv, NEW t \in Threads, NEW result \in Statuses, NEW late \in SUBSET Kinds,
           late \subseteq Exempt(Board(t)), result.v8 => late = {},
           NEW left, Asks(t), Finish(t, result, late, left)
    PROVE  MutexHeld' /\ AwaitedIsCurrent' /\ AllOwn'
<1> DEFINE r == [thread[t] EXCEPT !.pc = IF t = Main THEN "serve" ELSE "store",
                                  !.stage = "v8", !.awaits = 0, !.result = result, !.late = late]
<1>1. thread[t] \in ThreadStates /\ Board(t) \in Boards /\ Board(t) = thread[t].board
  BY BoardTyped DEF BridgeInv
<1>2. r \in ThreadStates /\ r.board = Board(t) /\ ReadOwn(r) /\ r.pc \notin {"send", "wait"} /\ Becomes(t, r)
  BY <1>1 DEF ThreadStates, Stages, Finish, ReadOwn
<1>3. mutex[Board(t)] = t
  BY <1>1 DEF BridgeInv, MutexHeld
<1>4. /\ mutex' = [mutex EXCEPT ![Board(t)] = Free]
      /\ \A b \in Boards \ {Board(t)} : toServer'[b] = toServer[b] /\ fromServer'[b] = fromServer[b]
  BY DEF Finish, BridgeInv, TypeOK
<1> HIDE DEF r
<1>5. QED
  BY <1>2, <1>3, <1>4, HolderKeeps

LEMMA GiveUpKeeps ==
    ASSUME BridgeInv, NEW t \in Threads, Asks(t), GiveUp(t)
    PROVE  MutexHeld' /\ AwaitedIsCurrent' /\ AllOwn'
<1>1. thread[t] \in ThreadStates /\ Board(t) \in Boards /\ Board(t) = thread[t].board
  BY BoardTyped DEF BridgeInv
<1>2. CASE thread[t].stage = "v8"
  <2> DEFINE r == [thread[t] EXCEPT !.pc = "send", !.stage = "test", !.awaits = 0]
  <2>1. r \in ThreadStates /\ r.board = Board(t) /\ ReadOwn(r) /\ r.pc = "send"
    BY <1>1 DEF ThreadStates, Stages, BridgeInv, AllOwn, ReadOwn
  <2>2. Becomes(t, r) /\ UNCHANGED <<mutex, toServer, fromServer>>
    BY <1>2 DEF GiveUp
  <2> HIDE DEF r
  <2>3. mutex[Board(t)] = t /\ mutex' = [mutex EXCEPT ![Board(t)] = t]
    BY <1>1, <2>2 DEF BridgeInv, MutexHeld, TypeOK
  <2>4. QED
    BY <2>1, <2>2, <2>3, HolderKeeps
<1>3. CASE thread[t].stage # "v8"
  <2>1. /\ NotPolled \in Statuses /\ ~NotPolled.v8 /\ thread[t].late \in SUBSET Kinds
        /\ thread[t].late \subseteq Exempt(Board(t))
    BY <1>1 DEF NotPolled, Statuses, ThreadStates, BridgeInv, AllOwn, ReadOwn
  <2>2. Finish(t, NotPolled, thread[t].late, fromServer[Board(t)])
    BY <1>3 DEF GiveUp
  <2>3. QED
    BY <2>1, <2>2, FinishKeeps
<1>4. QED
  BY <1>2, <1>3

LEMMA SendKeeps ==
    ASSUME BridgeInv, NEW t \in Threads, Send(t)
    PROVE  MutexHeld' /\ AwaitedIsCurrent' /\ AllOwn'
<1> DEFINE b == Board(t)
           id == next_message_id[b]
           m == [id |-> id, stage |-> thread[t].stage, current |-> TRUE]
           r == [thread[t] EXCEPT !.pc = "wait", !.awaits = id]
<1>1. thread[t] \in ThreadStates /\ b \in Boards /\ b = thread[t].board
  BY BoardTyped DEF BridgeInv
<1>2. id \in Ids /\ m.id = id /\ m.current /\ m \in Requests
  BY <1>1 DEF BridgeInv, TypeOK, ThreadStates, Requests
<1>3. r \in ThreadStates /\ r.board = b /\ ReadOwn(r) /\ r.pc = "wait" /\ r.awaits = id
  BY <1>1, <1>2 DEF Send, At, ThreadStates, BridgeInv, AllOwn, ReadOwn
<1>4. mutex[b] = t /\ mutex' = [mutex EXCEPT ![b] = t]
  BY <1>1 DEF Send, At, Asks, BridgeInv, MutexHeld, TypeOK
<1>5. /\ toServer' = [toServer EXCEPT ![b] = Append(toServer[b], m)]
      /\ ~InFlight(b, id) /\ Becomes(t, r) /\ fromServer' = fromServer
  BY <1>1 DEF Send, BridgeInv, TypeOK
<1> HIDE DEF m, r, id
<1>6. AllCurrent(fromServer'[b], id)
  BY <1>5 DEF InFlight, AllCurrent
<1>7. AllCurrent(toServer'[b], id)
  <2>1. toServer[b] \in Seq(Requests) /\ toServer'[b] = Append(toServer[b], m)
    BY <1>1, <1>5 DEF BridgeInv, TypeOK
  <2>2. ASSUME NEW i \in DOMAIN toServer'[b], toServer'[b][i].id = id
        PROVE  toServer'[b][i] = m
    <3>1. CASE i \in DOMAIN toServer[b]
      BY <1>5, <2>1, <2>2, <3>1 DEF InFlight
    <3>2. CASE i = Len(toServer[b]) + 1
      BY <2>1, <3>2
    <3>3. QED
      BY <2>1, <3>1, <3>2
  <2>3. QED
    BY <1>2, <2>2 DEF AllCurrent
<1>8. \A c \in Boards \ {b} : toServer'[c] = toServer[c] /\ fromServer'[c] = fromServer[c]
  BY <1>5 DEF BridgeInv, TypeOK
<1>9. QED
  BY <1>3, <1>4, <1>5, <1>6, <1>7, <1>8, HolderKeeps

\* A reply that matches is the operation's own, or it carries no number; a snapshot that is
\* accepted is its own.
LEMMA ReplyIsOwn ==
    ASSUME BridgeInv, NEW t \in Threads, Arrived(t), ReplyMatches(t)
    PROVE  /\ WithReply(t) \in SUBSET Kinds /\ WithReply(t) \subseteq Exempt(Board(t))
           /\ thread[t].stage = "v8" /\ ReplyAccepted(t) => WithReply(t) = {}
<1>1. /\ fromServer[Board(t)] \in Seq(Replies) /\ fromServer[Board(t)] # <<>>
      /\ Board(t) \in Boards /\ thread[t] \in ThreadStates /\ Board(t) = thread[t].board
  BY BoardTyped DEF BridgeInv, TypeOK, Arrived
<1>2. 1 \in DOMAIN fromServer[Board(t)] /\ Reply(t) = fromServer[Board(t)][1]
  BY <1>1 DEF Reply
<1>3. Reply(t).id = thread[t].awaits => Reply(t).current
  BY <1>2 DEF BridgeInv, AwaitedIsCurrent, Arrived, AllCurrent
<1>4. Reply(t).correl = Reply(t).id \/ (Reply(t).correl = 0 /\ Board(t) \in Unnumbering)
  BY <1>1, <1>2 DEF BridgeInv, AllNumbered, Numbered
<1>5. Reply(t).id # 0
  <2>1. Reply(t) \in Replies
    BY <1>1 DEF Reply
  <2>2. QED
    BY <2>1, BridgeAssumption DEF Replies, Ids
<1>6. Reply(t).current \/ (Reply(t).correl = 0 /\ Board(t) \in Unnumbering)
  BY <1>3, <1>4, <1>5 DEF ReplyMatches
<1>7. thread[t].late \subseteq Exempt(Board(t)) /\ (thread[t].stage = "v8" => thread[t].late = {})
  BY <1>1 DEF BridgeInv, AllOwn, ReadOwn, Arrived, At
<1>8. WithReply(t) \in SUBSET Kinds
  BY <1>1, ReplyTyped DEF BridgeInv
<1>9. WithReply(t) \subseteq Exempt(Board(t))
  BY <1>6, <1>7 DEF WithReply, Exempt
<1>10. ASSUME thread[t].stage = "v8", ReplyAccepted(t) PROVE WithReply(t) = {}
  BY <1>3, <1>7, <1>10 DEF WithReply, ReplyAccepted
<1>11. QED
  BY <1>8, <1>9, <1>10

LEMMA TailCurrent ==
    ASSUME NEW S, NEW q \in Seq(S), q # <<>>, NEW id, AllCurrent(q, id)
    PROVE  AllCurrent(Tail(q), id)
<1>1. ASSUME NEW i \in DOMAIN Tail(q) PROVE i + 1 \in DOMAIN q /\ Tail(q)[i] = q[i + 1]
  OBVIOUS
<1>2. QED
  BY <1>1 DEF AllCurrent

LEMMA ReceiveStaleKeeps ==
    ASSUME BridgeInv, NEW t \in Threads, ReceiveStale(t)
    PROVE  MutexHeld' /\ AwaitedIsCurrent' /\ AllOwn'
<1> DEFINE b == Board(t)
<1>1. /\ thread[t] \in ThreadStates /\ b \in Boards /\ b = thread[t].board
      /\ thread[t].pc = "wait" /\ ReadOwn(thread[t]) /\ mutex[b] = t
  BY BoardTyped DEF BridgeInv, AllOwn, MutexHeld, Asks, ReceiveStale, Arrived, At
<1>2. /\ fromServer' = [fromServer EXCEPT ![b] = Tail(fromServer[b])]
      /\ fromServer[b] \in Seq(Replies) /\ fromServer[b] # <<>>
      /\ UNCHANGED <<mutex, thread, toServer>>
  BY <1>1 DEF ReceiveStale, Arrived, BridgeInv, TypeOK
<1>3. /\ Becomes(t, thread[t]) /\ mutex' = [mutex EXCEPT ![b] = t]
      /\ \A c \in Boards \ {b} : toServer'[c] = toServer[c] /\ fromServer'[c] = fromServer[c]
  BY <1>1, <1>2 DEF Becomes, BridgeInv, TypeOK
<1>4. /\ AllCurrent(toServer'[b], thread[t].awaits)
      /\ AllCurrent(fromServer[b], thread[t].awaits)
  BY <1>1, <1>2 DEF BridgeInv, AwaitedIsCurrent, At
<1>5. AllCurrent(fromServer'[b], thread[t].awaits)
  <2>1. fromServer'[b] = Tail(fromServer[b])
    BY <1>1, <1>2 DEF BridgeInv, TypeOK
  <2>2. QED
    BY <1>2, <1>4, <2>1, TailCurrent
<1>6. QED
  BY <1>1, <1>3, <1>4, <1>5, HolderKeeps

LEMMA ReceiveReplyKeeps ==
    ASSUME BridgeInv, NEW t \in Threads, ReceiveReply(t)
    PROVE  MutexHeld' /\ AwaitedIsCurrent' /\ AllOwn'
<1>1. /\ Arrived(t) /\ ReplyMatches(t) /\ Asks(t) /\ NotPolled \in Statuses
      /\ thread[t] \in ThreadStates /\ Board(t) \in Boards /\ Board(t) = thread[t].board
      /\ thread[t].pc = "wait" /\ ReadOwn(thread[t])
  BY BoardTyped
     DEF ReceiveReply, Arrived, At, Asks, NotPolled, Statuses, BridgeInv, AllOwn
<1>2. /\ Reply(t).reading \in Readings \cup {0}
      /\ WithReply(t) \in SUBSET Kinds /\ WithReply(t) \subseteq Exempt(Board(t))
      /\ thread[t].stage = "v8" /\ ReplyAccepted(t) => WithReply(t) = {}
  BY <1>1, ReplyIsOwn, ReplyTyped DEF BridgeInv
<1>3. ASSUME NEW result \in Statuses, Conclude(t, result), result.v8 => WithReply(t) = {}
      PROVE  MutexHeld' /\ AwaitedIsCurrent' /\ AllOwn'
  <2> DEFINE late == WithReply(t)
             left == Tail(fromServer[Board(t)])
  <2>1. /\ Finish(t, result, late, left)
        /\ late \in SUBSET Kinds /\ late \subseteq Exempt(Board(t)) /\ (result.v8 => late = {})
    BY <1>2, <1>3 DEF Conclude
  <2> HIDE DEF late, left
  <2>2. QED
    BY <1>1, <2>1, FinishKeeps
<1>4. ASSUME NEW stage \in {"test", "info"}, Continue(t, stage)
      PROVE  MutexHeld' /\ AwaitedIsCurrent' /\ AllOwn'
  <2> DEFINE late == WithReply(t)
             r == [thread[t] EXCEPT !.pc = "send", !.stage = stage, !.awaits = 0, !.late = late]
  <2>1. late \in SUBSET Kinds /\ late \subseteq Exempt(Board(t))
    BY <1>2
  <2> HIDE DEF late
  <2>2. r \in ThreadStates /\ r.board = Board(t) /\ ReadOwn(r) /\ r.pc = "send"
    BY <1>1, <2>1 DEF ThreadStates, Stages, ReadOwn
  <2>3. /\ Becomes(t, r) /\ UNCHANGED <<mutex, toServer>>
        /\ \A b \in Boards \ {Board(t)} : fromServer'[b] = fromServer[b]
    BY <1>4 DEF Continue, BridgeInv, TypeOK, late
  <2>4. mutex[Board(t)] = t /\ mutex' = [mutex EXCEPT ![Board(t)] = t]
    BY <1>1, <2>3 DEF BridgeInv, MutexHeld, TypeOK
  <2> HIDE DEF r
  <2>5. QED
    BY <2>2, <2>3, <2>4, HolderKeeps
<1>5. Snapshot(Reply(t).reading) \in Statuses /\ LegacyReadback(Reply(t).reading) \in Statuses
  BY <1>2 DEF Snapshot, LegacyReadback, Statuses
<1>6. ~NotPolled.v8 /\ ~LegacyReadback(Reply(t).reading).v8
  BY DEF NotPolled, LegacyReadback
<1>7. QED
  BY <1>1, <1>2, <1>3, <1>4, <1>5, <1>6 DEF ReceiveReply

LEMMA ClientStepKeeps ==
    ASSUME BridgeInv, NEW t \in Threads, ClientStep(t)
    PROVE  MutexHeld' /\ AwaitedIsCurrent' /\ AllOwn'
<1>1. CASE LockClient(t)
  <2> DEFINE r == [thread[t] EXCEPT !.pc = "send"]
  <2>1. thread[t] \in ThreadStates /\ Board(t) \in Boards /\ Board(t) = thread[t].board
    BY BoardTyped DEF BridgeInv
  <2>2. r \in ThreadStates /\ r.board = Board(t) /\ ReadOwn(r) /\ r.pc = "send"
    BY <1>1, <2>1 DEF LockClient, At, ThreadStates, BridgeInv, AllOwn, ReadOwn
  <2>3. /\ Becomes(t, r) /\ mutex[Board(t)] = Free /\ mutex' = [mutex EXCEPT ![Board(t)] = t]
        /\ UNCHANGED <<toServer, fromServer>>
    BY <1>1 DEF LockClient, link
  <2> HIDE DEF r
  <2>4. QED
    BY <2>2, <2>3, HolderKeeps
<1>2. CASE SendTimesOut(t) \/ ReceiveTimesOut(t)
  BY <1>2, GiveUpKeeps DEF SendTimesOut, ReceiveTimesOut, At, Asks
<1>3. QED
  BY <1>1, <1>2, SendKeeps, ReceiveStaleKeeps, ReceiveReplyKeeps DEF ClientStep

LEMMA WorkerLoopKeeps ==
    ASSUME BridgeInv, NEW w \in Workers, StartPoll(w) \/ StorePoll(w)
    PROVE  MutexHeld' /\ AwaitedIsCurrent' /\ AllOwn'
<1>1. w \in Threads
  BY DEF Workers, Threads
<1>2. /\ thread[w] \in ThreadStates /\ Board(w) \in Boards /\ Board(w) \in OwnBoards(w)
      /\ ReadOwn(thread[w])
  BY <1>1, BridgeAssumption, BoardTyped DEF BridgeInv, AllOwn, Workers, Main
<1>3. CASE StartPoll(w)
  <2> DEFINE r == [thread[w] EXCEPT !.pc = IF running THEN "lock" ELSE "done"]
  <2>1. r \in ThreadStates /\ r.pc \notin {"send", "wait"} /\ ReadOwn(r)
    BY <1>2, <1>3 DEF StartPoll, At, ThreadStates, ReadOwn
  <2>2. Becomes(w, r) /\ ~Asks(w) /\ UNCHANGED <<mutex, toServer, fromServer>>
    BY <1>3 DEF StartPoll, At, Asks, link
  <2> HIDE DEF r
  <2>3. QED
    BY <1>1, <2>1, <2>2, MoveKeeps
<1>4. CASE StorePoll(w)
  <2> DEFINE r == [thread[w] EXCEPT !.pc = "next", !.board = NextBoard(Board(w)),
                                    !.result = NotPolled, !.late = {}]
  <2>1. NextBoard(Board(w)) \in Boards /\ NotPolled \in Statuses
    BY <1>2, OwnBoardsClosed DEF OwnBoards, NotPolled, Statuses
  <2>2. r \in ThreadStates /\ r.pc \notin {"send", "wait"} /\ ReadOwn(r)
    BY <1>2, <2>1 DEF ThreadStates, ReadOwn
  <2>3. Becomes(w, r) /\ ~Asks(w) /\ UNCHANGED <<mutex, toServer, fromServer>>
    BY <1>4 DEF StorePoll, At, Asks, link
  <2> HIDE DEF r
  <2>4. QED
    BY <1>1, <2>2, <2>3, MoveKeeps
<1>5. QED
  BY <1>3, <1>4

LEMMA ServerLoopKeeps ==
    ASSUME BridgeInv,
           \/ UpdateNodes \/ CopyStatus \/ PublishBoard \/ StopPollers \/ JoinPollers
           \/ \E b \in Boards : CallMethod(b)
    PROVE  MutexHeld' /\ AwaitedIsCurrent' /\ AllOwn'
<1>1. Main \in Threads /\ 1 \in Boards /\ BoardCount \in Nat
  BY BridgeAssumption DEF Main, Threads, Boards
<1>2. thread[Main] \in ThreadStates /\ Board(Main) \in Boards /\ ReadOwn(thread[Main])
  BY <1>1, BoardTyped DEF BridgeInv, AllOwn
<1>3. ~Asks(Main) /\ UNCHANGED <<mutex, toServer, fromServer>>
  BY DEF UpdateNodes, CopyStatus, PublishBoard, StopPollers, JoinPollers, CallMethod, At, Asks, link
<1>4. PICK r \in ThreadStates : Becomes(Main, r) /\ r.pc \notin {"send", "wait"} /\ ReadOwn(r)
  <2>1. CASE UpdateNodes
    <3> DEFINE r == [thread[Main] EXCEPT !.pc = "update", !.board = 1, !.late = {}]
    <3>1. r \in ThreadStates /\ r.pc \notin {"send", "wait"} /\ ReadOwn(r) /\ Becomes(Main, r)
      BY <1>1, <1>2, <2>1 DEF UpdateNodes, ThreadStates, ReadOwn, Board, At
    <3>2. QED
      BY <3>1
  <2>2. CASE StopPollers
    <3> DEFINE r == [thread[Main] EXCEPT !.pc = "join"]
    <3>1. r \in ThreadStates /\ r.pc \notin {"send", "wait"} /\ ReadOwn(r) /\ Becomes(Main, r)
      BY <1>2, <2>2 DEF StopPollers, ThreadStates, ReadOwn, Board, At
    <3>2. QED
      BY <3>1
  <2>3. CASE JoinPollers
    <3> DEFINE r == [thread[Main] EXCEPT !.pc = "done"]
    <3>1. r \in ThreadStates /\ r.pc \notin {"send", "wait"} /\ ReadOwn(r) /\ Becomes(Main, r)
      BY <1>2, <2>3 DEF JoinPollers, ThreadStates, ReadOwn, Board, At
    <3>2. QED
      BY <3>1
  <2>4. ASSUME NEW b \in Boards, CallMethod(b)
        PROVE  \E r \in ThreadStates : Becomes(Main, r) /\ r.pc \notin {"send", "wait"} /\ ReadOwn(r)
    <3> DEFINE r == [thread[Main] EXCEPT !.pc = "lock", !.board = b, !.stage = "method", !.late = {}]
    <3>1. r \in ThreadStates /\ r.pc \notin {"send", "wait"} /\ ReadOwn(r) /\ Becomes(Main, r)
      BY <1>2, <2>4 DEF CallMethod, ThreadStates, Stages, ReadOwn, Board, At
    <3>2. QED
      BY <3>1
  <2>5. CASE PublishBoard
    <3> DEFINE r == IF Board(Main) = BoardCount
                    THEN [thread[Main] EXCEPT !.pc = "serve", !.board = 1]
                    ELSE [thread[Main] EXCEPT !.pc = "update", !.board = Board(Main) + 1]
    <3>1. Board(Main) # BoardCount => Board(Main) + 1 \in Boards
      BY <1>1, <1>2 DEF Boards
    <3>2. r \in ThreadStates /\ r.pc \notin {"send", "wait"} /\ ReadOwn(r)
      BY <1>1, <1>2, <2>5, <3>1 DEF ThreadStates, PublishBoard, At, ReadOwn, Board
    <3>3. Becomes(Main, r)
      BY <2>5 DEF PublishBoard
    <3>4. QED
      BY <3>2, <3>3
  <2>6. CASE CopyStatus
    <3> DEFINE r == [thread[Main] EXCEPT !.pc = "publish"]
    <3>1. r \in ThreadStates /\ r.pc \notin {"send", "wait"} /\ ReadOwn(r) /\ Becomes(Main, r)
      BY <1>2, <2>6 DEF CopyStatus, ThreadStates, ReadOwn, At
    <3>2. QED
      BY <3>1
  <2>7. QED
    BY <2>1, <2>2, <2>4, <2>5, <2>3, <2>6
<1>5. QED
  BY <1>1, <1>3, <1>4, MoveKeeps

\* A board copies the id of a request into its reply, and loses requests whole.
LEMMA ServerKeeps ==
    ASSUME BridgeInv, NEW b \in Boards, ServerAnswers(b) \/ RequestLost(b)
    PROVE  MutexHeld' /\ AwaitedIsCurrent' /\ AllOwn'
<1>1. /\ toServer[b] \in Seq(Requests) /\ toServer[b] # <<>> /\ fromServer[b] \in Seq(Replies)
      /\ toServer' = [toServer EXCEPT ![b] = Tail(toServer[b])]
      /\ UNCHANGED <<mutex, thread>>
  BY DEF BridgeInv, TypeOK, ServerAnswers, RequestLost
<1>2. MutexHeld' /\ AllOwn'
  BY <1>1 DEF BridgeInv, MutexHeld, AllOwn, Asks, Board
<1>3. ASSUME NEW t \in Threads, At(t, "wait")
      PROVE  /\ AllCurrent(toServer'[Board(t)], thread[t].awaits)
             /\ AllCurrent(fromServer'[Board(t)], thread[t].awaits)
  <2> DEFINE id == thread[t].awaits
  <2>1. /\ AllCurrent(toServer[Board(t)], id) /\ AllCurrent(fromServer[Board(t)], id)
        /\ Board(t) \in Boards
    BY <1>3, BoardTyped DEF BridgeInv, AwaitedIsCurrent
  <2>2. CASE Board(t) # b
    BY <1>1, <2>1, <2>2 DEF ServerAnswers, RequestLost, BridgeInv, TypeOK
  <2>3. CASE Board(t) = b
    <3>1. toServer'[b] = Tail(toServer[b]) /\ AllCurrent(Tail(toServer[b]), id)
      BY <1>1, <2>1, <2>3, TailCurrent DEF BridgeInv, TypeOK
    <3>2. CASE RequestLost(b)
      BY <2>1, <2>3, <3>1, <3>2 DEF RequestLost
    <3>3. CASE ServerAnswers(b)
      <4>1. PICK m : /\ fromServer' = [fromServer EXCEPT ![b] = Append(fromServer[b], m)]
                     /\ m.id = Head(toServer[b]).id /\ m.current = Head(toServer[b]).current
        <5>1. PICK ok \in BOOLEAN, reading \in Readings \cup {0}, correl \in Ids \cup {0} :
                fromServer' = [fromServer EXCEPT ![b] =
                                 Append(@, [id |-> Head(toServer[b]).id, correl |-> correl,
                                            stage |-> Head(toServer[b]).stage,
                                            ok |-> ok, reading |-> reading,
                                            current |-> Head(toServer[b]).current])]
          BY <3>3 DEF ServerAnswers
        <5> DEFINE m == [id |-> Head(toServer[b]).id, correl |-> correl,
                         stage |-> Head(toServer[b]).stage, ok |-> ok, reading |-> reading, current |-> Head(toServer[b]).current]
        <5>2. /\ fromServer' = [fromServer EXCEPT ![b] = Append(fromServer[b], m)]
              /\ m.id = Head(toServer[b]).id /\ m.current = Head(toServer[b]).current
          BY <5>1 DEF BridgeInv, TypeOK
        <5>3. QED
          BY <5>2
      <4>2. fromServer'[b] = Append(fromServer[b], m)
        BY <4>1 DEF BridgeInv, TypeOK
      <4>3. m.id = id => m.current
        BY <1>1, <2>1, <2>3, <4>1 DEF AllCurrent
      <4>4. AllCurrent(Append(fromServer[b], m), id)
        <5>1. ASSUME NEW i \in DOMAIN Append(fromServer[b], m)
              PROVE  \/ i \in DOMAIN fromServer[b] /\ Append(fromServer[b], m)[i] = fromServer[b][i]
                     \/ Append(fromServer[b], m)[i] = m
          BY <1>1
        <5>2. QED
          BY <2>1, <2>3, <4>3, <5>1 DEF AllCurrent
      <4>5. QED
        BY <2>3, <3>1, <4>2, <4>4
    <3>4. QED
      BY <3>2, <3>3
  <2>4. QED
    BY <2>2, <2>3
<1>4. AwaitedIsCurrent'
  BY <1>1, <1>3 DEF AwaitedIsCurrent, AllCurrent, At, Board
<1>5. QED
  BY <1>2, <1>4

\* What a board puts into the socket stays as it is there.
LEMMA NumberedStays ==
    ASSUME NEW b, NEW q \in Seq(Replies), Numbered(q, b)
    PROVE  Numbered(Disowned(q), b) /\ (q # <<>> => Numbered(Tail(q), b))
<1>1. ASSUME NEW i \in DOMAIN Disowned(q)
      PROVE  /\ i \in DOMAIN q
             /\ Disowned(q)[i].correl = q[i].correl /\ Disowned(q)[i].id = q[i].id
  <2>1. i \in DOMAIN q /\ Disowned(q)[i] = [q[i] EXCEPT !.current = FALSE] /\ q[i] \in Replies
    BY <1>1 DEF Disowned
  <2>2. QED
    BY <2>1 DEF Replies
<1>2. Numbered(Disowned(q), b)
  BY <1>1 DEF Numbered
<1>3. ASSUME q # <<>>, NEW i \in DOMAIN Tail(q) PROVE i + 1 \in DOMAIN q /\ Tail(q)[i] = q[i + 1]
  BY <1>3
<1>4. QED
  BY <1>2, <1>3 DEF Numbered

\* The socket of the thread's board, after a step of its client.
LEMMA ClientNumbers ==
    ASSUME TypeOK, AllNumbered, NEW t \in Threads, ClientStep(t)
    PROVE  AllNumbered'
<1> DEFINE b == Board(t)
           q == fromServer[b]
<1>1. b \in Boards /\ q \in Seq(Replies) /\ Numbered(q, b) /\ fromServer \in [Boards -> Seq(Replies)]
  BY BoardTyped DEF TypeOK, AllNumbered
<1>2. Numbered(Disowned(q), b) /\ (q # <<>> => Numbered(Tail(q), b) /\ Tail(q) \in Seq(Replies))
  BY <1>1, NumberedStays
<1>3. q # <<>> => Numbered(Disowned(Tail(q)), b)
  BY <1>2, NumberedStays
<1>4. ASSUME NEW left, fromServer' = [fromServer EXCEPT ![b] = left], Numbered(left, b)
      PROVE  AllNumbered'
  <2>1. \A c \in Boards : fromServer'[c] = IF c = b THEN left ELSE fromServer[c]
    BY <1>1, <1>4
  <2>2. ASSUME NEW c \in Boards PROVE Numbered(fromServer'[c], c)
    BY <1>4, <2>1 DEF AllNumbered
  <2>3. QED
    BY <2>2 DEF AllNumbered, Numbered
<1>5. ASSUME fromServer' = fromServer PROVE AllNumbered'
  BY <1>5 DEF AllNumbered, Numbered
<1>6. CASE SendTimesOut(t) \/ ReceiveTimesOut(t)
  <2>1. fromServer' = fromServer \/ fromServer' = [fromServer EXCEPT ![b] = Disowned(q)]
    BY <1>6 DEF SendTimesOut, ReceiveTimesOut, GiveUp, Finish
  <2> HIDE DEF b, q
  <2>2. QED
    BY <1>2, <1>4, <1>5, <2>1
<1>7. CASE ReceiveStale(t) \/ ReceiveReply(t)
  <2>1. /\ q # <<>>
        /\ \/ fromServer' = [fromServer EXCEPT ![b] = Disowned(Tail(q))]
           \/ fromServer' = [fromServer EXCEPT ![b] = Tail(q)]
    <3>1. CASE ReceiveStale(t)
      BY <1>1, <3>1 DEF ReceiveStale, Arrived
    <3>2. CASE ReceiveReply(t)
      <4>1. q # <<>>
        BY <3>2 DEF ReceiveReply, Arrived
      <4>2. \/ \E stage : Continue(t, stage)
            \/ \E result : Conclude(t, result)
        BY <3>2 DEF ReceiveReply
      <4>3. QED
        BY <1>1, <4>1, <4>2 DEF Continue, Conclude, Finish
    <3>3. QED
      BY <1>7, <3>1, <3>2
  <2> HIDE DEF b, q
  <2>2. QED
    BY <1>2, <1>3, <1>4, <2>1
<1>8. CASE LockClient(t) \/ Send(t)
  BY <1>5, <1>8 DEF LockClient, Send, link
<1>9. QED
  BY <1>6, <1>7, <1>8 DEF ClientStep

LEMMA ServerNumbers ==
    ASSUME TypeOK, AllNumbered, NEW b \in Boards, ServerAnswers(b)
    PROVE  AllNumbered'
<1>1. PICK m : /\ fromServer' = [fromServer EXCEPT ![b] = Append(fromServer[b], m)]
               /\ m.correl = m.id \/ (m.correl = 0 /\ b \in Unnumbering)
  <2>1. PICK ok \in BOOLEAN, reading \in Readings \cup {0}, correl \in Ids \cup {0} :
          /\ correl = Head(toServer[b]).id \/ (correl = 0 /\ b \in Unnumbering)
          /\ fromServer' = [fromServer EXCEPT ![b] =
                              Append(@, [id |-> Head(toServer[b]).id, correl |-> correl,
                                         stage |-> Head(toServer[b]).stage,
                                         ok |-> ok, reading |-> reading,
                                         current |-> Head(toServer[b]).current])]
    BY DEF ServerAnswers
  <2> DEFINE m == [id |-> Head(toServer[b]).id, correl |-> correl,
                   stage |-> Head(toServer[b]).stage, ok |-> ok, reading |-> reading,
                   current |-> Head(toServer[b]).current]
  <2>2. /\ fromServer' = [fromServer EXCEPT ![b] = Append(fromServer[b], m)]
        /\ m.correl = m.id \/ (m.correl = 0 /\ b \in Unnumbering)
    BY <2>1 DEF TypeOK
  <2>3. QED
    BY <2>2
<1>2. fromServer \in [Boards -> Seq(Replies)] /\ Numbered(fromServer[b], b)
  BY DEF TypeOK, AllNumbered
<1>3. ASSUME NEW i \in DOMAIN Append(fromServer[b], m)
      PROVE  \/ i \in DOMAIN fromServer[b] /\ Append(fromServer[b], m)[i] = fromServer[b][i]
             \/ Append(fromServer[b], m)[i] = m
  <2>1. fromServer[b] \in Seq(Replies)
    BY <1>2
  <2>2. QED
    BY <1>3, <2>1
<1>4. Numbered(Append(fromServer[b], m), b)
  BY <1>1, <1>2, <1>3 DEF Numbered
<1>5. \A c \in Boards : fromServer'[c] = IF c = b THEN Append(fromServer[b], m) ELSE fromServer[c]
  BY <1>1, <1>2
<1>6. ASSUME NEW c \in Boards PROVE Numbered(fromServer'[c], c)
  BY <1>4, <1>5 DEF AllNumbered
<1>7. QED
  BY <1>6 DEF AllNumbered, Numbered

LEMMA NextNumbers == TypeOK /\ AllNumbered /\ [Next]_vars => AllNumbered'
<1>1. SUFFICES ASSUME TypeOK, AllNumbered, [Next]_vars PROVE AllNumbered'
  OBVIOUS
<1>2. Main \in Threads /\ Workers \subseteq Threads
  BY BridgeAssumption DEF Main, Threads, Workers, Boards
<1>3. ASSUME fromServer' = fromServer PROVE AllNumbered'
  BY <1>1, <1>3 DEF AllNumbered, Numbered
<1>4. CASE UNCHANGED vars
  BY <1>3, <1>4 DEF vars
<1>5. ASSUME NEW w \in Workers, WorkerStep(w) PROVE AllNumbered'
  BY <1>1, <1>2, <1>3, <1>5, ClientNumbers DEF WorkerStep, StartPoll, StorePoll, link
<1>6. CASE MainStep \/ UpdateNodes \/ StopPollers
  BY <1>1, <1>2, <1>3, <1>6, ClientNumbers
     DEF MainStep, CopyStatus, PublishBoard, JoinPollers, UpdateNodes, StopPollers, link
<1>7. ASSUME NEW b \in Boards, CallMethod(b) \/ ServerAnswers(b) \/ RequestLost(b)
      PROVE  AllNumbered'
  BY <1>1, <1>3, <1>7, ServerNumbers DEF CallMethod, RequestLost, link
<1>8. QED
  BY <1>1, <1>4, <1>5, <1>6, <1>7 DEF Next

LEMMA NextOwn == BridgeInv /\ [Next]_vars => BridgeInv'
<1>1. SUFFICES ASSUME BridgeInv, [Next]_vars PROVE MutexHeld' /\ AwaitedIsCurrent' /\ AllOwn'
  BY NextTyped, NextNumbers DEF BridgeInv
<1>2. Main \in Threads /\ Workers \subseteq Threads
  BY BridgeAssumption DEF Main, Threads, Workers, Boards
<1>3. CASE UNCHANGED vars
  BY <1>1, <1>3
     DEF vars, BridgeInv, MutexHeld, AwaitedIsCurrent, AllCurrent, AllOwn, ReadOwn, Asks, At, Board
<1>4. ASSUME NEW w \in Workers, WorkerStep(w) PROVE MutexHeld' /\ AwaitedIsCurrent' /\ AllOwn'
  BY <1>1, <1>2, <1>4, WorkerLoopKeeps, ClientStepKeeps DEF WorkerStep
<1>5. CASE MainStep \/ UpdateNodes \/ StopPollers
  BY <1>1, <1>2, <1>5, ServerLoopKeeps, ClientStepKeeps DEF MainStep
<1>6. ASSUME NEW b \in Boards, CallMethod(b) \/ ServerAnswers(b) \/ RequestLost(b)
      PROVE  MutexHeld' /\ AwaitedIsCurrent' /\ AllOwn'
  BY <1>1, <1>6, ServerLoopKeeps, ServerKeeps
<1>7. QED
  BY <1>1, <1>3, <1>4, <1>5, <1>6 DEF Next

\* A poll that is stored as a success, and an answer given to a method call, were made of
\* replies to their own requests, never of one that came late for an earlier operation, except
\* where the board's server leaves replies without a number; a snapshot is its own even there.
THEOREM OwnAnswers == Spec => []AnswersAreOwn
<1>1. BridgeInv => AnswersAreOwn
  <2>1. Main \in Threads /\ Workers \subseteq Threads
    BY BridgeAssumption DEF Main, Threads, Workers, Boards
  <2>2. QED
    BY <2>1 DEF BridgeInv, AllOwn, ReadOwn, AnswersAreOwn, At, Board
<1>2. QED
  BY <1>1, InitOwn, NextOwn, PTL DEF Spec

\* Only the holder of the mutex takes a reply from the socket of its board, and it either drops
\* one it does not wait for or ends its wait.
LEMMA StepTakesOwn ==
    ASSUME BridgeInv, [Next]_vars, NEW b \in Boards, Len(fromServer'[b]) < Len(fromServer[b])
    PROVE  \E t \in Threads : /\ At(t, "wait") /\ Board(t) = b
                              /\ ReceiveStale(t) \/ ReceiveReply(t)
<1>1. /\ fromServer \in [Boards -> Seq(Replies)] /\ Main \in Threads /\ Workers \subseteq Threads
  BY BridgeAssumption DEF BridgeInv, TypeOK, Main, Threads, Workers, Boards
<1>2. fromServer' # fromServer /\ Len(fromServer[b]) \in Nat
  BY <1>1
<1>3. ASSUME NEW t \in Threads, GiveUp(t) PROVE Len(fromServer'[b]) = Len(fromServer[b])
  <2>1. fromServer[Board(t)] \in Seq(Replies)
    BY BoardTyped DEF BridgeInv, TypeOK
  <2>2. CASE fromServer' = [fromServer EXCEPT ![Board(t)] = Disowned(fromServer[Board(t)])]
    BY <1>1, <2>1, <2>2, DisownedTyped
  <2>3. QED
    BY <1>3, <2>2 DEF GiveUp, Finish
<1>4. ASSUME NEW t \in Threads, ClientStep(t)
      PROVE  ReceiveStale(t) \/ ReceiveReply(t)
  BY <1>2, <1>3, <1>4
     DEF ClientStep, LockClient, link, Send, SendTimesOut, ReceiveTimesOut
<1>5. ASSUME NEW c \in Boards, ServerAnswers(c) PROVE FALSE
  <2>1. PICK m : fromServer' = [fromServer EXCEPT ![c] = Append(@, m)]
    BY <1>5 DEF ServerAnswers
  <2>2. Len(Append(fromServer[c], m)) = Len(fromServer[c]) + 1 /\ Len(fromServer[c]) \in Nat
    BY <1>1
  <2>3. Len(fromServer'[b]) >= Len(fromServer[b])
    BY <1>1, <1>2, <2>1, <2>2
  <2>4. QED
    BY <1>2, <2>2, <2>1, <2>3, <1>1
<1>6. \E t \in Threads : ReceiveStale(t) \/ ReceiveReply(t)
  <2>1. CASE \E c \in Boards : CallMethod(c) \/ ServerAnswers(c) \/ RequestLost(c)
    BY <1>2, <1>5, <2>1 DEF CallMethod, RequestLost, link
  <2>2. CASE \E w \in Workers : WorkerStep(w)
    BY <1>1, <1>2, <1>4, <2>2 DEF WorkerStep, StartPoll, StorePoll, link
  <2>3. CASE MainStep
    BY <1>1, <1>2, <1>4, <2>3 DEF MainStep, CopyStatus, PublishBoard, JoinPollers, link
  <2>4. QED
    BY <1>2, <2>1, <2>2, <2>3 DEF Next, vars, UpdateNodes, StopPollers, link
<1>7. PICK t \in Threads : ReceiveStale(t) \/ ReceiveReply(t)
  BY <1>6
<1>8. At(t, "wait")
  BY <1>7 DEF ReceiveStale, ReceiveReply, Arrived
<1>9. \A c \in Boards \ {Board(t)} : fromServer'[c] = fromServer[c]
  BY <1>1, <1>7 DEF ReceiveStale, ReceiveReply, Conclude, Finish, Continue
<1>10. QED
  BY <1>2, <1>7, <1>8, <1>9

\* No thread takes from the socket the reply that another one waits for.
THEOREM NoReplyTaken == Spec => NoAnswerLost
<1>1. ASSUME BridgeInv, [Next]_vars, NEW b \in Boards, Len(fromServer'[b]) < Len(fromServer[b]),
             NEW t \in Threads, At(t, "wait"), Board(t) = b,
             Head(fromServer[b]).correl \in {0, thread[t].awaits}
      PROVE  thread'[t].pc # "wait"
  <2>1. PICK u \in Threads : /\ At(u, "wait") /\ Board(u) = b
                             /\ ReceiveStale(u) \/ ReceiveReply(u)
    BY <1>1, StepTakesOwn
  <2>2. u = t
    BY <1>1, <2>1, OneAsks DEF At, Asks
  <2>3. ReceiveReply(t)
    BY <1>1, <2>1, <2>2 DEF ReceiveStale, ReplyMatches, Reply
  <2>4. \A r : Becomes(t, r) => thread'[t] = r
    BY <1>1 DEF Becomes, BridgeInv, TypeOK
  <2>5. thread[t] \in ThreadStates
    BY <1>1, BoardTyped DEF BridgeInv
  <2>6. ASSUME NEW result, Conclude(t, result) PROVE thread'[t].pc # "wait"
    BY <2>4, <2>5, <2>6 DEF Conclude, Finish, ThreadStates
  <2>7. ASSUME NEW stage, Continue(t, stage) PROVE thread'[t].pc # "wait"
    BY <2>4, <2>5, <2>7 DEF Continue, ThreadStates
  <2>8. QED
    BY <2>3, <2>6, <2>7 DEF ReceiveReply
<1>2. BridgeInv /\ [Next]_vars =>
        [\A b \in Boards : Len(fromServer'[b]) < Len(fromServer[b]) =>
           \A t \in Threads :
               /\ At(t, "wait") /\ Board(t) = b
               /\ Head(fromServer[b]).correl \in {0, thread[t].awaits}
               => thread'[t].pc # "wait"]_vars
  BY <1>1
<1>3. QED
  BY <1>2, InitOwn, NextOwn, PTL DEF Spec, NoAnswerLost

-------------------------------------------------------------------------------
(***************************************************************************)
(* The nodes. status and lastGoodStatus are copied together: a status that *)
(* is good is the last good one, in the copies too.                        *)
(***************************************************************************)
GoodRemembered ==
    /\ \A b \in Boards : status[b].good => last_good[b].present /\ last_good[b].status = status[b]
    /\ copied.status.good => copied.last_good.present /\ copied.last_good.status = copied.status

LEMMA GoodRememberedKept ==
    TypeOK /\ GoodRemembered /\ [Next]_vars => GoodRemembered'
<1>1. SUFFICES ASSUME TypeOK, GoodRemembered, [Next]_vars PROVE GoodRemembered'
  OBVIOUS
<1>2. ASSUME NEW w \in Workers, StorePoll(w) PROVE GoodRemembered'
  BY <1>1, <1>2 DEF StorePoll, TypeOK, GoodRemembered
<1>3. CASE UNCHANGED <<status, last_good, copied>>
  BY <1>1, <1>3 DEF GoodRemembered
<1>4. ASSUME NEW t, ClientStep(t) PROVE UNCHANGED <<status, last_good, copied>>
  BY <1>4 DEF ClientStep, LockClient, Send, SendTimesOut, ReceiveTimesOut, ReceiveStale,
              ReceiveReply, published
<1>5. CASE CopyStatus
  <2>1. Board(Main) \in Boards
    BY <1>1, BoardTyped, BridgeAssumption DEF Main, Threads, Boards
  <2>2. QED
    BY <1>1, <1>5, <2>1 DEF CopyStatus, GoodRemembered
<1>6. CASE PublishBoard
  BY <1>1, <1>6 DEF PublishBoard, GoodRemembered, Uncopied, NotPolled
<1>7. CASE MainStep
  BY <1>3, <1>4, <1>5, <1>6, <1>7 DEF MainStep, JoinPollers, published
<1>8. ASSUME NEW w \in Workers, WorkerStep(w) PROVE GoodRemembered'
  BY <1>2, <1>3, <1>4, <1>8 DEF WorkerStep, StartPoll, published
<1>9. CASE \E b \in Boards : CallMethod(b) \/ ServerAnswers(b) \/ RequestLost(b)
  BY <1>3, <1>9 DEF CallMethod, ServerAnswers, RequestLost, published
<1>10. CASE UpdateNodes \/ StopPollers \/ UNCHANGED vars
  BY <1>3, <1>10 DEF UpdateNodes, StopPollers, published, vars
<1>11. QED
  BY <1>1, <1>7, <1>8, <1>9, <1>10 DEF Next

LEMMA PublishKeeps ==
    ASSUME TypeOK, GoodRemembered, NodesAreOfOnePoll, PublishBoard
    PROVE  NodesAreOfOnePoll'
<1> DEFINE c == Board(Main)
           shown == [reading |-> Measurement(c).reading, quality |-> MeasurementStatus]
<1>1. c \in Boards
  BY BoardTyped, BridgeAssumption DEF Main, Threads, Boards
<1>2. nodes' = [nodes EXCEPT ![c] =
                  [native |-> IF Measurement(c).v8 THEN shown ELSE nodes[c].native,
                   shared |-> shown, snapshot |-> Measurement(c).v8,
                   legacy |-> [good |-> copied.status.good, reading |-> copied.status.reading]]]
  BY <1>1 DEF PublishBoard, TypeOK
<1>3. ASSUME NEW b \in Boards, b # c PROVE nodes'[b] = nodes[b]
  BY <1>2, <1>3 DEF TypeOK
<1>4. /\ nodes'[c].shared = shown /\ nodes'[c].snapshot = Measurement(c).v8
      /\ nodes'[c].native = IF Measurement(c).v8 THEN shown ELSE nodes[c].native
      /\ nodes'[c].legacy.good = copied.status.good
      /\ nodes'[c].legacy.reading = copied.status.reading
  BY <1>1, <1>2 DEF TypeOK
<1>5. shown.quality = "Good" <=> copied.status.good
  BY DEF MeasurementStatus, TypeOK, Statuses
<1>6. copied.status.good => Measurement(c) = copied.status
  BY DEF Measurement, GoodRemembered
<1>7. copied.status.good => shown.reading = copied.status.reading
  BY <1>6
<1> HIDE DEF c, shown
<1>8. ASSUME NEW b \in Boards
      PROVE  /\ nodes'[b].shared.quality = "Good" <=> nodes'[b].legacy.good
             /\ nodes'[b].legacy.good => nodes'[b].shared.reading = nodes'[b].legacy.reading
             /\ nodes'[b].snapshot => nodes'[b].native = nodes'[b].shared
  <2>1. CASE b = c
    BY <1>4, <1>5, <1>7, <2>1
  <2>2. CASE b # c
    BY <1>3, <2>2 DEF NodesAreOfOnePoll
  <2>3. QED
    BY <2>1, <2>2
<1>9. QED
  BY <1>8 DEF NodesAreOfOnePoll

\* The nodes of a board are of one poll: Good exactly when the bridge's own nodes say that it
\* was a success, and then with its reading; and after a snapshot all canonical nodes agree.
THEOREM OnePoll == Spec => []NodesAreOfOnePoll
<1>1. Init => GoodRemembered /\ NodesAreOfOnePoll
  BY DEF Init, GoodRemembered, NodesAreOfOnePoll, NotPolled, Uncopied
<1>2. ASSUME [Next]_vars, ~PublishBoard PROVE nodes' = nodes
  <2>1. ASSUME NEW t, ClientStep(t) PROVE nodes' = nodes
    BY <2>1 DEF ClientStep, LockClient, Send, SendTimesOut, ReceiveTimesOut, ReceiveStale,
                ReceiveReply, published
  <2>2. QED
    BY <1>2, <2>1 DEF Next, vars, WorkerStep, StartPoll, StorePoll, MainStep, CopyStatus, JoinPollers,
                      UpdateNodes, StopPollers, CallMethod, ServerAnswers, RequestLost, published
<1>3. TypeOK /\ GoodRemembered /\ NodesAreOfOnePoll /\ [Next]_vars => NodesAreOfOnePoll'
  BY <1>2, PublishKeeps DEF NodesAreOfOnePoll
<1>4. QED
  BY <1>1, <1>3, Typing, GoodRememberedKept, PTL DEF Spec

===============================================================================
