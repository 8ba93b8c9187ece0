--------------------------------- MODULE Bridge ---------------------------------
(***************************************************************************)
(* The OPC UA bridge: its poll workers (daphnePollWorker), the OPC UA      *)
(* server loop (updateNodes from the timer, daphneMethodCallback for a     *)
(* client's method call) and, under both, the one DaphneClient of each     *)
(* board with its ZMQ socket, which clientMutex keeps to one thread.       *)
(*                                                                         *)
(* Thread 0 is the main thread, which runs the server loop; thread w > 0   *)
(* is a worker, which polls the boards b with (b - 1) % WorkerCount =      *)
(* w - 1, in order, over and over. Every step takes any time, so the sleep *)
(* between two cycles is not a step of its own.                            *)
(*                                                                         *)
(* A board's server is external: it answers its requests in order and may  *)
(* lose one. This repository's server copies msg_id into correl_id         *)
(* (v2.rs); the legacy server, which the client is there for as well, is   *)
(* not in the repository, and the client takes correl_id 0 from it. What a *)
(* board measured is one reading; 0 is the default of GeneralInfo and of   *)
(* DaphneStatus. Status.Quality says "Stale" for some of the time in which *)
(* the status code is Uncertain; only the status code is modelled.         *)
(***************************************************************************)
EXTENDS Integers, SequencesExt

CONSTANTS
    BoardCount,   \* boards of daphne.ids
    WorkerCount,  \* daphne.worker_count, at most one for each board
    Native,       \* boards that answer the v8 snapshot request
    Unnumbering,  \* boards whose server may leave the correl_id of a reply 0
    Measuring,    \* boards whose GeneralInfo is measured; this repository's server sends 0
    Readings,     \* what they measure
    IdMax,        \* bound: message ids, used again once no message carries them
    MaxCalls      \* bound: method calls in a behaviour

Boards == 1 .. BoardCount
Workers == 1 .. WorkerCount
Main == 0
Threads == 0 .. WorkerCount
Ids == 1 .. IdMax

ASSUME BridgeAssumption ==
    /\ BoardCount \in Nat \ {0}
    /\ WorkerCount \in Boards
    /\ Native \subseteq Boards /\ Measuring \subseteq Boards
    /\ Unnumbering \subseteq Boards
    /\ Readings \subseteq Nat \ {0} /\ Readings # {}
    /\ IdMax \in Nat \ {0}
    /\ MaxCalls \in Nat

VARIABLES
    running,          \* pollersRunning
    mutex,            \* the thread that holds a board's clientMutex, Free if none does
    thread,           \* where a thread is, the id it awaits a reply to, 0 for none, and
                      \* history: the replies to earlier requests that it took as its answers
    next_message_id,  \* DaphneClient::Impl.next_message_id_ of each board
    toServer,         \* the requests on the way to a board
    fromServer,       \* the replies on the way back
    status,           \* DaphneRuntime.status
    last_good,        \* DaphneRuntime.lastGoodStatus, and whether there is one
    copied,           \* d, lastGood and hasLastGood of updateNodes
    nodes,            \* what the OPC UA server shows of a board
    calls             \* method calls so far

vars == <<running, mutex, thread, next_message_id, toServer, fromServer,
          status, last_good, copied, nodes, calls>>

link == <<next_message_id, toServer, fromServer>>
published == <<status, last_good, copied, nodes>>

Free == -1

\* The boards a worker polls, and the one it polls after b.
OwnBoards(w) == {b \in Boards : (b - 1) % WorkerCount = w - 1}

\* Mutant: the index is not compared with the number of boards.
NextBoardUnchecked(b) == b + WorkerCount

NextBoard(b) == IF b + WorkerCount \in Boards THEN b + WorkerCount ELSE ((b - 1) % WorkerCount) + 1

(***************************************************************************)
(* A DaphneStatus: whether the poll was a success (connected and success), *)
(* whether a v8 snapshot made it, and the reading.                         *)
(***************************************************************************)
NotPolled == [good |-> FALSE, v8 |-> FALSE, reading |-> 0]
NeverGood == [present |-> FALSE, status |-> NotPolled]
Uncopied == [status |-> NotPolled, last_good |-> NeverGood]

Stages == {"v8", "test", "info", "method"}

\* A message in flight; current: history, the operation that sent the request, or asked
\* for the reply, is still under way.
Requests == [id : Ids, stage : Stages, current : BOOLEAN]

\* id: the request it answers, which a snapshot names in request_sequence; correl: correl_id.
Replies == [id : Ids, correl : Ids \cup {0}, stage : Stages, ok : BOOLEAN,
            reading : Readings \cup {0}, current : BOOLEAN]

Kinds == {"numbered", "unnumbered"}

\* Nodes of a board. In the registry's namespace: those that a v8 snapshot alone carries
\* (native), those that the legacy subset carries too (shared: bias, rails) and the one that
\* says which made them (snapshot: Bridge.BackendCompatibilityState). In the bridge's own:
\* Connected with Success, and the bias, which are written Good whatever they show.
Qualities == {"BadWaitingForInitialData", "Good", "Uncertain", "BadNotConnected"}
Unbacked == [reading |-> 0, quality |-> "BadWaitingForInitialData"]

\* main, before it starts the workers: updateNodes has run once, over statuses not polled.
Init ==
    /\ running = TRUE
    /\ mutex = [b \in Boards |-> Free]
    /\ thread = [t \in Threads |->
                   [pc |-> IF t = Main THEN "serve" ELSE "next",
                    board |-> IF t = Main THEN 1 ELSE t,
                    stage |-> "v8", awaits |-> 0, late |-> {}, result |-> NotPolled]]
    /\ next_message_id = [b \in Boards |-> 1]
    /\ toServer = [b \in Boards |-> <<>>]
    /\ fromServer = [b \in Boards |-> <<>>]
    /\ status = [b \in Boards |-> NotPolled]
    /\ last_good = [b \in Boards |-> NeverGood]
    /\ copied = Uncopied
    /\ nodes = [b \in Boards |->
                  [native |-> Unbacked,
                   shared |-> [reading |-> 0, quality |-> "BadNotConnected"],
                   snapshot |-> FALSE, legacy |-> [good |-> FALSE, reading |-> 0]]]
    /\ calls = 0

-------------------------------------------------------------------------------
(***************************************************************************)
(* SendRequest, by the thread that holds the client                        *)
(***************************************************************************)
At(t, pc) == thread[t].pc = pc

Board(t) == thread[t].board

Becomes(t, record) == thread' = [thread EXCEPT ![t] = record]

\* Mutant: the client is used without its mutex.
LockNothing(t) ==
    /\ At(t, "lock")
    /\ mutex' = [mutex EXCEPT ![Board(t)] = t]
    /\ Becomes(t, [thread[t] EXCEPT !.pc = "send"])
    /\ UNCHANGED <<running, link, published, calls>>

\* std::lock_guard over clientMutex: any waiting thread gets it, in no order.
LockClient(t) ==
    /\ At(t, "lock")
    /\ mutex[Board(t)] = Free
    /\ mutex' = [mutex EXCEPT ![Board(t)] = t]
    /\ Becomes(t, [thread[t] EXCEPT !.pc = "send"])
    /\ UNCHANGED <<running, link, published, calls>>

TakeId(b) == next_message_id' = [next_message_id EXCEPT ![b] = (@ % IdMax) + 1]

InFlight(b, id) ==
    \/ \E i \in DOMAIN toServer[b] : toServer[b][i].id = id
    \/ \E i \in DOMAIN fromServer[b] : fromServer[b][i].id = id

Send(t) ==
    /\ At(t, "send")
    /\ LET b == Board(t)
           id == next_message_id[b]
       IN  /\ ~InFlight(b, id)
           /\ toServer' = [toServer EXCEPT ![b] =
                             Append(@, [id |-> id, stage |-> thread[t].stage, current |-> TRUE])]
           /\ TakeId(b)
           /\ Becomes(t, [thread[t] EXCEPT !.pc = "wait", !.awaits = id])
    /\ UNCHANGED <<running, mutex, fromServer, published, calls>>

\* The operation is over: the mutex is released. What is still in flight belongs to nobody.
Disowned(messages) == [i \in DOMAIN messages |-> [messages[i] EXCEPT !.current = FALSE]]

\* Poll and Execute return. A worker ends a poll with a status to store, the main thread a call
\* with an answer for the OPC UA client; left are the replies that stay in the socket.
Finish(t, result, late, left) ==
    /\ Becomes(t, [thread[t] EXCEPT !.pc = IF t = Main THEN "serve" ELSE "store",
                                    !.stage = "v8", !.awaits = 0,
                                    !.result = result, !.late = late])
    /\ mutex' = [mutex EXCEPT ![Board(t)] = Free]
    /\ toServer' = [toServer EXCEPT ![Board(t)] = Disowned(toServer[Board(t)])]
    /\ fromServer' = [fromServer EXCEPT ![Board(t)] = Disowned(left)]

\* After an exception in PollTelemetryV8 the legacy poll begins; any other ends the operation.
GiveUp(t) ==
    IF thread[t].stage = "v8"
    THEN /\ Becomes(t, [thread[t] EXCEPT !.pc = "send", !.stage = "test", !.awaits = 0])
         /\ UNCHANGED <<mutex, toServer, fromServer>>
    ELSE Finish(t, NotPolled, thread[t].late, fromServer[Board(t)])

\* The message id is taken before the send times out.
SendTimesOut(t) ==
    /\ At(t, "send")
    /\ TakeId(Board(t))
    /\ GiveUp(t)
    /\ UNCHANGED <<running, published, calls>>

\* The deadline of the request passes, with or without a reply in the socket.
ReceiveTimesOut(t) ==
    /\ At(t, "wait")
    /\ GiveUp(t)
    /\ UNCHANGED <<running, next_message_id, published, calls>>

Arrived(t) == At(t, "wait") /\ fromServer[Board(t)] # <<>>

Reply(t) == Head(fromServer[Board(t)])

\* Mutant: a reply is not asked what it answers.
AnyReplyMatches(t) == Reply(t).correl \in Ids \cup {0}

\* A reply without a number passes for the answer to whatever was asked.
ReplyMatches(t) == Reply(t).correl \in {0, thread[t].awaits}

\* The reply to an earlier request is discarded, and the next one waited for.
ReceiveStale(t) ==
    /\ Arrived(t)
    /\ ~ReplyMatches(t)
    /\ fromServer' = [fromServer EXCEPT ![Board(t)] = Tail(@)]
    /\ UNCHANGED <<running, mutex, thread, next_message_id, toServer, published, calls>>

\* The type fits and the payload parses; for a snapshot ParseAndValidate accepts it, which
\* compares request_sequence, for the test register its value is the expected one.
ReplyAccepted(t) ==
    /\ Reply(t).ok /\ Reply(t).stage = thread[t].stage
    /\ thread[t].stage = "v8" => Reply(t).id = thread[t].awaits

\* History: the reply at hand was sent for an earlier operation.
WithReply(t) ==
    thread[t].late \cup
        IF Reply(t).current THEN {}
        ELSE IF Reply(t).correl = 0 THEN {"unnumbered"} ELSE {"numbered"}

Conclude(t, result) == Finish(t, result, WithReply(t), Tail(fromServer[Board(t)]))

Continue(t, stage) ==
    /\ Becomes(t, [thread[t] EXCEPT !.pc = "send", !.stage = stage, !.awaits = 0,
                                    !.late = WithReply(t)])
    /\ fromServer' = [fromServer EXCEPT ![Board(t)] = Tail(@)]
    /\ UNCHANGED <<mutex, toServer>>

Snapshot(reading) == [good |-> TRUE, v8 |-> TRUE, reading |-> reading]
LegacyReadback(reading) == [good |-> TRUE, v8 |-> FALSE, reading |-> reading]

\* PollTelemetryV8, PollLegacy and TransactJson, from the reply on.
ReceiveReply(t) ==
    /\ Arrived(t)
    /\ ReplyMatches(t)
    /\ CASE thread[t].stage = "method" -> Conclude(t, NotPolled)
         [] thread[t].stage = "v8" /\ ReplyAccepted(t) -> Conclude(t, Snapshot(Reply(t).reading))
         [] thread[t].stage = "v8" /\ ~ReplyAccepted(t) -> Continue(t, "test")
         [] thread[t].stage = "test" /\ ReplyAccepted(t) -> Continue(t, "info")
         [] thread[t].stage = "info" /\ ReplyAccepted(t) ->
              Conclude(t, LegacyReadback(Reply(t).reading))
         [] OTHER -> Conclude(t, NotPolled)
    /\ UNCHANGED <<running, next_message_id, published, calls>>

ClientStep(t) ==
    LockClient(t) \/ Send(t) \/ SendTimesOut(t) \/ ReceiveTimesOut(t) \/ ReceiveStale(t)
        \/ ReceiveReply(t)

-------------------------------------------------------------------------------
(***************************************************************************)
(* daphnePollWorker                                                        *)
(***************************************************************************)
\* Mutant: pollersRunning is looked at between two cycles only, and the boards go on.
StartPollAlways(w) ==
    /\ At(w, "next")
    /\ Becomes(w, [thread[w] EXCEPT !.pc = "lock"])
    /\ UNCHANGED <<running, mutex, link, published, calls>>

\* pollersRunning is looked at before every board and while the worker sleeps.
StartPoll(w) ==
    /\ At(w, "next")
    /\ Becomes(w, [thread[w] EXCEPT !.pc = IF running THEN "lock" ELSE "done"])
    /\ UNCHANGED <<running, mutex, link, published, calls>>

\* Mutant: a board that failed is polled again before the next one.
StoreAndRetry(w) ==
    /\ At(w, "store")
    /\ status' = [status EXCEPT ![Board(w)] = thread[w].result]
    /\ last_good' = IF thread[w].result.good
                    THEN [last_good EXCEPT ![Board(w)] =
                            [present |-> TRUE, status |-> thread[w].result]]
                    ELSE last_good
    /\ Becomes(w, [thread[w] EXCEPT !.pc = "next", !.result = NotPolled, !.late = {},
                                    !.board = IF thread[w].result.good THEN NextBoard(@) ELSE @])
    /\ UNCHANGED <<running, mutex, link, copied, nodes, calls>>

\* Both statuses change under one statusMutex. The worker goes on to its next board.
StorePoll(w) ==
    /\ At(w, "store")
    /\ status' = [status EXCEPT ![Board(w)] = thread[w].result]
    /\ last_good' = IF thread[w].result.good
                    THEN [last_good EXCEPT ![Board(w)] =
                            [present |-> TRUE, status |-> thread[w].result]]
                    ELSE last_good
    /\ Becomes(w, [thread[w] EXCEPT !.pc = "next", !.board = NextBoard(Board(w)),
                                    !.result = NotPolled, !.late = {}])
    /\ UNCHANGED <<running, mutex, link, copied, nodes, calls>>

WorkerStep(w) == StartPoll(w) \/ StorePoll(w) \/ ClientStep(w)

-------------------------------------------------------------------------------
(***************************************************************************)
(* The server loop                                                         *)
(***************************************************************************)
\* The repeated callback, or the end of a power method.
UpdateNodes ==
    /\ At(Main, "serve")
    /\ Becomes(Main, [thread[Main] EXCEPT !.pc = "update", !.board = 1, !.late = {}])
    /\ UNCHANGED <<running, mutex, link, published, calls>>

\* The next board of updateNodes: its statuses are copied under its statusMutex.
CopyStatus ==
    /\ At(Main, "update")
    /\ copied' = [status |-> status[Board(Main)], last_good |-> last_good[Board(Main)]]
    /\ Becomes(Main, [thread[Main] EXCEPT !.pc = "publish"])
    /\ UNCHANGED <<running, mutex, link, status, last_good, nodes, calls>>

\* Mutant: the last good status is read when it is written, after the unlock.
MeasurementLive(b) == IF last_good[b].present THEN last_good[b].status ELSE copied.status

Measurement(b) == IF copied.last_good.present THEN copied.last_good.status ELSE copied.status

MeasurementStatus ==
    IF copied.status.good THEN "Good"
    ELSE IF copied.last_good.present THEN "Uncertain" ELSE "BadNotConnected"

\* The nodes are written from the copies, without the mutex; a worker may have stored another
\* poll by then. A snapshot is published to all nodes of the board (its samples are Good
\* themselves), the legacy subset to the shared nodes alone. The nodes of the bridge's own
\* namespace show the newest status of the copies, and the zeroes of a poll that failed.
PublishBoard ==
    /\ At(Main, "publish")
    /\ LET b == Board(Main)
           shown == [reading |-> Measurement(b).reading, quality |-> MeasurementStatus]
       IN  /\ nodes' = [nodes EXCEPT ![b] =
                          [native |-> IF Measurement(b).v8 THEN shown ELSE @.native,
                           shared |-> shown, snapshot |-> Measurement(b).v8,
                           legacy |-> [good |-> copied.status.good,
                                       reading |-> copied.status.reading]]]
           /\ Becomes(Main, IF b = BoardCount
                            THEN [thread[Main] EXCEPT !.pc = "serve", !.board = 1]
                            ELSE [thread[Main] EXCEPT !.pc = "update", !.board = b + 1])
    /\ copied' = Uncopied
    /\ UNCHANGED <<running, mutex, link, status, last_good, calls>>

\* daphneMethodCallback for an executable method and an allowed role; every other call is
\* refused without a step. The server loop itself waits for the client.
CallMethod(b) ==
    /\ At(Main, "serve")
    /\ calls < MaxCalls
    /\ calls' = calls + 1
    /\ Becomes(Main, [thread[Main] EXCEPT !.pc = "lock", !.board = b, !.stage = "method",
                                          !.late = {}])
    /\ UNCHANGED <<running, mutex, link, published>>

\* A signal ends the server loop; then stopPollers.
StopPollers ==
    /\ At(Main, "serve")
    /\ running' = FALSE
    /\ Becomes(Main, [thread[Main] EXCEPT !.pc = "join"])
    /\ UNCHANGED <<mutex, link, published, calls>>

\* The worker of the power supply is joined too: each of its queries has a deadline
\* (PowerSupply), and it looks at pollersRunning as these do.
JoinPollers ==
    /\ At(Main, "join")
    /\ \A w \in Workers : At(w, "done")
    /\ Becomes(Main, [thread[Main] EXCEPT !.pc = "done"])
    /\ UNCHANGED <<running, mutex, link, published, calls>>

MainStep == CopyStatus \/ PublishBoard \/ JoinPollers \/ ClientStep(Main)

-------------------------------------------------------------------------------
(***************************************************************************)
(* The servers of the boards                                               *)
(***************************************************************************)
ServerAnswers(b) ==
    /\ toServer[b] # <<>>
    /\ \E ok \in BOOLEAN, reading \in Readings \cup {0}, correl \in Ids \cup {0} :
         /\ correl = Head(toServer[b]).id \/ (correl = 0 /\ b \in Unnumbering)
         /\ ok /\ Head(toServer[b]).stage = "v8" => b \in Native
         /\ reading \in Readings <=>
              /\ ok
              /\ \/ Head(toServer[b]).stage = "v8"
                 \/ Head(toServer[b]).stage = "info" /\ b \in Measuring
         /\ fromServer' = [fromServer EXCEPT ![b] =
                             Append(@, [id |-> Head(toServer[b]).id, correl |-> correl,
                                        stage |-> Head(toServer[b]).stage,
                                        ok |-> ok, reading |-> reading,
                                        current |-> Head(toServer[b]).current])]
    /\ toServer' = [toServer EXCEPT ![b] = Tail(@)]
    /\ UNCHANGED <<running, mutex, thread, next_message_id, published, calls>>

\* The board restarts, is not reachable, or the envelope is ignored.
RequestLost(b) ==
    /\ toServer[b] # <<>>
    /\ toServer' = [toServer EXCEPT ![b] = Tail(@)]
    /\ UNCHANGED <<running, mutex, thread, next_message_id, fromServer, published, calls>>

Next ==
    \/ \E w \in Workers : WorkerStep(w)
    \/ MainStep
    \/ UpdateNodes
    \/ StopPollers
    \/ \E b \in Boards : CallMethod(b) \/ ServerAnswers(b) \/ RequestLost(b)

Spec == Init /\ [][Next]_vars

\* Every thread is scheduled, and a receive returns by its deadline. clientMutex is a
\* std::mutex: a thread that waits for it while others take it in turn may wait for ever.
\* Nothing is assumed of the boards, the clients or the timer.
FairSpec ==
    /\ Spec
    /\ \A w \in Workers : WF_vars(WorkerStep(w))
    /\ WF_vars(MainStep)

-------------------------------------------------------------------------------
(***************************************************************************)
(* Properties                                                              *)
(***************************************************************************)
Statuses == [good : BOOLEAN, v8 : BOOLEAN, reading : Readings \cup {0}]
LastGoods == [present : BOOLEAN, status : Statuses]
NodeStates == [reading : Readings \cup {0}, quality : Qualities]
BoardNodes == [native : NodeStates, shared : NodeStates, snapshot : BOOLEAN,
               legacy : [good : BOOLEAN, reading : Readings \cup {0}]]

ThreadStates ==
    [pc : {"next", "serve", "update", "publish", "lock", "send", "wait", "store", "join", "done"},
     board : Boards, stage : Stages, awaits : Ids \cup {0}, late : SUBSET Kinds,
     result : Statuses]

\* A worker polls no board but its own; the rest is the shape of the state.
TypeOK ==
    /\ running \in BOOLEAN
    /\ mutex \in [Boards -> Threads \cup {Free}]
    /\ thread \in [Threads -> ThreadStates]
    /\ \A w \in Workers : thread[w].board \in OwnBoards(w)
    /\ next_message_id \in [Boards -> Ids]
    /\ toServer \in [Boards -> Seq(Requests)]
    /\ fromServer \in [Boards -> Seq(Replies)]
    /\ status \in [Boards -> Statuses]
    /\ last_good \in [Boards -> LastGoods]
    /\ copied \in [status : Statuses, last_good : LastGoods]
    /\ nodes \in [Boards -> BoardNodes]
    /\ calls \in 0 .. MaxCalls

\* The replies to earlier requests that the client cannot tell from its own.
Exempt(b) == IF b \in Unnumbering THEN {"unnumbered"} ELSE {}

\* A poll that is stored as a success, and an answer given to a method call, were made of
\* replies to their own requests, never of one that came late for an earlier poll or call on
\* the same socket. The exception are replies that carry no number: where a server sends them,
\* a late one passes for the answer to a request of its type. Not even then is a snapshot made
\* of another's reply: it is numbered inside as well.
AnswersAreOwn ==
    /\ \A w \in Workers : At(w, "store") /\ thread[w].result.good =>
         thread[w].late \subseteq IF thread[w].result.v8 THEN {} ELSE Exempt(Board(w))
    /\ At(Main, "serve") => thread[Main].late \subseteq Exempt(Board(Main))

\* A reply that answers what some thread waits for is not taken from the socket by another:
\* discarding what does not match is safe only because the poll and the method call of a board
\* never wait at the same time.
NoAnswerLost ==
    [][\A b \in Boards : Len(fromServer'[b]) < Len(fromServer[b]) =>
         \A t \in Threads :
             /\ At(t, "wait") /\ Board(t) = b
             /\ Head(fromServer[b]).correl \in {0, thread[t].awaits}
             => thread'[t].pc # "wait"]_vars

\* The nodes of a board are all of one poll, although the values come from lastGoodStatus and
\* the quality from status, and a worker may store a poll while they are written: the shared
\* nodes are Good exactly when the nodes of the bridge's own namespace say that the poll was a
\* success, and then show the same reading; and the nodes that a snapshot alone carries agree
\* with them unless the board is said to be on the legacy subset, when they keep what they
\* showed.
NodesAreOfOnePoll ==
    \A b \in Boards :
        /\ nodes[b].shared.quality = "Good" <=> nodes[b].legacy.good
        /\ nodes[b].legacy.good => nodes[b].shared.reading = nodes[b].legacy.reading
        /\ nodes[b].snapshot => nodes[b].native = nodes[b].shared

\* While the bridge runs every board is polled again and again, although the other boards of
\* its worker may never answer.
PollsGoOn ==
    \A b \in Boards : []<>(~running \/ \E w \in Workers : At(w, "store") /\ Board(w) = b)

\* stopPollers returns, whatever the workers are waiting for.
StopEnds == ~running ~> At(Main, "done")

\* opcua-bridge/README.md:199-201, a slow or unreachable board does not block the server loop:
\* the loop always comes back to serving.
LoopReturns == ~At(Main, "serve") ~> At(Main, "serve") \/ ~running

===============================================================================
