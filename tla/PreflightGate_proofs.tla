------------------------- MODULE PreflightGate_proofs -------------------------
(***************************************************************************)
(* The gate's theorems, for any number of checks, any TTL and any number   *)
(* of ticks.                                                               *)
(***************************************************************************)
EXTENDS PreflightGate, TLAPS

-------------------------------------------------------------------------------
(***************************************************************************)
(* Types. A status is kept as a sequence of check results here, which      *)
(* Append keeps; that no sequence is longer than CheckCount is part of it. *)
(***************************************************************************)
StatusType(s) ==
    /\ s = [results |-> s.results, started |-> s.started, finished |-> s.finished]
    /\ s.results \in Seq(BOOLEAN)
    /\ Len(s.results) <= CheckCount
    /\ s.started \in Nat /\ s.finished \in Nat
    /\ s.started <= now /\ s.finished <= now

Types ==
    /\ now \in Nat
    /\ changed \in [Checks -> Nat]
    /\ received_at \in Nat /\ received_at <= now
    /\ kind \in Kinds
    /\ StatusType(status)
    /\ StatusType(cached.status)
    /\ submits \in Nat

\* Every result of a status was true of the board at some time since its collection began.
Witnessed(s) ==
    \A c \in 1 .. Len(s.results) :
        IF s.results[c] THEN UpSince(c, s.started) ELSE DownSince(c, s.started)

(***************************************************************************)
(* The inductive invariant: statuses tell the truth about the board, a     *)
(* cached one is complete, and a request that needs the preflight reaches  *)
(* its handler with a complete one that is young enough.                   *)
(***************************************************************************)
Gated ==
    /\ pc \in {"handle", "align"} /\ NeedsPreflight(kind) =>
          Len(status.results) = CheckCount /\ status.finished + Ttl > received_at
    /\ pc = "align" => kind = "AlignAfe" /\ Ready(status) /\ submits > 0
    /\ reply = "success" /\ kind # "Linux" =>
          /\ Ready(status) /\ Len(status.results) = CheckCount
          /\ kind # "SlowControlStatus" => submits > 0
          /\ pc \in {"recv", "align"}

GateInv ==
    /\ Types
    /\ Witnessed(status)
    /\ cached.present => Witnessed(cached.status) /\ Len(cached.status.results) = CheckCount
    /\ Gated

\* The status without checks has its type, and witnesses nothing.
LEMMA ReadyStatusType ==
    /\ ReadyStatus.results = <<>> /\ ReadyStatus.started = 0 /\ ReadyStatus.finished = 0
    /\ ReadyStatus.results \in Seq(BOOLEAN) /\ Len(ReadyStatus.results) = 0
<1>1. <<>> \in Seq(BOOLEAN) /\ Len(<<>>) = 0
  OBVIOUS
<1>2. QED BY <1>1 DEF ReadyStatus

LEMMA ReadyStatusTyped == now \in Nat => StatusType(ReadyStatus)
<1>1. ReadyStatus = [results |-> ReadyStatus.results, started |-> ReadyStatus.started,
                     finished |-> ReadyStatus.finished]
  BY DEF ReadyStatus
<1>2. QED BY <1>1, ReadyStatusType, GateAssumption DEF StatusType

LEMMA GateInit == Init => GateInv
<1>1. SUFFICES ASSUME Init PROVE GateInv
  OBVIOUS
<1>2. StatusType(status) /\ StatusType(cached.status)
  BY <1>1, ReadyStatusTyped DEF Init, NoCache
<1>3. Types
  BY <1>1, <1>2 DEF Init, Types, Kinds
<1>4. Witnessed(status) /\ ~cached.present
  BY <1>1, ReadyStatusType DEF Init, Witnessed, NoCache
<1>5. QED BY <1>1, <1>3, <1>4 DEF Init, GateInv, Gated

\* The environment's steps: time goes on, and a check that changes has just had both values.
LEMMA EnvironmentKeeps == GateInv /\ (Tick \/ BoardChanges) => GateInv'
<1>1. SUFFICES ASSUME GateInv, Tick \/ BoardChanges PROVE GateInv'
  OBVIOUS
<1>2. CASE Tick
  <2>1. Types'
    BY <1>1, <1>2 DEF Tick, board, GateInv, Types, StatusType
  <2>2. QED
    BY <1>1, <1>2, <2>1 DEF Tick, board, GateInv, Witnessed, UpSince, DownSince, Gated, Ready
<1>3. CASE BoardChanges
  <2>1. PICK c \in Checks : /\ up' = IF c \in up THEN up \ {c} ELSE up \cup {c}
                            /\ changed' = [changed EXCEPT ![c] = now]
    BY <1>3 DEF BoardChanges
  <2>2. UNCHANGED <<now, pc, kind, received_at, cached, status, reads_left, submits, reply>>
    BY <1>3 DEF BoardChanges
  <2>3. Types'
    BY <1>1, <2>1, <2>2 DEF GateInv, Types, StatusType
  <2>4. ASSUME NEW t \in Nat, t <= now, NEW d \in Checks
        PROVE  /\ UpSince(d, t) => UpSince(d, t)'
               /\ DownSince(d, t) => DownSince(d, t)'
    BY <1>1, <2>1, <2>4 DEF UpSince, DownSince, GateInv, Types
  <2>5. ASSUME NEW s, StatusType(s), Witnessed(s)
        PROVE  \A d \in 1 .. Len(s.results) :
                   IF s.results[d] THEN UpSince(d, s.started)' ELSE DownSince(d, s.started)'
    <3>1. \A d \in 1 .. Len(s.results) : d \in Checks
      BY <2>5, GateAssumption DEF StatusType, Checks
    <3>2. QED BY <2>4, <2>5, <3>1 DEF StatusType, Witnessed
  <2>6. Witnessed(status)' /\ (cached.present => Witnessed(cached.status)')
    BY <1>1, <2>2, <2>5 DEF GateInv, Types, Witnessed, UpSince, DownSince
  <2>7. Gated'
    BY <1>1, <2>2 DEF GateInv, Gated, Ready
  <2>8. QED BY <1>1, <2>2, <2>3, <2>6, <2>7 DEF GateInv
<1>4. QED BY <1>1, <1>2, <1>3

LEMMA ReceiveKeeps == \A k \in Kinds : GateInv /\ Receive(k) => GateInv'
<1>1. SUFFICES ASSUME NEW k \in Kinds, GateInv, Receive(k) PROVE GateInv'
  OBVIOUS
<1>2. Types'
  <2>1. CASE status' = status
    BY <1>1, <2>1 DEF Receive, board, GateInv, Types, StatusType
  <2>2. CASE status' = ReadyStatus
    BY <1>1, <2>2, ReadyStatusType, GateAssumption
       DEF Receive, board, GateInv, Types, StatusType, ReadyStatus
  <2>3. QED BY <1>1, <2>1, <2>2 DEF Receive
<1>3. Witnessed(status)'
  BY <1>1 DEF Receive, board, GateInv, Witnessed, ReadyStatus, UpSince, DownSince
<1>4. Gated'
  BY <1>1 DEF Receive, board, GateInv, Gated
<1>5. cached' = cached /\ (cached.present => Witnessed(cached.status)')
  BY <1>1 DEF Receive, board, GateInv, Witnessed, UpSince, DownSince
<1>6. QED BY <1>1, <1>2, <1>3, <1>4, <1>5 DEF GateInv

\* A cache hit hands over a status that is complete and younger than the TTL.
LEMMA UseCachedKeeps == GateInv /\ UseCached => GateInv'
<1>1. SUFFICES ASSUME GateInv, UseCached PROVE GateInv'
  OBVIOUS
<1>2. Types'
  BY <1>1 DEF UseCached, board, GateInv, Types, StatusType
<1>3. /\ Witnessed(status)' /\ Witnessed(cached.status)'
      /\ Len(status'.results) = CheckCount
  BY <1>1 DEF UseCached, CacheFresh, board, GateInv, Witnessed, UpSince, DownSince
<1>4. status'.finished + Ttl > received_at'
  <2>1. now \in Nat /\ received_at \in Nat /\ received_at <= now /\ cached.status.finished \in Nat
    BY <1>1 DEF GateInv, Types, StatusType
  <2>2. /\ now - cached.status.finished < Ttl
        /\ status' = cached.status /\ received_at' = received_at
    BY <1>1 DEF UseCached, CacheFresh
  <2>3. QED BY <2>1, <2>2, GateAssumption
<1>5. Gated'
  BY <1>1, <1>3, <1>4 DEF UseCached, board, GateInv, Gated
<1>6. QED BY <1>1, <1>2, <1>3, <1>5 DEF UseCached, CacheFresh, GateInv

LEMMA StartCollectionKeeps == GateInv /\ StartCollection => GateInv'
<1>1. SUFFICES ASSUME GateInv, StartCollection PROVE GateInv'
  OBVIOUS
<1>2. Types'
  <2>1. <<>> \in Seq(BOOLEAN) /\ Len(<<>>) = 0
    OBVIOUS
  <2>2. QED
    BY <1>1, <2>1, GateAssumption DEF StartCollection, board, GateInv, Types, StatusType
<1>3. Witnessed(status)'
  BY <1>1 DEF StartCollection, Witnessed
<1>4. cached' = cached /\ (cached.present => Witnessed(cached.status)')
  BY <1>1 DEF StartCollection, board, GateInv, Witnessed, UpSince, DownSince
<1>5. Gated'
  BY <1>1 DEF StartCollection, board, GateInv, Gated
<1>6. QED BY <1>1, <1>2, <1>3, <1>4, <1>5 DEF GateInv

\* A check's result is true of the board when it is read.
LEMMA RunCheckKeeps == GateInv /\ RunCheck => GateInv'
<1>1. SUFFICES ASSUME GateInv, RunCheck PROVE GateInv'
  OBVIOUS
<1>2. /\ status'.results = Append(status.results, Len(status.results) + 1 \in up)
      /\ status'.started = status.started /\ status'.finished = status.finished
      /\ status' = [results |-> status'.results, started |-> status'.started,
                    finished |-> status'.finished]
  BY <1>1 DEF RunCheck, GateInv, Types, StatusType
<1>3. /\ status'.results \in Seq(BOOLEAN)
      /\ Len(status'.results) = Len(status.results) + 1
      /\ \A c \in 1 .. Len(status.results) : status'.results[c] = status.results[c]
      /\ status'.results[Len(status.results) + 1] = (Len(status.results) + 1 \in up)
  BY <1>1, <1>2 DEF GateInv, Types, StatusType
<1>4. Types'
  <2>1. Types /\ StatusType(status) /\ Len(status.results) < CheckCount
    BY <1>1 DEF RunCheck, GateInv, Types
  <2>2. UNCHANGED <<now, board, kind, received_at, cached, submits>>
    BY <1>1 DEF RunCheck
  <2>3. Len(status.results) \in Nat /\ Len(status'.results) <= CheckCount
    BY <1>3, <2>1, GateAssumption DEF StatusType
  <2>4. StatusType(status)'
    BY <1>2, <1>3, <2>1, <2>2, <2>3 DEF StatusType
  <2>5. StatusType(cached.status)'
    BY <2>1, <2>2 DEF Types, StatusType
  <2>6. QED BY <2>1, <2>2, <2>4, <2>5 DEF Types, board
<1>5. Witnessed(status)'
  <2>1. SUFFICES ASSUME NEW c \in 1 .. Len(status'.results)
                 PROVE  IF status'.results[c] THEN UpSince(c, status.started)'
                                              ELSE DownSince(c, status.started)'
    BY <1>2 DEF Witnessed, UpSince, DownSince
  <2>2. CASE c \in 1 .. Len(status.results)
    BY <1>1, <1>3, <2>2 DEF RunCheck, board, GateInv, Witnessed, UpSince, DownSince
  <2>3. CASE c = Len(status.results) + 1
    BY <1>1, <1>3, <2>3 DEF RunCheck, board, UpSince, DownSince
  <2>4. QED BY <1>1, <1>3, <2>2, <2>3 DEF GateInv, Types, StatusType
<1>6. cached' = cached /\ (cached.present => Witnessed(cached.status)')
  BY <1>1 DEF RunCheck, board, GateInv, Witnessed, UpSince, DownSince
<1>7. Gated'
  BY <1>1 DEF RunCheck, board, GateInv, Gated
<1>8. QED BY <1>1, <1>4, <1>5, <1>6, <1>7 DEF GateInv

LEMMA FinishCollectionKeeps == GateInv /\ FinishCollection => GateInv'
<1>1. SUFFICES ASSUME GateInv, FinishCollection PROVE GateInv'
  OBVIOUS
<1>2. /\ status'.results = status.results /\ status'.started = status.started
      /\ status'.finished = now /\ cached'.status = status' /\ cached'.present
      /\ status' = [results |-> status'.results, started |-> status'.started,
                    finished |-> status'.finished]
  BY <1>1 DEF FinishCollection, GateInv, Types, StatusType
<1>3. Types'
  BY <1>1, <1>2 DEF FinishCollection, board, GateInv, Types, StatusType
<1>4. Witnessed(status)' /\ Witnessed(cached.status)'
  BY <1>1, <1>2 DEF FinishCollection, board, GateInv, Witnessed, UpSince, DownSince
<1>5. Len(status'.results) = CheckCount /\ status'.finished + Ttl > received_at'
  BY <1>1, <1>2, GateAssumption DEF FinishCollection, board, GateInv, Types
<1>6. Gated'
  BY <1>1, <1>5 DEF FinishCollection, board, GateInv, Gated
<1>7. QED BY <1>2, <1>3, <1>4, <1>5, <1>6 DEF GateInv

Handles ==
    \/ Ignore \/ RefuseCommand \/ RejectPreflight
    \/ SubmitAfeCommand \/ SubmitAlign \/ SubmitReadAlignment
    \/ AnswerSlowControlStatus \/ AnswerLinux

LEMMA HandlersKeep == GateInv /\ Handles => GateInv'
<1>1. SUFFICES ASSUME GateInv, Handles PROVE GateInv'
  OBVIOUS
<1>2. /\ UNCHANGED <<now, board, kind, received_at, cached, status>>
      /\ submits' \in {submits, submits + 1}
  BY <1>1
     DEF Handles, Ignore, RefuseCommand, RejectPreflight, SubmitAfeCommand, SubmitAlign,
         SubmitReadAlignment, AnswerSlowControlStatus, AnswerLinux
<1>3. Types'
  BY <1>1, <1>2 DEF board, GateInv, Types, StatusType
<1>4. /\ Witnessed(status)'
      /\ cached'.present => Witnessed(cached.status)' /\ Len(cached'.status.results) = CheckCount
  BY <1>1, <1>2 DEF board, GateInv, Witnessed, UpSince, DownSince
<1>5. Ready(status)' = Ready(status)
  BY <1>2 DEF Ready
<1>6. Gated'
  <2>1. CASE Ignore \/ RefuseCommand \/ RejectPreflight \/ AnswerLinux
    BY <1>1, <1>2, <2>1
       DEF Ignore, RefuseCommand, RejectPreflight, AnswerLinux, Answer, GateInv, Gated
  <2>2. CASE SubmitAfeCommand \/ SubmitAlign
    BY <1>1, <1>2, <1>5, <2>2
       DEF SubmitAfeCommand, SubmitAlign, Answer, GateInv, Gated, NeedsPreflight, Types
  <2>3. CASE SubmitReadAlignment
    BY <1>1, <1>2, <1>5, <2>3 DEF SubmitReadAlignment, GateInv, Gated, NeedsPreflight, Types
  <2>4. CASE AnswerSlowControlStatus
    BY <1>1, <1>2, <1>5, <2>4
       DEF AnswerSlowControlStatus, Answer, GateInv, Gated, NeedsPreflight
  <2>5. QED BY <1>1, <2>1, <2>2, <2>3, <2>4 DEF Handles
<1>7. QED BY <1>3, <1>4, <1>6 DEF GateInv

LEMMA RestartKeeps == GateInv /\ Restart => GateInv'
<1>1. SUFFICES ASSUME GateInv, Restart PROVE GateInv'
  OBVIOUS
<1>2. StatusType(status)' /\ StatusType(cached.status)'
  BY <1>1, ReadyStatusTyped DEF Restart, NoCache, GateInv, Types, StatusType
<1>3. Types'
  BY <1>1, <1>2 DEF Restart, board, GateInv, Types, Kinds
<1>4. Witnessed(status)' /\ ~cached'.present
  BY <1>1, ReadyStatusType DEF Restart, Witnessed, NoCache
<1>5. QED BY <1>1, <1>3, <1>4 DEF Restart, GateInv, Gated

LEMMA GateInvariant == Spec => []GateInv
<1>1. GateInv /\ [Next]_vars => GateInv'
  <2>1. CASE UNCHANGED vars
    BY <2>1 DEF vars, GateInv, Types, StatusType, Witnessed, UpSince, DownSince, Gated, Ready
  <2>2. CASE Next
    BY <2>2, EnvironmentKeeps, ReceiveKeeps, UseCachedKeeps, StartCollectionKeeps,
       RunCheckKeeps, FinishCollectionKeeps, HandlersKeep, RestartKeeps
       DEF Next, Handles
  <2>3. QED BY <2>1, <2>2
<1>2. QED BY <1>1, GateInit, PTL DEF Spec

\* A complete status all of whose checks passed was true of every check since it began.
LEMMA ReadyWitnessed ==
    ASSUME Types, Witnessed(status), Len(status.results) = CheckCount
    PROVE  /\ Ready(status) => \A c \in Checks : UpSince(c, status.started)
           /\ ~Ready(status) => \E c \in Checks : DownSince(c, status.started)
<1>1. DOMAIN status.results = 1 .. Len(status.results)
  BY DEF Types, StatusType
<1>2. QED BY <1>1 DEF Ready, Witnessed, Checks

\* No command reaches the RPU but after a complete, recent collection without a failed check.
THEOREM SubmitChecked == Spec => SubmitOnlyChecked
<1> DEFINE Checked == /\ Len(status.results) = CheckCount
                      /\ status.finished + Ttl > received_at
                      /\ \A c \in Checks : UpSince(c, status.started)
<1>1. GateInv /\ [Next]_vars => [submits' > submits => Checked]_vars
  <2>1. SUFFICES ASSUME GateInv, Next, submits' > submits PROVE Checked
    BY DEF vars, GateInv, Types
  <2>2. CASE SubmitAfeCommand \/ SubmitAlign \/ SubmitReadAlignment
    <3>1. Ready(status) /\ pc \in {"handle", "align"} /\ NeedsPreflight(kind)
      BY <2>1, <2>2
         DEF SubmitAfeCommand, SubmitAlign, SubmitReadAlignment, GateInv, Gated, NeedsPreflight
    <3>2. QED BY <2>1, <3>1, ReadyWitnessed DEF GateInv, Gated
  <2>3. CASE ~(SubmitAfeCommand \/ SubmitAlign \/ SubmitReadAlignment)
    <3>1. submits' \in {submits, 0}
      BY <2>1, <2>3
         DEF Next, Receive, UseCached, StartCollection, RunCheck, FinishCollection, Ignore,
             RefuseCommand, RejectPreflight, AnswerSlowControlStatus, AnswerLinux, Restart,
             Tick, BoardChanges
    <3>2. QED BY <2>1, <3>1 DEF GateInv, Types
  <2>4. QED BY <2>2, <2>3
<1>2. QED BY <1>1, GateInvariant, PTL DEF Spec, SubmitOnlyChecked

\* The preflight turns a request away only for a check that really failed, and not for longer
\* than the TTL.
THEOREM RejectSick == Spec => RejectOnlySick
<1> DEFINE Sick == /\ status.finished + Ttl > received_at
                   /\ \E c \in Checks : DownSince(c, status.started)
<1>1. GateInv /\ [Next]_vars => [(reply' = "preflight" /\ reply # "preflight") => Sick]_vars
  <2>1. SUFFICES ASSUME GateInv, Next, reply' = "preflight", reply # "preflight" PROVE Sick
    BY DEF vars
  <2>2. RejectPreflight \/ AnswerSlowControlStatus
    BY <2>1
       DEF Next, Receive, UseCached, StartCollection, RunCheck, FinishCollection, Ignore,
           RefuseCommand, SubmitAfeCommand, SubmitAlign, SubmitReadAlignment, AnswerLinux,
           Restart, Tick, BoardChanges, Answer
  <2>3. ~Ready(status) /\ pc = "handle" /\ NeedsPreflight(kind)
    BY <2>1, <2>2 DEF RejectPreflight, AnswerSlowControlStatus, Answer, NeedsPreflight
  <2>4. QED BY <2>1, <2>3, ReadyWitnessed DEF GateInv, Gated
<1>2. QED BY <1>1, GateInvariant, PTL DEF Spec, RejectOnlySick

\* A success stands for checks that all passed and, for an AFE command, for a submit.
THEOREM SuccessReady == Spec => []SuccessMeansReady
<1>1. GateInv => SuccessMeansReady
  BY DEF GateInv, Gated, SuccessMeansReady
<1>2. QED BY <1>1, GateInvariant, PTL

-------------------------------------------------------------------------------
(***************************************************************************)
(* Typing. What GateInv leaves open: the bounds, and the count of the      *)
(* commands submitted for one request, which stays in its type only        *)
(* because the read-backs left and the commands sent add up.               *)
(***************************************************************************)
Bounds ==
    /\ now <= MaxTime
    /\ up \subseteq Checks
    /\ changed \in [Checks -> Times]
    /\ pc \in {"recv", "check", "collect", "handle", "align"}
    /\ cached = [present |-> cached.present, status |-> cached.status]
    /\ cached.present \in BOOLEAN
    /\ reply \in {"none", "success", "failure", "preflight"}

SubmitsCounted ==
    /\ reads_left \in 0 .. AlignReads
    /\ submits \in 0 .. AlignReads + 1
    /\ pc \in {"check", "collect", "handle"} => submits = 0
    /\ pc = "align" => reads_left > 0 /\ submits + reads_left = AlignReads + 1

\* Both kinds of status are one: a sequence of at most CheckCount results, taken in time.
LEMMA StatusInTypes ==
    ASSUME NEW s, StatusType(s), now \in Nat, now <= MaxTime
    PROVE  s \in Statuses
<1> DEFINE n == Len(s.results)
<1>1. n \in 0 .. CheckCount /\ s.results \in [1 .. n -> BOOLEAN]
  BY GateAssumption DEF StatusType
<1>2. s.results \in UNION {[1 .. k -> BOOLEAN] : k \in 0 .. CheckCount}
  BY <1>1
<1>3. s.started \in Times /\ s.finished \in Times
  BY GateAssumption DEF StatusType, Times
<1>4. QED BY <1>2, <1>3 DEF StatusType, Statuses

LEMMA BoundsInit == Init => Bounds /\ SubmitsCounted
BY GateAssumption DEF Init, Bounds, SubmitsCounted, NoCache, Times

LEMMA BoundsKept == Types /\ Bounds /\ [Next]_vars => Bounds'
<1>1. SUFFICES ASSUME Types, Bounds, [Next]_vars PROVE Bounds'
  OBVIOUS
<1>2. CASE UNCHANGED vars
  BY <1>1, <1>2 DEF vars, Bounds
<1>3. CASE \E k \in Kinds : Receive(k)
  BY <1>1, <1>3 DEF Receive, board, Bounds
<1>4. CASE UseCached \/ StartCollection \/ RunCheck
  BY <1>1, <1>4 DEF UseCached, StartCollection, RunCheck, board, Bounds
<1>5. CASE FinishCollection
  BY <1>1, <1>5 DEF FinishCollection, board, Bounds
<1>6. CASE Handles
  <2>1. UNCHANGED <<now, board, cached>>
    BY <1>6
       DEF Handles, Ignore, RefuseCommand, RejectPreflight, SubmitAfeCommand, SubmitAlign,
           SubmitReadAlignment, AnswerSlowControlStatus, AnswerLinux
  <2>2. /\ pc' \in {"recv", "align"}
        /\ reply' \in {"none", "success", "failure", "preflight"}
    BY <1>1, <1>6
       DEF Handles, Ignore, RefuseCommand, RejectPreflight, SubmitAfeCommand, SubmitAlign,
           SubmitReadAlignment, AnswerSlowControlStatus, AnswerLinux, Answer, Bounds
  <2>3. QED BY <1>1, <2>1, <2>2 DEF board, Bounds
<1>7. CASE Restart
  BY <1>1, <1>7 DEF Restart, board, Bounds, NoCache
<1>8. CASE Tick
  BY <1>1, <1>8, GateAssumption DEF Tick, board, Bounds, Types
<1>9. CASE BoardChanges
  <2>1. PICK c \in Checks : /\ up' = IF c \in up THEN up \ {c} ELSE up \cup {c}
                            /\ changed' = [changed EXCEPT ![c] = now]
    BY <1>9 DEF BoardChanges
  <2>2. now \in Times
    BY <1>1, GateAssumption DEF Types, Bounds, Times
  <2>3. up' \subseteq Checks /\ changed' \in [Checks -> Times]
    BY <1>1, <2>1, <2>2 DEF Bounds
  <2>4. QED BY <1>1, <1>9, <2>3 DEF BoardChanges, Bounds
<1>10. QED
  BY <1>1, <1>2, <1>3, <1>4, <1>5, <1>6, <1>7, <1>8, <1>9 DEF Next, Handles

\* An alignment submits one command and then its read-backs; every other request at most one.
LEMMA SubmitsKept == SubmitsCounted /\ [Next]_vars => SubmitsCounted'
<1>1. SUFFICES ASSUME SubmitsCounted, [Next]_vars PROVE SubmitsCounted'
  OBVIOUS
<1>2. CASE UNCHANGED vars
  BY <1>1, <1>2 DEF vars, SubmitsCounted
<1>3. CASE (\E k \in Kinds : Receive(k)) \/ Restart
  BY <1>1, <1>3, GateAssumption DEF Receive, Restart, SubmitsCounted
<1>4. CASE UseCached \/ StartCollection \/ RunCheck \/ FinishCollection \/ Tick \/ BoardChanges
  BY <1>1, <1>4
     DEF UseCached, StartCollection, RunCheck, FinishCollection, Tick, BoardChanges,
         SubmitsCounted
<1>5. CASE Ignore \/ RefuseCommand \/ RejectPreflight \/ AnswerSlowControlStatus \/ AnswerLinux
  BY <1>1, <1>5
     DEF Ignore, RefuseCommand, RejectPreflight, AnswerSlowControlStatus, AnswerLinux, Answer,
         SubmitsCounted
<1>6. CASE SubmitAfeCommand
  BY <1>1, <1>6, GateAssumption DEF SubmitAfeCommand, Answer, SubmitsCounted
<1>7. CASE SubmitAlign
  BY <1>1, <1>7, GateAssumption DEF SubmitAlign, Answer, SubmitsCounted
<1>8. CASE SubmitReadAlignment
  BY <1>1, <1>8, GateAssumption DEF SubmitReadAlignment, SubmitsCounted
<1>9. QED BY <1>1, <1>2, <1>3, <1>4, <1>5, <1>6, <1>7, <1>8 DEF Next

\* Every variable keeps its type; no request submits more than an alignment does.
THEOREM Typing == Spec => []TypeOK
<1>1. GateInv /\ Bounds /\ SubmitsCounted => TypeOK
  <2>1. SUFFICES ASSUME GateInv, Bounds, SubmitsCounted PROVE TypeOK
    OBVIOUS
  <2>2. now \in Times /\ received_at \in Times
    BY <2>1, GateAssumption DEF GateInv, Types, Bounds, Times
  <2>3. status \in Statuses /\ cached.status \in Statuses
    BY <2>1, StatusInTypes DEF GateInv, Types, Bounds
  <2>4. cached \in [present : BOOLEAN, status : Statuses]
    BY <2>1, <2>3 DEF Bounds
  <2>5. QED BY <2>1, <2>2, <2>3, <2>4 DEF GateInv, Types, Bounds, SubmitsCounted, TypeOK
<1>2. GateInv /\ Bounds /\ SubmitsCounted /\ [Next]_vars => Bounds' /\ SubmitsCounted'
  BY BoundsKept, SubmitsKept DEF GateInv
<1>3. QED BY <1>1, <1>2, BoundsInit, GateInvariant, PTL DEF Spec

===============================================================================
