----------------------------- MODULE PreflightGate -----------------------------
(***************************************************************************)
(* The server's request loop (router::run) and the gate in front of the    *)
(* RPU: LinuxPreflight::check with its cached status, and handle_payload,  *)
(* which puts a request through to the RPU transport or answers it.        *)
(*                                                                         *)
(* The board changes while the loop runs: a service stops, a clock unlocks *)
(* between two checks of one collection, between the check and the submit, *)
(* and between two submits of one request. The transport itself is AfeLink;*)
(* here a submit takes any time and has any result.                        *)
(***************************************************************************)
EXTENDS Integers, Sequences

CONSTANTS
    CheckCount,   \* checks of a collection, about twelve in the code
    Ttl,          \* how long a status is reused, 1000 ms in the code
    AlignReads,   \* read-backs that follow an alignment, AFE_COUNT in the code
    MaxTime       \* bound: ticks of the clock in a behaviour

ASSUME GateAssumption ==
    /\ CheckCount \in Nat \ {0}
    /\ Ttl \in Nat \ {0}
    /\ AlignReads \in Nat \ {0}
    /\ MaxTime \in Nat

Checks == 1 .. CheckCount

(***************************************************************************)
(* What a client may send, as the server tells it apart: an envelope that  *)
(* is ignored (undecodable, not version 2, not a request), an AFE command, *)
(* one whose payload or values are refused, an alignment, a slow control   *)
(* status query, and a request served by Linux alone.                      *)
(***************************************************************************)
Kinds == {"Ignored", "AfeCommand", "BadAfeCommand", "AlignAfe", "SlowControlStatus", "Linux"}

VARIABLES
    now,          \* the monotonic clock
    up,           \* history: the checks the board satisfies
    changed,      \* history: when each check last changed
    pc,           \* "recv", "check", "collect", "handle" or "align"
    kind,         \* the request being served
    received_at,  \* history: when it was received
    cached,       \* LinuxPreflight.cached
    status,       \* the PreflightStatus handed to the handler
    reads_left,   \* alignment read-backs still to submit
    submits,      \* history: commands submitted for this request
    reply         \* the result of the last request, "none" while it is served

vars == <<now, up, changed, pc, kind, received_at, cached, status, reads_left, submits, reply>>

board == <<up, changed>>

Times == 0 .. MaxTime

\* A status is the results of its checks in order, and when they were collected.
Statuses == [results : UNION {[1 .. n -> BOOLEAN] : n \in 0 .. CheckCount},
             started : Times, finished : Times]

\* PreflightStatus::ready: no check, so nothing that could fail.
ReadyStatus == [results |-> <<>>, started |-> 0, finished |-> 0]

\* ready_for_hardware_commands
Ready(s) == \A i \in DOMAIN s.results : s.results[i]

NoCache == [present |-> FALSE, status |-> ReadyStatus]

\* A server that starts while the board is in any condition.
Init ==
    /\ now = 0
    /\ up \in SUBSET Checks
    /\ changed = [c \in Checks |-> 0]
    /\ pc = "recv"
    /\ kind = "Ignored"
    /\ received_at = 0
    /\ cached = NoCache
    /\ status = ReadyStatus
    /\ reads_left = 0
    /\ submits = 0
    /\ reply = "none"

\* Mutant: an alignment is taken for a read-only request.
NeedsPreflightForWrites(k) == k \in {"AfeCommand", "BadAfeCommand", "SlowControlStatus"}

NeedsPreflight(k) == k \in {"AfeCommand", "BadAfeCommand", "AlignAfe", "SlowControlStatus"}

Receive(k) ==
    /\ pc = "recv"
    /\ kind' = k
    /\ received_at' = now
    /\ submits' = 0
    /\ reply' = "none"
    /\ IF NeedsPreflight(k)
       THEN pc' = "check" /\ UNCHANGED status
       ELSE pc' = "handle" /\ status' = ReadyStatus
    /\ UNCHANGED <<now, board, cached, reads_left>>

-------------------------------------------------------------------------------
(***************************************************************************)
(* LinuxPreflight::check                                                   *)
(***************************************************************************)
\* Mutant: the age of the cached status is not looked at.
CacheFilled == cached.present

CacheFresh == cached.present /\ now - cached.status.finished < Ttl

UseCached ==
    /\ pc = "check"
    /\ CacheFresh
    /\ status' = cached.status
    /\ pc' = "handle"
    /\ UNCHANGED <<now, board, kind, received_at, cached, reads_left, submits, reply>>

StartCollection ==
    /\ pc = "check"
    /\ ~CacheFresh
    /\ status' = [results |-> <<>>, started |-> now, finished |-> now]
    /\ pc' = "collect"
    /\ UNCHANGED <<now, board, kind, received_at, cached, reads_left, submits, reply>>

\* One after the other: systemd units, files, devices, clock chip, endpoint registers.
RunCheck ==
    /\ pc = "collect"
    /\ Len(status.results) < CheckCount
    /\ status' = [status EXCEPT !.results = Append(@, Len(@) + 1 \in up)]
    /\ UNCHANGED <<now, board, pc, kind, received_at, cached, reads_left, submits, reply>>

\* checked_at is read after the last check.
FinishCollection ==
    /\ pc = "collect"
    /\ Len(status.results) = CheckCount
    /\ status' = [status EXCEPT !.finished = now]
    /\ cached' = [present |-> TRUE, status |-> status']
    /\ pc' = "handle"
    /\ UNCHANGED <<now, board, kind, received_at, reads_left, submits, reply>>

-------------------------------------------------------------------------------
(***************************************************************************)
(* handle_payload                                                          *)
(***************************************************************************)
Answer(result) ==
    /\ pc' = "recv"
    /\ reply' = result

\* handle_envelope gives no response, and nothing is sent.
Ignore ==
    /\ pc = "handle"
    /\ kind = "Ignored"
    /\ Answer("none")
    /\ UNCHANGED <<now, board, kind, received_at, cached, status, reads_left, submits>>

\* The payload is decoded and validated before any transport is called.
RefuseCommand ==
    /\ pc = "handle"
    /\ kind = "BadAfeCommand"
    /\ Answer("failure")
    /\ UNCHANGED <<now, board, kind, received_at, cached, status, reads_left, submits>>

\* PreflightRejectedRpuTransport; a failed submit ends an alignment too.
RejectPreflight ==
    /\ pc = "handle"
    /\ kind \in {"AfeCommand", "AlignAfe"}
    /\ ~Ready(status)
    /\ Answer("preflight")
    /\ UNCHANGED <<now, board, kind, received_at, cached, status, reads_left, submits>>

SubmitAfeCommand ==
    /\ pc = "handle"
    /\ kind = "AfeCommand"
    /\ Ready(status)
    /\ submits' = submits + 1
    /\ \E result \in {"success", "failure"} : Answer(result)
    /\ UNCHANGED <<now, board, kind, received_at, cached, status, reads_left>>

\* After an alignment that the RPU answered, applied or not, the vectors are read back.
SubmitAlign ==
    /\ pc = "handle"
    /\ kind = "AlignAfe"
    /\ Ready(status)
    /\ submits' = submits + 1
    /\ \/ Answer("failure") /\ UNCHANGED reads_left
       \/ \E result \in {"success", "failure"} :
             /\ reply' = result
             /\ pc' = "align"
             /\ reads_left' = AlignReads
    /\ UNCHANGED <<now, board, kind, received_at, cached, status>>

\* Mutant: one read-back too many.
ReadAlignmentInclusive ==
    /\ pc = "align"
    /\ submits' = submits + 1
    /\ reads_left' = reads_left - 1
    /\ pc' = IF reads_left = 0 THEN "recv" ELSE "align"
    /\ UNCHANGED <<now, board, kind, received_at, cached, status, reply>>

\* read_alignment_vectors; a read-back that fails is left out of the vectors.
SubmitReadAlignment ==
    /\ pc = "align"
    /\ submits' = submits + 1
    /\ reads_left' = reads_left - 1
    /\ pc' = IF reads_left = 1 THEN "recv" ELSE "align"
    /\ UNCHANGED <<now, board, kind, received_at, cached, status, reply>>

\* handle_slow_control_status asks the RPU for its status even when the preflight failed.
AnswerSlowControlStatus ==
    /\ pc = "handle"
    /\ kind = "SlowControlStatus"
    /\ \E answered \in BOOLEAN :
         Answer(IF ~Ready(status) THEN "preflight"
                ELSE IF answered THEN "success" ELSE "failure")
    /\ UNCHANGED <<now, board, kind, received_at, cached, status, reads_left, submits>>

AnswerLinux ==
    /\ pc = "handle"
    /\ kind = "Linux"
    /\ \E result \in {"success", "failure"} : Answer(result)
    /\ UNCHANGED <<now, board, kind, received_at, cached, status, reads_left, submits>>

\* The process dies and systemd starts it again: nothing it held survives.
Restart ==
    /\ pc' = "recv"
    /\ cached' = NoCache
    /\ status' = ReadyStatus
    /\ kind' = "Ignored"
    /\ reads_left' = 0
    /\ submits' = 0
    /\ reply' = "none"
    /\ UNCHANGED <<now, board, received_at>>

-------------------------------------------------------------------------------
Tick ==
    /\ now < MaxTime
    /\ now' = now + 1
    /\ UNCHANGED <<board, pc, kind, received_at, cached, status, reads_left, submits, reply>>

BoardChanges ==
    /\ \E c \in Checks :
         /\ up' = IF c \in up THEN up \ {c} ELSE up \cup {c}
         /\ changed' = [changed EXCEPT ![c] = now]
    /\ UNCHANGED <<now, pc, kind, received_at, cached, status, reads_left, submits, reply>>

Next ==
    \/ \E k \in Kinds : Receive(k)
    \/ UseCached \/ StartCollection \/ RunCheck \/ FinishCollection
    \/ Ignore \/ RefuseCommand \/ RejectPreflight
    \/ SubmitAfeCommand \/ SubmitAlign \/ SubmitReadAlignment
    \/ AnswerSlowControlStatus \/ AnswerLinux
    \/ Restart
    \/ Tick \/ BoardChanges

Spec == Init /\ [][Next]_vars

-------------------------------------------------------------------------------
(***************************************************************************)
(* Properties                                                              *)
(***************************************************************************)
TypeOK ==
    /\ now \in Times
    /\ up \subseteq Checks
    /\ changed \in [Checks -> Times]
    /\ pc \in {"recv", "check", "collect", "handle", "align"}
    /\ kind \in Kinds
    /\ received_at \in Times
    /\ cached \in [present : BOOLEAN, status : Statuses]
    /\ status \in Statuses
    /\ reads_left \in 0 .. AlignReads
    /\ submits \in 0 .. AlignReads + 1
    /\ reply \in {"none", "success", "failure", "preflight"}

\* The check holds now, or did at some time since t.
UpSince(c, t) == c \in up \/ changed[c] >= t

\* The check fails now, or did at some time since t.
DownSince(c, t) == c \notin up \/ changed[c] >= t

\* A command goes to the RPU only after a complete collection of which no check failed, that
\* ended less than the TTL before the request was received, or later, and since whose start
\* every single check has held at some time: a check that fails throughout closes the gate.
\* needs_preflight and route_message_type classify the request separately, and a request
\* that the first does not know would be handed a status without checks.
SubmitOnlyChecked ==
    [][submits' > submits =>
         /\ Len(status.results) = CheckCount
         /\ status.finished + Ttl > received_at
         /\ \A c \in Checks : UpSince(c, status.started)]_vars

\* A request is turned away by the preflight only if some check was really failing at some
\* time since the collection it is judged by began, and that collection is not older than
\* the TTL: the gate opens again by itself.
RejectOnlySick ==
    [][(reply' = "preflight" /\ reply # "preflight") =>
         /\ status.finished + Ttl > received_at
         /\ \E c \in Checks : DownSince(c, status.started)]_vars

\* An AFE command or a status query is answered success only with every check passed, and
\* an AFE command only with a command submitted for it.
SuccessMeansReady ==
    (reply = "success" /\ kind # "Linux") =>
        /\ Ready(status) /\ Len(status.results) = CheckCount
        /\ kind # "SlowControlStatus" => submits > 0

===============================================================================
