----------------------------- MODULE RequestAnswer -----------------------------
(***************************************************************************)
(* What the RPMsg transport promises its caller, without numbers, queues   *)
(* and replies: requests are asked one at a time; the RPU runs the frames  *)
(* of each request one after the other from the first on, none twice and   *)
(* none after a frame of a later request, perhaps long after the request   *)
(* was given up; and a success is told only when all frames of the very    *)
(* request have been run and none of another since. The last one is        *)
(* promised while the numbering is sound, that is, unless the numbers      *)
(* began anew over what an earlier request left behind.                    *)
(***************************************************************************)
EXTENDS Integers, Sequences

VARIABLES
    sizes,   \* the frames of each request asked so far
    sound,   \* whether the numbering of the last one is
    answer,  \* "pending" or what the last request was answered
    ran      \* the frames the RPU has run: of which request, and which of its frames

vars == <<sizes, sound, answer, ran>>

asked == Len(sizes)

Init ==
    /\ sizes = <<>>
    /\ sound = TRUE
    /\ answer = "none"
    /\ ran = <<>>

\* The last frame of the last request has been run, and nothing after it.
Complete ==
    /\ ran # <<>>
    /\ ran[Len(ran)] = [request |-> asked, index |-> sizes[asked]]

Ask ==
    /\ answer # "pending"
    /\ sizes' \in Seq(Nat \ {0}) /\ Len(sizes') = asked + 1
    /\ \A r \in 1 .. asked : sizes'[r] = sizes[r]
    /\ sound' \in BOOLEAN
    /\ answer' = "pending"
    /\ UNCHANGED ran

\* The frame that may be run when last was the last one: the next one of the same request, or
\* the first one of a later request.
MayFollow(last, frame) ==
    IF last.request = frame.request
    THEN frame.index = last.index + 1
    ELSE last.request < frame.request /\ frame.index = 1

\* A frame of the last request, or a late one of an earlier request.
Run(frame) ==
    /\ frame.request \in 1 .. asked /\ frame.index \in 1 .. sizes[frame.request]
    /\ IF ran = <<>> THEN frame.index = 1 ELSE MayFollow(ran[Len(ran)], frame)
    /\ ran' = Append(ran, frame)
    /\ UNCHANGED <<sizes, sound, answer>>

Succeed ==
    /\ answer = "pending"
    /\ sound => Complete
    /\ answer' = "success"
    /\ UNCHANGED <<sizes, sound, ran>>

\* A failure says nothing: the frames may have been run, or may be run later.
Fail ==
    /\ answer = "pending"
    /\ answer' = "failure"
    /\ UNCHANGED <<sizes, sound, ran>>

\* The server restarts, and no answer is given.
Forget ==
    /\ answer' = "none"
    /\ UNCHANGED <<sizes, sound, ran>>

Next ==
    \/ Ask \/ Succeed \/ Fail \/ Forget
    \/ \E r \in 1 .. asked : \E i \in 1 .. sizes[r] : Run([request |-> r, index |-> i])

Spec == Init /\ [][Next]_vars

===============================================================================
