----------------------------- MODULE FrontendAlign -----------------------------
(***************************************************************************)
(* AfeMmioBackend::align_frontend: for one AFE after the other the delay   *)
(* is set to the middle of the longest run of taps that read one word, and *)
(* then the bit slip to the first one at which the expected frame clock    *)
(* word is read; a few more snapshots must read it again.                  *)
(*                                                                         *)
(* The serial link of an AFE is external. It has an eye, a run of taps at  *)
(* which a snapshot reads the word the bit slip rotates to, and a phase;   *)
(* outside of the eye a snapshot reads any word. The expected word is 0,   *)
(* the word rotated by n slips is n, and Noise is a word no slip rotates   *)
(* into the expected one (an AFE that is not clocked reads it everywhere). *)
(*                                                                         *)
(* After an alignment the server's handler reads the settings of every AFE *)
(* back and answers two vectors. No arm of the RPU's dispatch serves that  *)
(* read-back, so its answer is external: the settings or none.             *)
(***************************************************************************)
EXTENDS Integers, Sequences

CONSTANTS
    AfeCount,     \* 5 in the code
    Taps,         \* FRONTEND_DELAY_TAPS, 512 in the code
    Slips,        \* FRONTEND_BITSLIP_TAPS, 16 in the code
    VerifyReads   \* FRONTEND_VERIFY_READS, 4 in the code

ASSUME AlignAssumption ==
    /\ AfeCount \in Nat \ {0}
    /\ Taps \in Nat \ {0}
    /\ Slips \in Nat \ {0}
    /\ VerifyReads \in Nat

Afes == 0 .. AfeCount - 1
TapIds == 0 .. Taps - 1
SlipIds == 0 .. Slips - 1
Expected == 0
Noise == Slips
Words == SlipIds \cup {Noise}
NoMatch == -1

VARIABLES
    delay,     \* the delay register of each AFE
    bitslip,   \* its bit slip register
    vtc,       \* FRONTEND_DELAY_EN_VTC_BIT
    pc,        \* "idle", "ready", "delay", "slip" or "verify"
    afe,       \* afe_board
    tap,       \* the tap to try next
    best,      \* best_start and best_len
    current,   \* current_start and current_len
    previous,  \* previous_word
    matched,   \* matched_bitslip
    reads,     \* snapshots that read the expected word at the final bit slip
    result,    \* what align answered last
    scanned,   \* history: the word read at each tap, until the slips are tried
    link,      \* the eye and the phase of each AFE's link
    answer,    \* the entries of the handler's vectors
    asked      \* read-backs submitted since the alignment

registers == <<delay, bitslip, vtc>>
delayScan == <<best, current, previous, scanned>>
slipScan == <<matched, reads>>
scan == <<afe, tap, delayScan, slipScan>>
handler == <<answer, asked>>
vars == <<registers, pc, scan, result, link, handler>>

Runs == [start : 0 .. Taps, len : 0 .. Taps]
NoRun == [start |-> 0, len |-> 0]

\* An eye is a run of taps; a link in no condition, or one not tried yet, has none.
Unused == [low |-> 0, high |-> -1, phase |-> Noise]
Links == {l \in [low : TapIds, high : TapIds, phase : Words] : l.low <= l.high} \cup {Unused}

InEye(l, t) == t \in l.low .. l.high

WordAt(l, s) == IF l.phase = Noise THEN Noise ELSE (l.phase + s) % Slips

\* What a snapshot of the current AFE may read with these settings.
Snapshot(t, s) == IF InEye(link[afe], t) THEN {WordAt(link[afe], s)} ELSE Words

Zero == [a \in Afes |-> 0]
Unread == [t \in TapIds |-> Noise]

\* The registers of a front end that was never aligned, or by an earlier run of the RPU.
Init ==
    /\ delay = Zero
    /\ bitslip = Zero
    /\ vtc \in BOOLEAN
    /\ pc = "idle"
    /\ afe = 0
    /\ tap = 0
    /\ best = NoRun
    /\ current = NoRun
    /\ previous = 0
    /\ matched = NoMatch
    /\ reads = 0
    /\ result = "none"
    /\ scanned = Unread
    /\ link = [a \in Afes |-> Unused]
    /\ answer = <<>>
    /\ asked = AfeCount

-------------------------------------------------------------------------------
(***************************************************************************)
(* align_frontend                                                          *)
(***************************************************************************)
\* reset_frontend_delay_values, the two reset pulses, and the VTC off.
Align ==
    /\ pc = "idle" /\ asked = AfeCount
    /\ delay' = Zero
    /\ bitslip' = Zero
    /\ vtc' = FALSE
    /\ pc' = "ready"
    /\ result' = "none"
    /\ link' = [a \in Afes |-> Unused]
    /\ answer' = <<>>
    /\ UNCHANGED <<scan, asked>>

\* The locals of the two scans go out of scope.
DelayScanOver ==
    /\ best' = NoRun
    /\ current' = NoRun
    /\ previous' = 0
    /\ scanned' = Unread

SlipScanOver ==
    /\ tap' = 0
    /\ matched' = NoMatch
    /\ reads' = 0

\* set_best_frontend_delay begins for an AFE, whose link may be in any condition.
BeginAfe(a) ==
    /\ pc' = "delay"
    /\ afe' = a
    /\ \E l \in Links : link' = [link EXCEPT ![a] = l]

\* The handler goes on to read the settings back, if it has an answer.
Finish(r) ==
    /\ pc' = "idle"
    /\ result' = r
    /\ asked' = 0

DelayctrlReady ==
    /\ pc = "ready"
    /\ BeginAfe(0)
    /\ UNCHANGED <<registers, tap, delayScan, slipScan, result, handler>>

\* The early return leaves the VTC off.
DelayctrlTimesOut ==
    /\ pc = "ready"
    /\ Finish("Timeout")
    /\ UNCHANGED <<registers, scan, link, answer>>

\* Mutant: a run as long as the best one replaces it.
LongerOrEqual == IF current.len >= best.len THEN current ELSE best

Longer == IF current.len > best.len THEN current ELSE best

\* One tap: the run goes on with the same word, or ends and another one begins.
ScanDelay ==
    /\ pc = "delay"
    /\ tap < Taps
    /\ delay' = [delay EXCEPT ![afe] = tap]
    /\ \E word \in Snapshot(tap, bitslip[afe]) :
         /\ scanned' = [scanned EXCEPT ![tap] = word]
         /\ previous' = word
         /\ IF tap > 0 /\ word = previous
            THEN current' = [current EXCEPT !.len = @ + 1] /\ UNCHANGED best
            ELSE current' = [start |-> tap, len |-> 1] /\ best' = Longer
    /\ tap' = tap + 1
    /\ UNCHANGED <<bitslip, vtc, pc, afe, slipScan, result, link, handler>>

\* Mutant: the delay is set to the end of the run.
EndOfRun(r) == r.start + (r.len - 1)

\* Mutant: the tap behind the run.
TapBehind(r) == r.start + r.len

Middle(r) == r.start + (r.len - 1) \div 2

\* The run under way at the last tap counts too. A scan has a run, so none fails here.
PickDelay ==
    /\ pc = "delay"
    /\ tap = Taps
    /\ best' = Longer
    /\ delay' = [delay EXCEPT ![afe] = Middle(Longer)]
    /\ pc' = "slip"
    /\ tap' = 0
    /\ UNCHANGED <<bitslip, vtc, afe, current, previous, scanned, slipScan, result, link, handler>>

\* set_best_frontend_bitslip: all slips are tried, the first that matches is kept.
ScanSlip ==
    /\ pc = "slip"
    /\ tap < Slips
    /\ bitslip' = [bitslip EXCEPT ![afe] = tap]
    /\ \E word \in Snapshot(delay[afe], tap) :
         matched' = IF matched = NoMatch /\ word = Expected THEN tap ELSE matched
    /\ tap' = tap + 1
    /\ DelayScanOver
    /\ UNCHANGED <<delay, vtc, pc, afe, reads, result, link, handler>>

\* Mutant: the VTC is switched on again only after an alignment that went well.
GiveUpAtOnce ==
    /\ Finish("AlignmentFailed")
    /\ UNCHANGED vtc

\* The loop ends at the first AFE that fails; the VTC is switched on all the same.
GiveUp ==
    /\ Finish("AlignmentFailed")
    /\ vtc' = TRUE

SlipFound ==
    /\ pc = "slip"
    /\ tap = Slips
    /\ matched # NoMatch
    /\ bitslip' = [bitslip EXCEPT ![afe] = matched]
    /\ pc' = "verify"
    /\ UNCHANGED <<delay, vtc, scan, result, link, handler>>

\* The initial bit slip is put back, which the reset at the start had made 0.
NoSlipFound ==
    /\ pc = "slip"
    /\ tap = Slips
    /\ matched = NoMatch
    /\ bitslip' = [bitslip EXCEPT ![afe] = 0]
    /\ GiveUp
    /\ SlipScanOver
    /\ UNCHANGED <<delay, afe, delayScan, link, answer>>

\* The word at the final bit slip, and VerifyReads more.
Verified == reads = VerifyReads + 1

VerifyRead ==
    /\ pc = "verify"
    /\ ~Verified
    /\ \E word \in Snapshot(delay[afe], bitslip[afe]) :
         IF word = Expected
         THEN reads' = reads + 1 /\ UNCHANGED <<pc, vtc, tap, matched, result, asked>>
         ELSE GiveUp /\ SlipScanOver
    /\ UNCHANGED <<delay, bitslip, afe, delayScan, link, answer>>

NextAfe ==
    /\ pc = "verify"
    /\ Verified
    /\ afe < AfeCount - 1
    /\ BeginAfe(afe + 1)
    /\ SlipScanOver
    /\ UNCHANGED <<registers, delayScan, result, handler>>

Aligned ==
    /\ pc = "verify"
    /\ Verified
    /\ afe = AfeCount - 1
    /\ Finish("ok")
    /\ vtc' = TRUE
    /\ SlipScanOver
    /\ UNCHANGED <<delay, bitslip, afe, delayScan, link, answer>>

\* The RPU starts again in the middle: the registers of the FPGA keep what they have. The
\* handler's transport fails, so it reads nothing back.
Restart ==
    /\ pc # "idle"
    /\ pc' = "idle"
    /\ result' = "restarted"
    /\ DelayScanOver
    /\ SlipScanOver
    /\ UNCHANGED <<registers, afe, link, handler>>

-------------------------------------------------------------------------------
(***************************************************************************)
(* handle_align_afe, read_alignment_vectors                                *)
(***************************************************************************)
Entry(a) == [delay |-> delay[a], bitslip |-> bitslip[a]]

\* Mutant: a read-back without an answer is asked for again.
AskAgain ==
    /\ pc = "idle"
    /\ asked < AfeCount
    /\ answer' = Append(answer, Entry(asked))
    /\ asked' \in {asked, asked + 1}
    /\ UNCHANGED <<registers, pc, scan, result, link>>

\* A read-back that fails or is not valid leaves no entry.
ReadBack ==
    /\ pc = "idle"
    /\ asked < AfeCount
    /\ answer' \in {answer, Append(answer, Entry(asked))}
    /\ asked' = asked + 1
    /\ UNCHANGED <<registers, pc, scan, result, link>>

Next ==
    \/ Align
    \/ DelayctrlReady \/ DelayctrlTimesOut
    \/ ScanDelay \/ PickDelay
    \/ ScanSlip \/ SlipFound \/ NoSlipFound
    \/ VerifyRead \/ NextAfe \/ Aligned
    \/ Restart
    \/ ReadBack

Spec == Init /\ [][Next]_vars

-------------------------------------------------------------------------------
(***************************************************************************)
(* Properties                                                              *)
(***************************************************************************)
TypeOK ==
    /\ delay \in [Afes -> TapIds]
    /\ bitslip \in [Afes -> SlipIds]
    /\ vtc \in BOOLEAN
    /\ pc \in {"idle", "ready", "delay", "slip", "verify"}
    /\ afe \in Afes
    /\ tap \in Nat
    /\ best \in Runs
    /\ current \in Runs
    /\ previous \in Words
    /\ matched \in SlipIds \cup {NoMatch}
    /\ reads \in 0 .. VerifyReads + 1
    /\ result \in {"none", "ok", "AlignmentFailed", "Timeout", "restarted"}
    /\ scanned \in [TapIds -> Words]
    /\ link \in [Afes -> Links]
    /\ answer \in Seq([delay : TapIds, bitslip : SlipIds])
    /\ asked \in 0 .. AfeCount

\* A run of taps that all read one word.
IsRun(start, len) ==
    \A t \in start .. start + len - 1 : t \in TapIds /\ scanned[t] = scanned[start]

\* set_best_frontend_delay leaves the middle (the lower one of two) of the first of the
\* longest runs of equal words of its scan, whether it touches the first or the last tap.
DelayIsMiddleOfLongestRun ==
    pc = "slip" /\ tap = 0 =>
        \E s \in TapIds, n \in 1 .. Taps :
            /\ IsRun(s, n)
            /\ \A s2 \in TapIds, n2 \in 1 .. Taps :
                 IsRun(s2, n2) => n2 < n \/ (n2 = n /\ s2 >= s)
            /\ delay[afe] = s + (n - 1) \div 2

\* More taps in the eye than outside of it.
WideEye(a) == 2 * (link[a].high - link[a].low + 1) > Taps

InPlace(a) == InEye(link[a], delay[a]) /\ WordAt(link[a], bitslip[a]) = Expected

\* The AFEs that the last alignment was through with.
Through == IF result = "ok" THEN Afes ELSE IF result = "AlignmentFailed" THEN 0 .. afe - 1 ELSE {}

\* An AFE whose eye is wide and that the alignment was through with reads the expected word,
\* with its delay in the eye, however the words outside of the eye extend the run; and no
\* such AFE makes the alignment fail unless its clock is dead.
AlignedInEye ==
    /\ \A a \in Through : WideEye(a) => InPlace(a)
    /\ result = "AlignmentFailed" /\ WideEye(afe) => link[afe].phase = Noise

\* The scans run with the VTC off, and it is off after an answer only if DELAYCTRL was not
\* ready in time or the RPU stopped: docs/rpu-hardware-backend.md:85-88, "then re-enable
\* delay VTC".
VtcOnAgain ==
    /\ pc \in {"delay", "slip", "verify"} => ~vtc
    /\ result \in {"ok", "AlignmentFailed"} => vtc

\* The answer's vectors have at most one entry for an AFE, in board order; so entry i is
\* the AFE i - 1 when there is one for each, and no shorter vector says which AFE it lacks.
FullAnswerIsByAfe ==
    pc = "idle" /\ asked = AfeCount =>
        /\ Len(answer) <= AfeCount
        /\ Len(answer) = AfeCount => \A a \in Afes : answer[a + 1] = Entry(a)

===============================================================================
