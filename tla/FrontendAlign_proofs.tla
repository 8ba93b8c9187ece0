-------------------------- MODULE FrontendAlign_proofs --------------------------
(***************************************************************************)
(* For every number of AFEs, taps and slips and every link: the delay scan *)
(* finds the first of the longest runs, and the VTC is on after an         *)
(* alignment that got past its reset.                                      *)
(***************************************************************************)
EXTENDS FrontendAlign, TLAPS

\* What a run is before the scan has reached tap n.
RunBefore(start, len, n) ==
    /\ start \in TapIds /\ len \in 1 .. Taps /\ start + len <= n
    /\ IsRun(start, len)

\* r is the first of the longest runs before tap n.
FirstLongest(r, n) ==
    \A s2 \in TapIds, n2 \in 1 .. Taps :
        RunBefore(s2, n2, n) => n2 < r.len \/ (n2 = r.len /\ s2 >= r.start)

\* The run under way cannot be made longer to the left, and best is about what is behind it.
ScanSoFar ==
    /\ tap \in 0 .. Taps
    /\ tap = 0 => best = NoRun /\ current = NoRun
    /\ tap > 0 =>
         /\ RunBefore(current.start, current.len, tap)
         /\ current.start + current.len = tap
         /\ previous = scanned[tap - 1]
         /\ current.start > 0 => scanned[current.start - 1] # scanned[current.start]
    /\ best.len > 0 => RunBefore(best.start, best.len, current.start)
    /\ FirstLongest(best, current.start)

\* The locals of a scan are fresh when it begins.
Locals ==
    /\ pc \in {"idle", "ready"} => tap = 0
    /\ pc \in {"idle", "ready", "verify"} \/ (pc = "slip" /\ tap > 0)
         => best = NoRun /\ current = NoRun
    /\ pc = "delay" => ScanSoFar

ScanInv == TypeOK /\ Locals

LEMMA BoundTypes ==
    /\ AfeCount \in Nat /\ AfeCount > 0 /\ Taps \in Nat /\ Taps > 0
    /\ Slips \in Nat /\ Slips > 0 /\ VerifyReads \in Nat
    /\ 0 \in Afes /\ 0 \in TapIds /\ 0 \in SlipIds /\ 0 \in Words /\ Noise \in Words
    /\ NoRun \in Runs /\ NoRun.start = 0 /\ NoRun.len = 0
    /\ Zero \in [Afes -> TapIds] /\ Zero \in [Afes -> SlipIds]
    /\ Unread \in [TapIds -> Words]
    /\ Unused \in Links
BY AlignAssumption DEF Afes, TapIds, SlipIds, Words, Noise, Runs, NoRun, Zero, Unread, Links

LEMMA SnapshotTypes ==
    ASSUME TypeOK, NEW t, NEW s \in SlipIds
    PROVE  Snapshot(t, s) \subseteq Words
<1>1. link[afe].phase \in Words
  BY DEF TypeOK, Links, Unused, Words
<1>2. ASSUME NEW x \in Nat PROVE x % Slips \in SlipIds
  BY BoundTypes, <1>2 DEF SlipIds
<1>3. link[afe].phase # Noise => link[afe].phase + s \in Nat
  BY <1>1 DEF Words, SlipIds
<1>4. WordAt(link[afe], s) \in Words
  BY <1>2, <1>3 DEF WordAt, Words
<1>5. QED
  BY <1>4 DEF Snapshot

\* The best run, or the run under way if it is longer, is the first of the longest so far.
LEMMA LongerIsFirstLongest ==
    ASSUME TypeOK, ScanSoFar, tap > 0
    PROVE  /\ Longer \in Runs
           /\ RunBefore(Longer.start, Longer.len, tap)
           /\ FirstLongest(Longer, tap)
<1>1. /\ best \in Runs /\ current \in Runs /\ Taps \in Nat
      /\ best.start \in Nat /\ best.len \in Nat /\ current.start \in Nat /\ current.len \in Nat
      /\ tap \in Nat /\ tap <= Taps
  BY BoundTypes DEF TypeOK, Runs, ScanSoFar
<1>2. Longer \in Runs
  BY <1>1 DEF Longer
<1>3. RunBefore(current.start, current.len, tap) /\ current.start + current.len = tap
  BY DEF ScanSoFar
<1>4. RunBefore(Longer.start, Longer.len, tap)
  BY <1>1, <1>3 DEF Longer, ScanSoFar, RunBefore
<1>5. ASSUME NEW s2 \in TapIds, NEW n2 \in 1 .. Taps, RunBefore(s2, n2, tap)
      PROVE  n2 < Longer.len \/ (n2 = Longer.len /\ s2 >= Longer.start)
  <2>1. s2 \in Nat /\ n2 \in Nat /\ n2 > 0 /\ s2 + n2 <= tap
    BY <1>5, BoundTypes DEF TapIds, RunBefore
  <2>2. CASE s2 + n2 <= current.start
    <3>1. RunBefore(s2, n2, current.start)
      BY <1>5, <2>2 DEF RunBefore
    <3>2. n2 < best.len \/ (n2 = best.len /\ s2 >= best.start)
      BY <3>1 DEF ScanSoFar, FirstLongest
    <3>3. QED
      BY <1>1, <2>1, <3>2 DEF Longer
  <2>3. CASE s2 + n2 > current.start
    <3>1. s2 >= current.start
      <4>1. SUFFICES ASSUME s2 < current.start PROVE FALSE
        BY <1>1, <2>1
      <4>2. current.start \in s2 .. s2 + n2 - 1 /\ current.start - 1 \in s2 .. s2 + n2 - 1
        BY <1>1, <2>1, <2>3, <4>1
      <4>3. scanned[current.start] = scanned[s2] /\ scanned[current.start - 1] = scanned[s2]
        BY <1>5, <4>2 DEF RunBefore, IsRun
      <4>4. QED
        BY <1>1, <2>1, <4>1, <4>3 DEF ScanSoFar
    <3>2. n2 < current.len \/ (n2 = current.len /\ s2 = current.start)
      BY <1>1, <1>3, <2>1, <3>1
    <3>3. best.len > 0 => best.start + best.len <= current.start
      BY DEF ScanSoFar, RunBefore
    <3>4. QED
      BY <1>1, <2>1, <3>2, <3>3 DEF Longer
  <2>4. QED
    BY <1>1, <2>1, <2>2, <2>3
<1>6. QED
  BY <1>2, <1>4, <1>5 DEF FirstLongest

LEMMA InitScan == Init => ScanInv
<1>1. SUFFICES ASSUME Init PROVE ScanInv
  OBVIOUS
<1>2. link \in [Afes -> Links] /\ answer \in Seq([delay : TapIds, bitslip : SlipIds])
  BY <1>1, BoundTypes DEF Init
<1>3. TypeOK
  BY <1>1, <1>2, BoundTypes DEF Init, TypeOK
<1>4. Locals
  BY <1>1 DEF Init, Locals
<1>5. QED
  BY <1>3, <1>4 DEF ScanInv

\* A word read at tap says nothing new of the runs before it.
LEMMA RunsUnchanged ==
    ASSUME TypeOK, tap \in TapIds, NEW word \in Words,
           scanned' = [scanned EXCEPT ![tap] = word],
           NEW s \in Nat, NEW n \in Nat, s + n <= tap, n > 0
    PROVE  IsRun(s, n) <=> IsRun(s, n)'
BY BoundTypes DEF IsRun, TypeOK, TapIds

LEMMA ScanDelayStep == ScanInv /\ ScanDelay => ScanInv'
<1>1. SUFFICES ASSUME ScanInv, ScanDelay PROVE ScanInv'
  OBVIOUS
<1>2. /\ TypeOK /\ ScanSoFar /\ pc = "delay" /\ tap \in TapIds /\ tap \in 0 .. Taps
      /\ Taps \in Nat /\ afe \in Afes /\ bitslip[afe] \in SlipIds
  BY <1>1, BoundTypes DEF ScanInv, Locals, ScanDelay, ScanSoFar, TapIds, TypeOK
<1>3. PICK word \in Snapshot(tap, bitslip[afe]) :
        /\ scanned' = [scanned EXCEPT ![tap] = word]
        /\ previous' = word
        /\ IF tap > 0 /\ word = previous
           THEN current' = [current EXCEPT !.len = @ + 1] /\ UNCHANGED best
           ELSE current' = [start |-> tap, len |-> 1] /\ best' = Longer
  BY <1>1 DEF ScanDelay
<1>4. word \in Words
  BY <1>2, <1>3, SnapshotTypes
<1>5. tap' = tap + 1 /\ pc' = "delay" /\ tap' \in 0 .. Taps
  BY <1>1, <1>2 DEF ScanDelay, TapIds
<1>6. /\ best \in Runs /\ current \in Runs
      /\ best.start \in Nat /\ best.len \in Nat /\ current.start \in Nat /\ current.len \in Nat
  BY <1>2 DEF TypeOK, Runs
<1>7. scanned \in [TapIds -> Words] /\ scanned' \in [TapIds -> Words] /\ scanned'[tap] = word
      /\ \A t \in TapIds : t # tap => scanned'[t] = scanned[t]
  BY <1>2, <1>3, <1>4 DEF TypeOK
<1>8. ASSUME NEW s \in Nat, NEW n \in Nat, NEW m \in Nat, m <= tap
      PROVE  RunBefore(s, n, m) <=> (/\ s \in TapIds /\ n \in 1 .. Taps /\ s + n <= m
                                     /\ IsRun(s, n)')
  <2>1. CASE n > 0 /\ s + n <= m
    <3>1. s + n <= tap
      BY <1>2, <1>8, <2>1
    <3>2. IsRun(s, n) <=> IsRun(s, n)'
      BY <1>2, <1>3, <1>4, <2>1, <3>1, RunsUnchanged
    <3>3. QED
      BY <3>2 DEF RunBefore
  <2>2. CASE ~(n > 0 /\ s + n <= m)
    BY <1>2, <2>2 DEF RunBefore
  <2>3. QED
    BY <2>1, <2>2
<1>9. /\ current' \in Runs /\ best' \in Runs
      /\ (ScanSoFar)'
  <2>1. CASE tap > 0 /\ word = previous
    <3>1. current' = [current EXCEPT !.len = @ + 1] /\ best' = best
      BY <1>3, <2>1
    <3>2. current'.start = current.start /\ current'.len = current.len + 1
      BY <1>6, <3>1 DEF Runs
    <3>3. /\ RunBefore(current.start, current.len, tap) /\ current.start + current.len = tap
          /\ previous = scanned[tap - 1]
          /\ current.start > 0 => scanned[current.start - 1] # scanned[current.start]
      BY <1>2, <2>1 DEF ScanSoFar
    <3>4. current.len \in 1 .. Taps /\ current.start \in TapIds /\ current.start < tap
      BY <1>2, <1>6, <3>3 DEF RunBefore, TapIds
    <3>5. current' \in Runs
      BY <1>2, <1>6, <3>1, <3>3 DEF Runs, TapIds
    <3>6. RunBefore(current.start, current.len, tap)'
      <4>1. \A t \in current.start .. tap : t \in TapIds /\ scanned'[t] = word
        <5>1. TAKE t \in current.start .. tap
        <5>2. t \in TapIds
          BY <1>2, <1>6 DEF TapIds
        <5>3. CASE t = tap
          BY <1>7, <5>2, <5>3
        <5>4. CASE t # tap
          <6>1. t \in current.start .. current.start + current.len - 1
                /\ tap - 1 \in current.start .. current.start + current.len - 1
            BY <1>2, <1>6, <3>3, <3>4, <5>4 DEF TapIds
          <6>2. scanned[t] = scanned[tap - 1]
            BY <3>3, <6>1 DEF RunBefore, IsRun
          <6>3. QED
            BY <1>7, <2>1, <3>3, <5>2, <5>4, <6>2
        <5>5. QED BY <5>2, <5>3, <5>4
      <4>2. scanned'[current.start] = word
        BY <1>2, <1>6, <3>4, <4>1
      <4>3. current.start + (current.len + 1) - 1 = tap
        BY <1>2, <1>6, <3>3
      <4>4. IsRun(current.start, current.len)'
        BY <3>2, <4>1, <4>2, <4>3 DEF IsRun
      <4>5. current'.start \in TapIds /\ current'.len \in 1 .. Taps
            /\ current'.start + current'.len <= tap'
        BY <1>2, <1>5, <1>6, <3>2, <3>3, <3>4 DEF TapIds
      <4>6. QED
        BY <4>4, <4>5 DEF RunBefore
    <3>7. FirstLongest(best, current.start)'
      <4>1. ASSUME NEW s2 \in TapIds, NEW n2 \in 1 .. Taps, RunBefore(s2, n2, current.start)'
            PROVE  n2 < best.len \/ (n2 = best.len /\ s2 >= best.start)
        <5>1. s2 \in Nat /\ n2 \in Nat /\ current.start <= tap
          BY <1>2, <1>6, <3>4 DEF TapIds
        <5>2. RunBefore(s2, n2, current.start)
          BY <1>6, <1>8, <3>2, <4>1, <5>1 DEF RunBefore
        <5>3. QED
          BY <1>2, <5>2 DEF ScanSoFar, FirstLongest
      <4>2. QED
        BY <3>1, <4>1 DEF FirstLongest
    <3>8. best'.len > 0 => RunBefore(best.start, best.len, current.start)'
      BY <1>2, <1>6, <1>8, <3>1, <3>2, <3>4 DEF ScanSoFar, RunBefore
    <3>9. current'.start > 0 => scanned'[current'.start - 1] # scanned'[current'.start]
      BY <1>2, <1>6, <1>7, <3>2, <3>3, <3>4 DEF TapIds
    <3>10. previous' = scanned'[tap' - 1]
      BY <1>2, <1>3, <1>5, <1>7
    <3>11. current'.start + current'.len = tap'
      BY <1>2, <1>5, <1>6, <3>2, <3>3
    <3>12. QED
      BY <1>2, <1>5, <1>6, <3>1, <3>5, <3>6, <3>7, <3>8, <3>9, <3>10, <3>11 DEF ScanSoFar
  <2>2. CASE ~(tap > 0 /\ word = previous)
    <3>1. current' = [start |-> tap, len |-> 1] /\ best' = Longer
      BY <1>3, <2>2
    <3>2. current'.start = tap /\ current'.len = 1 /\ current' \in Runs
      BY <1>2, <3>1, BoundTypes DEF Runs
    <3>3. /\ Longer \in Runs
          /\ Longer.len > 0 => RunBefore(Longer.start, Longer.len, tap)
          /\ FirstLongest(Longer, tap)
      <4>1. CASE tap > 0
        BY <1>2, <4>1, LongerIsFirstLongest
      <4>2. CASE tap = 0
        <5>1. Longer = NoRun
          BY <1>2, <4>2, BoundTypes DEF Longer, ScanSoFar
        <5>2. FirstLongest(NoRun, tap)
          BY <4>2, BoundTypes DEF FirstLongest, RunBefore, TapIds
        <5>3. QED
          BY <5>1, <5>2, BoundTypes
      <4>3. QED
        BY <1>2, <4>1, <4>2
    <3>4. Longer.start \in Nat /\ Longer.len \in Nat
      BY <3>3 DEF Runs
    <3>5. best'.len > 0 => RunBefore(best.start, best.len, current.start)'
      BY <1>2, <1>8, <3>1, <3>2, <3>3, <3>4 DEF RunBefore
    <3>6. FirstLongest(best, current.start)'
      BY <1>2, <1>8, <3>1, <3>2, <3>3, BoundTypes DEF FirstLongest, RunBefore, TapIds
    <3>7. RunBefore(current.start, current.len, tap)'
      BY <1>2, <1>5, <3>2, BoundTypes DEF RunBefore, IsRun, TapIds
    <3>8. current'.start > 0 => scanned'[current'.start - 1] # scanned'[current'.start]
      BY <1>2, <1>7, <2>2, <3>2 DEF ScanSoFar, TapIds
    <3>9. previous' = scanned'[tap' - 1] /\ current'.start + current'.len = tap'
      BY <1>2, <1>3, <1>5, <1>7, <3>2
    <3>10. QED
      BY <1>2, <1>5, <3>1, <3>2, <3>3, <3>5, <3>6, <3>7, <3>8, <3>9 DEF ScanSoFar
  <2>3. QED
    BY <2>1, <2>2
<1>10. delay' \in [Afes -> TapIds]
  BY <1>1, <1>2 DEF ScanDelay, TypeOK
<1>11. TypeOK'
  BY <1>1, <1>2, <1>3, <1>4, <1>5, <1>7, <1>9, <1>10 DEF ScanDelay, slipScan, handler, TypeOK
<1>12. QED
  BY <1>5, <1>9, <1>11 DEF ScanInv, Locals

\* The delay that is picked is the middle of what IsRun and FirstLongest say of Longer.
LEMMA PickDelayStep ==
    ASSUME ScanInv, PickDelay
    PROVE  /\ Middle(Longer) \in TapIds
           /\ DelayIsMiddleOfLongestRun'
           /\ ScanInv'
<1>1. /\ TypeOK /\ ScanSoFar /\ tap = Taps /\ tap > 0 /\ Taps \in Nat /\ afe \in Afes
  BY BoundTypes DEF ScanInv, Locals, PickDelay, TypeOK
<1>2. Longer \in Runs /\ RunBefore(Longer.start, Longer.len, tap) /\ FirstLongest(Longer, tap)
  BY <1>1, LongerIsFirstLongest
<1>3. /\ Longer.start \in TapIds /\ Longer.len \in 1 .. Taps
      /\ Longer.start + Longer.len <= Taps /\ IsRun(Longer.start, Longer.len)
  BY <1>1, <1>2 DEF RunBefore
<1>4. Middle(Longer) \in TapIds
  <2>1. Longer.start \in Nat /\ Longer.len \in Nat /\ Longer.len > 0
    BY <1>1, <1>3 DEF TapIds
  <2>2. (Longer.len - 1) \div 2 \in 0 .. Longer.len - 1
    BY <2>1
  <2>3. QED
    BY <1>1, <1>3, <2>1, <2>2 DEF Middle, TapIds
<1>5. delay' \in [Afes -> TapIds] /\ delay'[afe] = Middle(Longer)
  BY <1>1, <1>4 DEF PickDelay, TypeOK
<1>6. UNCHANGED <<afe, scanned>> /\ pc' = "slip" /\ tap' = 0
  BY DEF PickDelay
<1>7. ASSUME NEW s2 \in TapIds, NEW n2 \in 1 .. Taps, IsRun(s2, n2)
      PROVE  n2 < Longer.len \/ (n2 = Longer.len /\ s2 >= Longer.start)
  <2>1. s2 \in Nat /\ n2 \in Nat /\ s2 + n2 - 1 \in s2 .. s2 + n2 - 1
    BY <1>1 DEF TapIds
  <2>2. s2 + n2 - 1 \in TapIds
    BY <1>7, <2>1 DEF IsRun
  <2>3. RunBefore(s2, n2, tap)
    BY <1>1, <1>7, <2>1, <2>2 DEF RunBefore, TapIds
  <2>4. QED
    BY <1>2, <2>3 DEF FirstLongest
<1>8. DelayIsMiddleOfLongestRun'
  <2>1. \E s \in TapIds, n \in 1 .. Taps :
            /\ IsRun(s, n)
            /\ \A s2 \in TapIds, n2 \in 1 .. Taps :
                 IsRun(s2, n2) => n2 < n \/ (n2 = n /\ s2 >= s)
            /\ Middle(Longer) = s + (n - 1) \div 2
    BY <1>3, <1>7 DEF Middle
  <2>2. QED
    BY <1>5, <1>6, <2>1 DEF DelayIsMiddleOfLongestRun, IsRun
<1>9. TypeOK'
  BY <1>1, <1>2, <1>5, BoundTypes DEF PickDelay, slipScan, handler, TypeOK
<1>10. QED
  BY <1>4, <1>6, <1>8, <1>9 DEF ScanInv, Locals

LEMMA StepScan == ScanInv /\ [Next]_vars => ScanInv'
<1>1. SUFFICES ASSUME ScanInv, [Next]_vars PROVE ScanInv'
  OBVIOUS
<1>2. TypeOK /\ Locals
  BY <1>1 DEF ScanInv
<1> USE BoundTypes
<1>3. CASE Align
  <2>1. TypeOK'
    <3>1. link' \in [Afes -> Links] /\ answer' \in Seq([delay : TapIds, bitslip : SlipIds])
      BY <1>3 DEF Align
    <3>2. UNCHANGED <<afe, tap, best, current, previous, scanned, matched, reads, asked>>
      BY <1>3 DEF Align, scan, delayScan, slipScan
    <3>3. /\ delay' \in [Afes -> TapIds] /\ bitslip' \in [Afes -> SlipIds]
          /\ vtc' = FALSE /\ pc' = "ready" /\ result' = "none"
      BY <1>3 DEF Align
    <3>4. QED
      BY <1>2, <3>1, <3>2, <3>3 DEF TypeOK
  <2>2. QED
    BY <1>2, <1>3, <2>1 DEF Align, ScanInv, Locals, scan, delayScan
<1>4. CASE DelayctrlReady
  <2>0. PICK l \in Links : link' = [link EXCEPT ![0] = l]
    BY <1>4 DEF DelayctrlReady, BeginAfe
  <2>1. TypeOK'
    <3>1. link' \in [Afes -> Links] /\ afe' \in Afes /\ pc' = "delay"
      BY <1>2, <1>4, <2>0 DEF DelayctrlReady, BeginAfe, TypeOK
    <3>2. UNCHANGED <<delay, bitslip, vtc, tap, best, current, previous, scanned, matched, reads,
                      result, answer, asked>>
      BY <1>4 DEF DelayctrlReady, registers, delayScan, slipScan, handler
    <3>3. QED
      BY <1>2, <3>1, <3>2 DEF TypeOK
  <2>2. FirstLongest(NoRun, 0)'
    BY DEF FirstLongest, RunBefore, TapIds
  <2>3. ScanSoFar'
    BY <1>2, <1>4, <2>2 DEF DelayctrlReady, Locals, delayScan, ScanSoFar
  <2>4. QED
    BY <1>4, <2>1, <2>3 DEF DelayctrlReady, BeginAfe, ScanInv, Locals
<1>5. CASE DelayctrlTimesOut
  <2>1. TypeOK'
    BY <1>2, <1>5 DEF DelayctrlTimesOut, Finish, TypeOK, registers, scan, delayScan, slipScan
  <2>2. QED
    BY <1>2, <1>5, <2>1 DEF DelayctrlTimesOut, Finish, ScanInv, Locals, scan, delayScan
<1>6. CASE ScanDelay
  BY <1>1, <1>6, ScanDelayStep
<1>7. CASE PickDelay
  BY <1>1, <1>7, PickDelayStep
<1>8. CASE ScanSlip
  <2>1. tap \in SlipIds /\ bitslip' \in [Afes -> SlipIds] /\ tap' \in Nat /\ tap' > 0
        /\ matched' \in SlipIds \cup {NoMatch}
    BY <1>2, <1>8 DEF ScanSlip, SlipIds, TypeOK
  <2>2. TypeOK'
    BY <1>2, <1>8, <2>1 DEF ScanSlip, DelayScanOver, TypeOK, handler
  <2>3. QED
    BY <1>8, <2>1, <2>2 DEF ScanSlip, DelayScanOver, ScanInv, Locals
<1>9. CASE SlipFound
  <2>1. TypeOK'
    BY <1>2, <1>9 DEF SlipFound, TypeOK, scan, delayScan, slipScan, handler
  <2>2. QED
    BY <1>2, <1>9, <2>1 DEF SlipFound, ScanInv, Locals, scan, delayScan
<1>10. CASE NoSlipFound
  <2>1. TypeOK'
    BY <1>2, <1>10 DEF NoSlipFound, GiveUp, Finish, SlipScanOver, NoMatch, TypeOK, delayScan
  <2>2. QED
    BY <1>2, <1>10, <2>1 DEF NoSlipFound, GiveUp, Finish, SlipScanOver, ScanInv, Locals, delayScan
<1>11. CASE VerifyRead
  <2>1. CASE GiveUp /\ SlipScanOver
    <3>1. TypeOK'
      BY <1>2, <1>11, <2>1
         DEF VerifyRead, GiveUp, Finish, SlipScanOver, NoMatch, TypeOK, delayScan
    <3>2. QED
      BY <1>2, <1>11, <2>1, <3>1
         DEF VerifyRead, GiveUp, Finish, SlipScanOver, ScanInv, Locals, delayScan
  <2>2. CASE reads' = reads + 1 /\ UNCHANGED <<pc, vtc, tap, matched, result, asked>>
    <3>1. reads' \in 0 .. VerifyReads + 1
      BY <1>2, <1>11, <2>2 DEF VerifyRead, Verified, TypeOK
    <3>2. TypeOK'
      BY <1>2, <1>11, <2>2, <3>1 DEF VerifyRead, TypeOK, delayScan
    <3>3. QED
      BY <1>2, <1>11, <2>2, <3>2 DEF VerifyRead, ScanInv, Locals, delayScan
  <2>3. QED
    BY <1>11, <2>1, <2>2 DEF VerifyRead
<1>12. CASE NextAfe
  <2>1. afe + 1 \in Afes
    BY <1>2, <1>12 DEF NextAfe, Afes, TypeOK
  <2>2. TypeOK'
    BY <1>2, <1>12, <2>1
       DEF NextAfe, BeginAfe, SlipScanOver, NoMatch, TypeOK, registers, delayScan, handler
  <2>3. FirstLongest(NoRun, 0)'
    BY DEF FirstLongest, RunBefore, TapIds
  <2>4. ScanSoFar'
    BY <1>2, <1>12, <2>3 DEF NextAfe, SlipScanOver, Locals, delayScan, ScanSoFar
  <2>5. QED
    BY <1>12, <2>2, <2>4 DEF NextAfe, BeginAfe, ScanInv, Locals
<1>13. CASE Aligned
  <2>1. TypeOK'
    BY <1>2, <1>13 DEF Aligned, Finish, SlipScanOver, NoMatch, TypeOK, delayScan
  <2>2. QED
    BY <1>2, <1>13, <2>1 DEF Aligned, Finish, SlipScanOver, ScanInv, Locals, delayScan
<1>14. CASE Restart
  <2>1. TypeOK'
    BY <1>2, <1>14 DEF Restart, DelayScanOver, SlipScanOver, NoMatch, TypeOK, registers, handler
  <2>2. QED
    BY <1>14, <2>1 DEF Restart, DelayScanOver, SlipScanOver, ScanInv, Locals
<1>15. CASE ReadBack
  <2>1. asked \in Afes /\ asked' \in 0 .. AfeCount
    BY <1>2, <1>15 DEF ReadBack, Afes, TypeOK
  <2>2. Entry(asked) \in [delay : TapIds, bitslip : SlipIds]
    BY <1>2, <2>1 DEF Entry, TypeOK
  <2>3. answer' \in Seq([delay : TapIds, bitslip : SlipIds])
    <3>1. answer \in Seq([delay : TapIds, bitslip : SlipIds])
      BY <1>2 DEF TypeOK
    <3>2. Append(answer, Entry(asked)) \in Seq([delay : TapIds, bitslip : SlipIds])
      BY <2>2, <3>1
    <3>3. QED
      BY <1>15, <3>1, <3>2 DEF ReadBack
  <2>4. TypeOK'
    BY <1>2, <1>15, <2>1, <2>3 DEF ReadBack, TypeOK, registers, scan, delayScan, slipScan
  <2>5. QED
    BY <1>2, <1>15, <2>4 DEF ReadBack, ScanInv, Locals, scan, delayScan
<1>16. CASE UNCHANGED vars
  <2>1. UNCHANGED <<registers, pc, scan, result, link, handler>>
    BY <1>16 DEF vars
  <2>2. TypeOK'
    BY <1>2, <2>1 DEF TypeOK, registers, scan, delayScan, slipScan, handler
  <2>3. Locals'
    BY <1>2, <2>1 DEF Locals, ScanSoFar, FirstLongest, RunBefore, IsRun, scan, delayScan
  <2>4. QED
    BY <2>2, <2>3 DEF ScanInv
<1>17. QED
  BY <1>1, <1>3, <1>4, <1>5, <1>6, <1>7, <1>8, <1>9, <1>10, <1>11, <1>12, <1>13, <1>14,
     <1>15, <1>16 DEF Next

\* Every reachable state has the shape TypeOK gives it: no delay is set past the last tap.
THEOREM Typing == Spec => []TypeOK
<1>1. ScanInv => TypeOK
  BY DEF ScanInv
<1>2. QED
  BY <1>1, InitScan, StepScan, PTL DEF Spec

\* For every number of taps, set_best_frontend_delay sets the middle of the first of the
\* longest runs of equal words.
THEOREM DelayIsBest == Spec => []DelayIsMiddleOfLongestRun
<1>1. Init => DelayIsMiddleOfLongestRun
  BY DEF Init, DelayIsMiddleOfLongestRun
<1>2. ASSUME ScanInv, DelayIsMiddleOfLongestRun, [Next]_vars
      PROVE  DelayIsMiddleOfLongestRun'
  <2>1. CASE PickDelay
    BY <1>2, <2>1, PickDelayStep
  <2>2. CASE UNCHANGED vars
    BY <1>2, <2>2 DEF vars, registers, scan, delayScan, DelayIsMiddleOfLongestRun, IsRun
  <2>3. CASE ReadBack
    BY <2>3 DEF ReadBack, DelayIsMiddleOfLongestRun
  <2>4. CASE ScanSlip
    BY <1>2, <2>4 DEF ScanSlip, DelayIsMiddleOfLongestRun, ScanInv, TypeOK
  <2>5. CASE Next /\ ~PickDelay /\ ~ReadBack /\ ~ScanSlip
    <3>1. pc' # "slip"
      BY <2>5 DEF Next, Align, DelayctrlReady, DelayctrlTimesOut, ScanDelay, SlipFound, NoSlipFound,
             VerifyRead, NextAfe, Aligned, Restart, BeginAfe, Finish, GiveUp
    <3>2. QED
      BY <3>1 DEF DelayIsMiddleOfLongestRun
  <2>6. QED
    BY <1>2, <2>1, <2>2, <2>3, <2>4, <2>5
<1>3. QED
  BY <1>1, <1>2, InitScan, StepScan, PTL DEF Spec

-------------------------------------------------------------------------------
(***************************************************************************)
(* The VTC                                                                 *)
(***************************************************************************)
\* An alignment under way has the VTC off and no result yet.
VtcInv == pc # "idle" => ~vtc /\ result = "none"

\* The VTC is off while an alignment scans and on after one that went through with its AFEs.
THEOREM VtcIsOnAgain == Spec => []VtcOnAgain
<1>1. Init => VtcInv /\ VtcOnAgain
  BY DEF Init, VtcInv, VtcOnAgain
<1>2. VtcInv /\ VtcOnAgain /\ [Next]_vars => VtcInv' /\ VtcOnAgain'
  <2>1. SUFFICES ASSUME VtcInv, VtcOnAgain, [Next]_vars PROVE VtcInv' /\ VtcOnAgain'
    OBVIOUS
  <2>2. CASE Align
    BY <2>2 DEF Align, VtcInv, VtcOnAgain
  <2>3. CASE DelayctrlReady \/ ScanDelay \/ PickDelay \/ ScanSlip \/ SlipFound \/ NextAfe
    BY <2>1, <2>3 DEF DelayctrlReady, ScanDelay, PickDelay, ScanSlip, SlipFound, NextAfe, BeginAfe,
           registers, VtcInv, VtcOnAgain
  <2>4. CASE DelayctrlTimesOut \/ Restart
    BY <2>4 DEF DelayctrlTimesOut, Restart, Finish, VtcInv, VtcOnAgain
  <2>5. CASE NoSlipFound \/ Aligned
    BY <2>5 DEF NoSlipFound, Aligned, GiveUp, Finish, VtcInv, VtcOnAgain
  <2>6. CASE VerifyRead
    BY <2>1, <2>6 DEF VerifyRead, GiveUp, Finish, VtcInv, VtcOnAgain
  <2>7. CASE ReadBack \/ UNCHANGED vars
    BY <2>1, <2>7 DEF ReadBack, vars, registers, VtcInv, VtcOnAgain
  <2>8. QED
    BY <2>1, <2>2, <2>3, <2>4, <2>5, <2>6, <2>7 DEF Next
<1>3. QED
  BY <1>1, <1>2, PTL DEF Spec

-------------------------------------------------------------------------------
(***************************************************************************)
(* A wide eye is found                                                     *)
(***************************************************************************)
\* Some slip rotates the word of a link that is clocked into the expected one.
LEMMA SomeSlipMatches ==
    ASSUME NEW phase \in SlipIds
    PROVE  \E s \in SlipIds : (phase + s) % Slips = Expected
<1>1. phase \in Nat /\ phase < Slips /\ Slips \in Nat /\ Slips > 0
  BY BoundTypes DEF SlipIds
<1>2. CASE phase = 0
  <2>1. (phase + 0) % Slips = 0
    BY <1>1, <1>2
  <2>2. QED
    BY <2>1, BoundTypes DEF Expected
<1>3. CASE phase # 0
  <2>1. Slips - phase \in SlipIds /\ phase + (Slips - phase) = Slips
    BY <1>1, <1>3 DEF SlipIds
  <2>2. Slips % Slips = 0
    BY <1>1
  <2>3. QED
    BY <2>1, <2>2 DEF Expected
<1>4. QED
  BY <1>2, <1>3

\* The words read in the eye so far are one word.
EyeScanned ==
    \A t \in TapIds :
        t < tap /\ InEye(link[afe], t) => scanned[t] = WordAt(link[afe], bitslip[afe])

\* The middle of the longest run is in an eye that is more than half of the taps: the run and
\* the eye have a tap in common, so the run holds all of the eye.
LEMMA MiddleInEye ==
    ASSUME TypeOK, ScanSoFar, tap = Taps, EyeScanned, WideEye(afe)
    PROVE  InEye(link[afe], Middle(Longer))
<1> DEFINE low == link[afe].low
           high == link[afe].high
           s == Longer.start
           n == Longer.len
           e == s + n - 1
           word == WordAt(link[afe], bitslip[afe])
<1>1. /\ Taps \in Nat /\ Taps > 0 /\ link[afe] \in Links
      /\ link[afe] # Unused
  BY BoundTypes DEF TypeOK, WideEye, Unused
<1>2. low \in TapIds /\ high \in TapIds /\ low <= high
  BY <1>1 DEF Links
<1>3. low \in Nat /\ high \in Nat /\ high < Taps /\ 2 * (high - low + 1) > Taps
  BY <1>1, <1>2 DEF TapIds, WideEye
<1>4. /\ RunBefore(s, n, Taps) /\ FirstLongest(Longer, Taps)
  BY <1>1, LongerIsFirstLongest
<1>5. s \in Nat /\ n \in Nat /\ n > 0 /\ s + n <= Taps /\ IsRun(s, n)
  BY <1>1, <1>4 DEF RunBefore, TapIds
<1>6. \A t \in low .. high : t \in TapIds /\ scanned[t] = word
  BY <1>1, <1>2, <1>3 DEF EyeScanned, InEye, TapIds
<1>7. \A t \in s .. e : t \in TapIds /\ scanned[t] = scanned[s]
  BY <1>5 DEF IsRun
<1> HIDE DEF low, high, s, n, word
<1>8. ASSUME NEW first \in TapIds, NEW len \in 1 .. Taps, IsRun(first, len), first + len <= Taps
      PROVE  len <= n
  BY <1>1, <1>4, <1>5, <1>8 DEF FirstLongest, RunBefore, n, TapIds
<1>9. high - low + 1 <= n
  <2>1. low \in TapIds /\ high - low + 1 \in 1 .. Taps /\ low + (high - low + 1) <= Taps
    BY <1>1, <1>2, <1>3
  <2>2. low + (high - low + 1) - 1 = high
    BY <1>3
  <2>3. IsRun(low, high - low + 1)
    BY <1>2, <1>3, <1>6, <2>2 DEF IsRun
  <2>4. QED
    BY <1>8, <2>1, <2>3
<1>10. s <= high /\ low <= e
  BY <1>1, <1>3, <1>5, <1>9
<1>11. scanned[s] = word
  <2>1. PICK t \in Nat : t \in low .. high /\ t \in s .. e
    <3>1. CASE s <= low
      <4>1. low \in low .. high /\ low \in s .. e
        BY <1>2, <1>3, <1>5, <1>10, <3>1
      <4>2. QED BY <1>3, <4>1
    <3>2. CASE s > low
      <4>1. s \in low .. high /\ s \in s .. e
        BY <1>3, <1>5, <1>10, <3>2
      <4>2. QED BY <1>5, <4>1
    <3>3. QED
      BY <1>3, <1>5, <3>1, <3>2
  <2>2. QED
    BY <1>6, <1>7, <2>1
<1>12. \A t \in s .. e : scanned[t] = word
  BY <1>7, <1>11
<1>13. s <= low /\ high <= e
  <2> DEFINE first == IF s <= low THEN s ELSE low
             last == IF high <= e THEN e ELSE high
  <2>1. \A t \in first .. last : t \in TapIds /\ scanned[t] = word
    <3>1. TAKE t \in first .. last
    <3>2. t \in low .. high \/ t \in s .. e
      BY <1>3, <1>5, <1>10
    <3>3. QED
      BY <1>6, <1>7, <1>12, <3>2
  <2>2. /\ first \in Nat /\ last \in Nat /\ first <= last /\ last < Taps
        /\ first <= s /\ first <= low /\ last >= e /\ last >= high
    <3>1. first \in Nat /\ first <= s /\ first <= low
      BY <1>3, <1>5
    <3>2. last \in Nat /\ last >= e /\ last >= high /\ last < Taps
      BY <1>1, <1>3, <1>5
    <3>3. QED
      BY <1>3, <1>5, <3>1, <3>2
  <2> HIDE DEF first, last
  <2>3. IsRun(first, last - first + 1)
    <3>1. first + (last - first + 1) - 1 = last /\ first \in first .. last
      BY <2>2
    <3>2. QED
      BY <2>1, <3>1 DEF IsRun
  <2>4. last - first + 1 <= n
    <3>1. first \in TapIds /\ last - first + 1 \in 1 .. Taps /\ first + (last - first + 1) <= Taps
      BY <1>1, <2>2 DEF TapIds
    <3>2. QED
      BY <1>8, <2>3, <3>1
  <2>5. QED
    BY <1>3, <1>5, <2>2, <2>4
<1>14. low <= s + (n - 1) \div 2 /\ s + (n - 1) \div 2 <= high
  BY <1>1, <1>3, <1>5, <1>13
<1>15. QED
  BY <1>3, <1>5, <1>14 DEF InEye, Middle, low, high, s, n

\* The slips tried so far: the first that matches is kept.
SlipSoFar ==
    /\ tap <= Slips
    /\ matched # NoMatch => matched \in SlipIds /\ WordAt(link[afe], matched) = Expected
    /\ matched = NoMatch => \A s \in SlipIds : s < tap => WordAt(link[afe], s) # Expected

\* What is known of the AFE at hand, step by step, and of those behind it.
AlignInv ==
    /\ pc # "idle" => result = "none"
    /\ pc \in {"idle", "ready", "delay"} => matched = NoMatch
    /\ pc = "delay" => EyeScanned
    /\ pc = "slip" /\ WideEye(afe) => InEye(link[afe], delay[afe]) /\ SlipSoFar
    /\ pc = "slip" /\ tap = 0 => matched = NoMatch
    /\ pc = "verify" /\ WideEye(afe) => InPlace(afe)
    /\ pc \in {"delay", "slip", "verify"} =>
         \A a \in Afes : a < afe /\ WideEye(a) => InPlace(a)
    /\ AlignedInEye

\* All that is said of AFE a depends on its own link and registers.
LEMMA InPlaceLocal ==
    ASSUME NEW a \in Afes, link'[a] = link[a], delay'[a] = delay[a], bitslip'[a] = bitslip[a]
    PROVE  (WideEye(a) <=> WideEye(a)') /\ (InPlace(a) <=> InPlace(a)')
BY DEF WideEye, InPlace, InEye, WordAt

\* A snapshot in the eye has one outcome.
LEMMA SnapshotInEye ==
    ASSUME NEW t, NEW s, InEye(link[afe], t), NEW word \in Snapshot(t, s)
    PROVE  word = WordAt(link[afe], s)
BY DEF Snapshot

\* No result, or one that does not come from an alignment that tried the AFEs.
LEMMA NothingThrough ==
    ASSUME result' \notin {"ok", "AlignmentFailed"}
    PROVE  AlignedInEye'
BY DEF AlignedInEye, Through

LEMMA InitAlign == Init => AlignInv
<1>1. SUFFICES ASSUME Init PROVE AlignInv
  OBVIOUS
<1>2. AlignedInEye
  BY <1>1 DEF Init, AlignedInEye, Through
<1>3. QED
  BY <1>1, <1>2 DEF Init, AlignInv

LEMMA ScanDelayAligns == ScanInv /\ AlignInv /\ ScanDelay => AlignInv'
<1>1. SUFFICES ASSUME ScanInv, AlignInv, ScanDelay PROVE AlignInv'
  OBVIOUS
<1>2. TypeOK /\ pc = "delay" /\ tap \in TapIds /\ afe \in Afes
  BY <1>1, BoundTypes DEF ScanInv, ScanDelay, Locals, ScanSoFar, TypeOK, TapIds
<1>3. /\ UNCHANGED <<afe, link, bitslip, result, matched>> /\ pc' = "delay" /\ tap' = tap + 1
      /\ \A a \in Afes : a # afe => delay'[a] = delay[a]
  BY <1>1, <1>2 DEF ScanDelay, slipScan, TypeOK
<1>4. PICK word \in Snapshot(tap, bitslip[afe]) : scanned' = [scanned EXCEPT ![tap] = word]
  BY <1>1 DEF ScanDelay
<1>5. EyeScanned'
  <2>1. ASSUME NEW t \in TapIds, t < tap + 1, InEye(link[afe], t)
        PROVE  scanned'[t] = WordAt(link[afe], bitslip[afe])
    <3>1. CASE t = tap
      BY <1>2, <1>4, <2>1, <3>1, SnapshotInEye DEF TypeOK
    <3>2. CASE t # tap
      <4>1. t < tap /\ scanned'[t] = scanned[t]
        BY <1>2, <1>4, <2>1, <3>2 DEF TypeOK, TapIds
      <4>2. QED
        BY <1>1, <1>2, <2>1, <4>1 DEF AlignInv, EyeScanned
    <3>3. QED BY <3>1, <3>2
  <2>2. QED
    BY <1>3, <2>1 DEF EyeScanned, InEye, WordAt
<1>6. \A a \in Afes : a < afe /\ WideEye(a)' => InPlace(a)'
  BY <1>1, <1>2, <1>3, InPlaceLocal DEF AlignInv, Afes
<1>7. AlignedInEye'
  BY <1>1, <1>2, <1>3, NothingThrough DEF AlignInv
<1>8. QED
  BY <1>1, <1>2, <1>3, <1>5, <1>6, <1>7 DEF AlignInv

LEMMA PickDelayAligns == ScanInv /\ AlignInv /\ PickDelay => AlignInv'
<1>1. SUFFICES ASSUME ScanInv, AlignInv, PickDelay PROVE AlignInv'
  OBVIOUS
<1>2. TypeOK /\ ScanSoFar /\ EyeScanned /\ pc = "delay" /\ tap = Taps /\ afe \in Afes
  BY <1>1 DEF ScanInv, AlignInv, PickDelay, Locals, TypeOK
<1>3. /\ UNCHANGED <<afe, link, bitslip, result, matched>> /\ pc' = "slip" /\ tap' = 0
      /\ delay'[afe] = Middle(Longer)
      /\ \A a \in Afes : a # afe => delay'[a] = delay[a]
  BY <1>1, <1>2 DEF PickDelay, slipScan, TypeOK
<1>4. matched = NoMatch
  BY <1>1, <1>2 DEF AlignInv
<1>5. SlipSoFar'
  BY <1>3, <1>4, BoundTypes DEF SlipSoFar, SlipIds
<1>6. WideEye(afe)' => InEye(link[afe], delay[afe])'
  BY <1>2, <1>3, MiddleInEye DEF WideEye, InEye
<1>7. \A a \in Afes : a < afe /\ WideEye(a)' => InPlace(a)'
  BY <1>1, <1>2, <1>3, InPlaceLocal DEF AlignInv, Afes
<1>8. AlignedInEye'
  BY <1>1, <1>2, <1>3, NothingThrough DEF AlignInv
<1>9. QED
  BY <1>1, <1>2, <1>3, <1>4, <1>5, <1>6, <1>7, <1>8 DEF AlignInv

LEMMA ScanSlipAligns == ScanInv /\ AlignInv /\ ScanSlip => AlignInv'
<1>1. SUFFICES ASSUME ScanInv, AlignInv, ScanSlip PROVE AlignInv'
  OBVIOUS
<1>2. TypeOK /\ pc = "slip" /\ tap \in SlipIds /\ afe \in Afes /\ tap \in Nat
  BY <1>1, BoundTypes DEF ScanInv, ScanSlip, TypeOK, SlipIds
<1>3. /\ UNCHANGED <<afe, link, delay, result>> /\ pc' = "slip" /\ tap' = tap + 1
      /\ \A a \in Afes : a # afe => bitslip'[a] = bitslip[a]
  BY <1>1, <1>2 DEF ScanSlip, TypeOK
<1>4. PICK word \in Snapshot(delay[afe], tap) :
        matched' = IF matched = NoMatch /\ word = Expected THEN tap ELSE matched
  BY <1>1 DEF ScanSlip
<1>5. tap # NoMatch /\ tap' <= Slips
  BY <1>2, <1>3, BoundTypes DEF NoMatch, SlipIds
<1>6. ASSUME WideEye(afe) PROVE InEye(link[afe], delay[afe])' /\ SlipSoFar'
  <2>1. InEye(link[afe], delay[afe]) /\ SlipSoFar
    BY <1>1, <1>2, <1>6 DEF AlignInv
  <2>2. word = WordAt(link[afe], tap)
    BY <2>1, <1>4, SnapshotInEye
  <2>3. \A s \in SlipIds : s < tap + 1 => s < tap \/ s = tap
    BY <1>2 DEF SlipIds
  <2>4. matched' # NoMatch => matched' \in SlipIds /\ WordAt(link[afe], matched') = Expected
    BY <1>2, <1>4, <2>1, <2>2 DEF SlipSoFar
  <2>5. matched' = NoMatch => \A s \in SlipIds : s < tap + 1 => WordAt(link[afe], s) # Expected
    BY <1>2, <1>4, <1>5, <2>1, <2>2, <2>3 DEF SlipSoFar
  <2>6. QED
    BY <1>3, <1>5, <2>1, <2>4, <2>5 DEF SlipSoFar, InEye, WordAt
<1>7. \A a \in Afes : a < afe /\ WideEye(a)' => InPlace(a)'
  BY <1>1, <1>2, <1>3, InPlaceLocal DEF AlignInv, Afes
<1>8. AlignedInEye'
  BY <1>1, <1>2, <1>3, NothingThrough DEF AlignInv
<1>9. QED
  BY <1>1, <1>2, <1>3, <1>6, <1>7, <1>8 DEF AlignInv, WideEye

\* The slips of a link that is clocked have been tried, so one has matched.
LEMMA NoMatchMeansDead ==
    ASSUME TypeOK, SlipSoFar, tap = Slips, matched = NoMatch, WideEye(afe)
    PROVE  link[afe].phase = Noise
<1>1. link[afe] \in Links /\ link[afe].phase \in Words
  BY DEF TypeOK, Links, Unused, Words
<1>2. ASSUME link[afe].phase # Noise PROVE FALSE
  <2>1. link[afe].phase \in SlipIds
    BY <1>1, <1>2 DEF Words
  <2>2. PICK s \in SlipIds : (link[afe].phase + s) % Slips = Expected
    BY <2>1, SomeSlipMatches
  <2>3. s < tap /\ WordAt(link[afe], s) = Expected
    BY <1>2, <2>2, BoundTypes DEF SlipIds, WordAt
  <2>4. QED
    BY <2>2, <2>3 DEF SlipSoFar
<1>3. QED
  BY <1>2

\* A wide eye that is verified reads the expected word each time.
LEMMA VerifyInPlace ==
    ASSUME InPlace(afe), NEW word \in Snapshot(delay[afe], bitslip[afe])
    PROVE  word = Expected
BY SnapshotInEye DEF InPlace

\* The alignment ends at an AFE that failed, or with all of them.
LEMMA EndAligns ==
    ASSUME TypeOK, AlignInv, pc \in {"slip", "verify"}, pc' = "idle", UNCHANGED <<afe, link, delay>>,
           \A a \in Afes : a # afe => bitslip'[a] = bitslip[a],
           \/ result' = "AlignmentFailed" /\ (WideEye(afe) => link[afe].phase = Noise)
           \/ result' = "ok" /\ afe = AfeCount - 1 /\ (WideEye(afe) => InPlace(afe)')
    PROVE  AlignedInEye'
<1>1. \A a \in Afes : a < afe /\ WideEye(a)' => InPlace(a)'
  BY InPlaceLocal DEF AlignInv, Afes
<1>2. WideEye(afe)' <=> WideEye(afe)
  BY DEF WideEye
<1>3. CASE result' = "AlignmentFailed" /\ (WideEye(afe) => link[afe].phase = Noise)
  <2>1. \A a \in Through' : a \in Afes /\ a < afe
    BY <1>3, BoundTypes DEF Through, TypeOK, Afes
  <2>2. QED
    BY <1>1, <1>2, <1>3, <2>1 DEF AlignedInEye
<1>4. CASE result' = "ok" /\ afe = AfeCount - 1 /\ (WideEye(afe) => InPlace(afe)')
  <2>1. \A a \in Through' : a \in Afes /\ (a < afe \/ a = afe)
    BY <1>4, BoundTypes DEF Through, Afes
  <2>2. QED
    BY <1>1, <1>2, <1>4, <2>1 DEF AlignedInEye
<1>5. QED
  BY <1>3, <1>4

LEMMA SlipFoundAligns == ScanInv /\ AlignInv /\ SlipFound => AlignInv'
<1>1. SUFFICES ASSUME ScanInv, AlignInv, SlipFound PROVE AlignInv'
  OBVIOUS
<1>2. TypeOK /\ pc = "slip" /\ afe \in Afes /\ matched # NoMatch
  BY <1>1 DEF ScanInv, SlipFound, TypeOK
<1>3. /\ UNCHANGED <<afe, link, delay, result>> /\ pc' = "verify" /\ bitslip'[afe] = matched
      /\ \A a \in Afes : a # afe => bitslip'[a] = bitslip[a]
  BY <1>1, <1>2 DEF SlipFound, TypeOK, scan
<1>4. WideEye(afe)' => InPlace(afe)'
  BY <1>1, <1>2, <1>3 DEF AlignInv, SlipSoFar, WideEye, InPlace, InEye, WordAt
<1>5. \A a \in Afes : a < afe /\ WideEye(a)' => InPlace(a)'
  BY <1>1, <1>2, <1>3, InPlaceLocal DEF AlignInv, Afes
<1>6. AlignedInEye'
  BY <1>1, <1>2, <1>3, NothingThrough DEF AlignInv
<1>7. QED
  BY <1>1, <1>2, <1>3, <1>4, <1>5, <1>6 DEF AlignInv

LEMMA NoSlipFoundAligns == ScanInv /\ AlignInv /\ NoSlipFound => AlignInv'
<1>1. SUFFICES ASSUME ScanInv, AlignInv, NoSlipFound PROVE AlignInv'
  OBVIOUS
<1>2. TypeOK /\ pc = "slip" /\ afe \in Afes /\ matched = NoMatch /\ tap = Slips
  BY <1>1 DEF ScanInv, NoSlipFound, TypeOK
<1>3. /\ UNCHANGED <<afe, link, delay>> /\ pc' = "idle" /\ result' = "AlignmentFailed"
      /\ matched' = NoMatch
      /\ \A a \in Afes : a # afe => bitslip'[a] = bitslip[a]
  BY <1>1, <1>2 DEF NoSlipFound, GiveUp, Finish, SlipScanOver, TypeOK
<1>4. WideEye(afe) => link[afe].phase = Noise
  BY <1>1, <1>2, NoMatchMeansDead DEF AlignInv
<1>5. AlignedInEye'
  BY <1>1, <1>2, <1>3, <1>4, EndAligns
<1>6. QED
  BY <1>3, <1>5 DEF AlignInv

LEMMA VerifyReadAligns == ScanInv /\ AlignInv /\ VerifyRead => AlignInv'
<1>1. SUFFICES ASSUME ScanInv, AlignInv, VerifyRead PROVE AlignInv'
  OBVIOUS
<1>2. TypeOK /\ pc = "verify" /\ afe \in Afes
  BY <1>1 DEF ScanInv, VerifyRead, TypeOK
<1>3. PICK word \in Snapshot(delay[afe], bitslip[afe]) :
        IF word = Expected
        THEN reads' = reads + 1 /\ UNCHANGED <<pc, vtc, tap, matched, result, asked>>
        ELSE GiveUp /\ SlipScanOver
  BY <1>1 DEF VerifyRead
<1>4. UNCHANGED <<delay, bitslip, afe, link>>
  BY <1>1 DEF VerifyRead
<1>5. CASE word = Expected
  <2>1. UNCHANGED <<pc, result>>
    BY <1>3, <1>5
  <2>2. \A a \in Afes : (WideEye(a) <=> WideEye(a)') /\ (InPlace(a) <=> InPlace(a)')
    BY <1>4, InPlaceLocal
  <2>3. WideEye(afe)' => InPlace(afe)'
    BY <1>1, <1>2, <1>4 DEF AlignInv, WideEye, InPlace
  <2>4. \A a \in Afes : a < afe /\ WideEye(a)' => InPlace(a)'
    BY <1>1, <1>2, <1>4, <2>2 DEF AlignInv
  <2>5. AlignedInEye'
    BY <1>1, <1>2, <2>1, NothingThrough DEF AlignInv
  <2>6. QED
    BY <1>1, <1>2, <1>4, <2>1, <2>3, <2>4, <2>5 DEF AlignInv
<1>6. CASE word # Expected
  <2>1. pc' = "idle" /\ result' = "AlignmentFailed" /\ matched' = NoMatch
    BY <1>3, <1>6 DEF GiveUp, Finish, SlipScanOver
  <2>2. ~WideEye(afe)
    BY <1>1, <1>2, <1>6, VerifyInPlace DEF AlignInv
  <2>3. AlignedInEye'
    BY <1>1, <1>2, <1>4, <2>1, <2>2, EndAligns
  <2>4. QED
    BY <2>1, <2>3 DEF AlignInv
<1>7. QED
  BY <1>5, <1>6

LEMMA NextAfeAligns == ScanInv /\ AlignInv /\ NextAfe => AlignInv'
<1>1. SUFFICES ASSUME ScanInv, AlignInv, NextAfe PROVE AlignInv'
  OBVIOUS
<1>2. TypeOK /\ pc = "verify" /\ afe \in Afes /\ afe \in Nat
  BY <1>1 DEF ScanInv, NextAfe, TypeOK, Afes
<1>3. PICK l \in Links : link' = [link EXCEPT ![afe + 1] = l]
  BY <1>1 DEF NextAfe, BeginAfe
<1>4. /\ UNCHANGED <<delay, bitslip, result>> /\ pc' = "delay" /\ afe' = afe + 1 /\ tap' = 0
      /\ matched' = NoMatch
  BY <1>1 DEF NextAfe, BeginAfe, SlipScanOver, registers
<1>5. EyeScanned'
  BY <1>4, BoundTypes DEF EyeScanned, TapIds
<1>6. \A a \in Afes : a < afe + 1 /\ WideEye(a)' => InPlace(a)'
  <2>1. TAKE a \in Afes
  <2>2. CASE a < afe + 1
    <3>1. (a < afe \/ a = afe) /\ link'[a] = link[a]
      BY <1>2, <1>3, <2>2 DEF TypeOK, Afes
    <3>2. QED
      BY <1>1, <1>2, <1>4, <3>1, InPlaceLocal DEF AlignInv
  <2>3. QED
    BY <2>2
<1>7. AlignedInEye'
  BY <1>1, <1>2, <1>4, NothingThrough DEF AlignInv
<1>8. QED
  BY <1>1, <1>2, <1>4, <1>5, <1>6, <1>7 DEF AlignInv

LEMMA StepAligns == ScanInv /\ AlignInv /\ [Next]_vars => AlignInv'
<1>1. SUFFICES ASSUME ScanInv, AlignInv, [Next]_vars PROVE AlignInv'
  OBVIOUS
<1>2. TypeOK /\ afe \in Afes
  BY <1>1 DEF ScanInv, TypeOK
<1>3. CASE Align
  <2>1. pc' = "ready" /\ result' = "none" /\ matched' = matched /\ pc = "idle"
    BY <1>3 DEF Align, scan, slipScan
  <2>2. QED
    BY <1>1, <2>1, NothingThrough DEF AlignInv
<1>4. CASE DelayctrlReady
  <2>1. pc' = "delay" /\ result' = "none" /\ matched' = NoMatch /\ tap' = 0 /\ afe' = 0
    BY <1>1, <1>4 DEF DelayctrlReady, BeginAfe, slipScan, AlignInv, ScanInv, Locals
  <2>2. EyeScanned'
    BY <2>1, BoundTypes DEF EyeScanned, TapIds
  <2>3. \A a \in Afes : ~(a < 0)
    BY BoundTypes DEF Afes
  <2>4. QED
    BY <2>1, <2>2, <2>3, NothingThrough DEF AlignInv
<1>5. CASE DelayctrlTimesOut \/ Restart
  <2>1. pc' = "idle" /\ result' \in {"Timeout", "restarted"} /\ matched' = NoMatch
    BY <1>1, <1>5 DEF DelayctrlTimesOut, Restart, Finish, SlipScanOver, scan, slipScan, AlignInv
  <2>2. QED
    BY <2>1, NothingThrough DEF AlignInv
<1>6. CASE ScanDelay \/ PickDelay \/ ScanSlip
  BY <1>1, <1>6, ScanDelayAligns, PickDelayAligns, ScanSlipAligns
<1>7. CASE SlipFound \/ NoSlipFound \/ VerifyRead \/ NextAfe
  BY <1>1, <1>7, SlipFoundAligns, NoSlipFoundAligns, VerifyReadAligns, NextAfeAligns
<1>8. CASE Aligned
  <2>1. /\ UNCHANGED <<delay, bitslip, afe, link>> /\ pc = "verify" /\ pc' = "idle"
        /\ result' = "ok" /\ matched' = NoMatch /\ afe = AfeCount - 1
    BY <1>8 DEF Aligned, Finish, SlipScanOver
  <2>2. WideEye(afe) => InPlace(afe)'
    BY <1>1, <2>1 DEF AlignInv, InPlace
  <2>3. AlignedInEye'
    BY <1>1, <1>2, <2>1, <2>2, EndAligns
  <2>4. QED
    BY <2>1, <2>3 DEF AlignInv
<1>9. CASE ReadBack \/ UNCHANGED vars
  <2>1. UNCHANGED <<delay, bitslip, pc, afe, tap, matched, scanned, link, result>>
    BY <1>9 DEF ReadBack, vars, registers, scan, delayScan, slipScan
  <2>2. QED
    BY <1>1, <2>1 DEF AlignInv, EyeScanned, SlipSoFar, AlignedInEye, Through, WideEye, InPlace,
           InEye, WordAt
<1>10. QED
  BY <1>1, <1>3, <1>4, <1>5, <1>6, <1>7, <1>8, <1>9 DEF Next

\* For every number of taps and slips: an AFE whose eye is more than half of the taps, and that
\* the alignment was through with, has its delay in the eye and reads the expected word; and
\* none makes the alignment fail unless its clock is dead.
THEOREM WideEyesAlign == Spec => []AlignedInEye
<1>1. AlignInv => AlignedInEye
  BY DEF AlignInv
<1>2. QED
  BY <1>1, InitScan, StepScan, InitAlign, StepAligns, PTL DEF Spec

-------------------------------------------------------------------------------
(***************************************************************************)
(* The answer of the handler                                               *)
(***************************************************************************)
\* At most one entry for each read-back; with one for each, they are in board order.
AnswerInv ==
    /\ pc # "idle" => answer = <<>>
    /\ Len(answer) <= asked
    /\ Len(answer) = asked /\ pc = "idle" =>
         \A a \in Afes : a < asked => answer[a + 1] = Entry(a)

\* A vector with an entry for every AFE has them in board order.
THEOREM FullAnswer == Spec => []FullAnswerIsByAfe
<1>1. Init => AnswerInv
  BY BoundTypes DEF Init, AnswerInv
<1>2. ScanInv /\ AnswerInv /\ [Next]_vars => AnswerInv'
  <2>1. SUFFICES ASSUME ScanInv, AnswerInv, [Next]_vars PROVE AnswerInv'
    OBVIOUS
  <2>2. asked \in Nat /\ asked <= AfeCount /\ answer \in Seq([delay : TapIds, bitslip : SlipIds])
        /\ TypeOK
    BY <2>1, BoundTypes DEF ScanInv, TypeOK
  <2>3. CASE ReadBack
    <3>1. UNCHANGED <<delay, bitslip, pc>> /\ pc = "idle" /\ asked' = asked + 1 /\ asked \in Afes
      BY <2>2, <2>3, BoundTypes DEF ReadBack, registers, Afes
    <3>2. CASE answer' = answer
      BY <2>1, <2>2, <3>1, <3>2 DEF AnswerInv
    <3>3. CASE answer' = Append(answer, Entry(asked))
      <4>1. Len(answer') = Len(answer) + 1
        BY <2>2, <3>3
      <4>2. ASSUME Len(answer) = asked, NEW a \in Afes, a < asked + 1
            PROVE  answer'[a + 1] = Entry(a)
        <5>1. CASE a = asked
          BY <2>2, <3>3, <4>2, <5>1
        <5>2. CASE a < asked
          <6>1. answer'[a + 1] = answer[a + 1]
            BY <2>2, <3>3, <4>2, <5>2 DEF Afes
          <6>2. QED
            BY <2>1, <3>1, <4>2, <5>2, <6>1 DEF AnswerInv
        <5>3. QED
          BY <2>2, <4>2, <5>1, <5>2 DEF Afes
      <4>3. QED
        BY <2>1, <2>2, <3>1, <4>1, <4>2 DEF AnswerInv, Entry
    <3>4. QED
      BY <2>3, <3>2, <3>3 DEF ReadBack
  <2>4. CASE Align
    BY <2>2, <2>4 DEF Align, AnswerInv
  <2>5. CASE \/ DelayctrlReady \/ ScanDelay \/ PickDelay \/ ScanSlip \/ SlipFound \/ NextAfe
    <3>1. pc # "idle" /\ pc' # "idle" /\ UNCHANGED <<answer, asked>>
      BY <2>5 DEF DelayctrlReady, ScanDelay, PickDelay, ScanSlip, SlipFound, NextAfe, BeginAfe, handler
    <3>2. QED
      BY <2>1, <3>1 DEF AnswerInv
  <2>6. CASE DelayctrlTimesOut \/ NoSlipFound \/ Aligned \/ Restart
    <3>1. answer = <<>> /\ answer' = <<>> /\ asked' \in {0, AfeCount, asked}
      BY <2>1, <2>6 DEF DelayctrlTimesOut, NoSlipFound, Aligned, Restart, GiveUp, Finish, handler,
             AnswerInv
    <3>2. QED
      BY <2>2, <3>1, BoundTypes DEF AnswerInv, Afes
  <2>7. CASE VerifyRead
    <3>1. answer = <<>> /\ answer' = <<>> /\ asked' \in {0, asked}
      BY <2>1, <2>7 DEF VerifyRead, GiveUp, Finish, AnswerInv
    <3>2. QED
      BY <2>2, <3>1, BoundTypes DEF AnswerInv, Afes
  <2>8. CASE UNCHANGED vars
    BY <2>1, <2>8 DEF AnswerInv, vars, registers, handler, Entry
  <2>9. QED
    BY <2>1, <2>3, <2>4, <2>5, <2>6, <2>7, <2>8 DEF Next
<1>3. ScanInv /\ AnswerInv => FullAnswerIsByAfe
  BY BoundTypes DEF ScanInv, TypeOK, AnswerInv, FullAnswerIsByAfe, Afes
<1>4. QED
  BY <1>1, <1>2, <1>3, InitScan, StepScan, PTL DEF Spec

===============================================================================
