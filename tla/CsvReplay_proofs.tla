-------------------------- MODULE CsvReplay_proofs --------------------------
(***************************************************************************)
(* The deglitching guarantees of CsvReplay for every set of lines, every   *)
(* sample and deglitch time and every file.                                *)
(***************************************************************************)
EXTENDS CsvReplay, TLAPS

USE SampleTimeAssumption, DeglitchAssumption, SynthLimitAssumption,
    MaxTimeAssumption

\* What is known of one line between two frames.  A level not yet reported has
\* been held for the deglitch time at most; last_change is then the time of the
\* row that brought it.
LineInv(s) ==
  /\ phase = "synth" => sig[s].previous_is_valid
  /\ sig[s].previous_is_valid => sig[s].buffered_raw = sig[s].raw
  /\ sig[s].previous_is_valid => wireSince[s] <= lastFrame
  /\ sig[s].previous_is_valid => budget + time - wireSince[s] >= SynthLimit
  /\ sig[s].val # sig[s].raw =>
       /\ sig[s].previous_is_valid
       /\ sig[s].last_change = wireSince[s]
       /\ lastFrame - wireSince[s] <= DeglitchOf[s]
  /\ HasEdge(sig[s]) =>
       /\ sig[s].val = sig[s].raw
       /\ lastFrame - wireSince[s] > DeglitchOf[s]

\* The clock of the loop: no frame is ahead of the frame time, the frame time is
\* never ahead of the next row, and a gap left with budget is filled.
ClockInv ==
  /\ lastFrame <= time
  /\ time - lastFrame <= SampleTime
  /\ nextTime # EndOfFile => time <= nextTime
  /\ phase = "synth" => nextTime # EndOfFile
  /\ phase = "read" /\ nextTime # EndOfFile /\ budget > 0 /\ SampleTime > 0
       => nextTime - time <= SampleTime

IInv == TypeOK /\ ClockInv /\ \A s \in Signals : LineInv(s)

\* What signal_deglitch makes of a line s: the new state r.
DeglitchEffect(s, now, d, r) ==
  /\ r \in SignalState
  /\ r.previous_is_valid
  /\ r.raw = s.raw
  /\ r.buffered_raw = s.raw
  /\ ~s.previous_is_valid => r.val = s.raw /\ ~HasEdge(r)
  /\ s.previous_is_valid =>
       /\ r.last_change = IF s.raw = s.buffered_raw THEN s.last_change ELSE now
       /\ r.val = IF now - r.last_change > d THEN s.raw ELSE s.val
       /\ HasEdge(r) <=> r.val # s.val

\* signal_deglitch keeps what the sample remembers in order.
LEMMA DeglitchStep ==
  ASSUME NEW s \in SignalState, NEW now \in Nat, NEW d \in Nat
  PROVE  DeglitchEffect(s, now, d, Deglitch(s, now, d))
<1> DEFINE r == Deglitch(s, now, d)
<1> DEFINE f == FirstSample(s)
           t == TrackRaw(f, now)
           stable == t.buffered_raw # t.val /\ now - t.last_change > d
<1>1. /\ f \in SignalState
      /\ f.previous_is_valid
      /\ f.raw = s.raw
      /\ f.last_change = s.last_change
      /\ s.previous_is_valid => f = s
      /\ ~s.previous_is_valid => f.val = s.raw /\ f.buffered_raw = s.raw
  BY DEF FirstSample, SignalState
<1>2. /\ t \in SignalState
      /\ t.previous_is_valid
      /\ t.raw = f.raw
      /\ t.val = f.val
      /\ t.buffered_raw = f.raw
      /\ t.last_change = IF f.raw = f.buffered_raw THEN f.last_change ELSE now
  BY <1>1 DEF TrackRaw, SignalState
<1>3. /\ r \in SignalState
      /\ r.previous_is_valid
      /\ r.raw = t.raw
      /\ r.buffered_raw = t.buffered_raw
      /\ r.last_change = t.last_change
      /\ r.val = IF stable THEN t.raw ELSE t.val
      /\ r.falling_edge = (stable /\ t.raw = 0 /\ t.val = 1)
      /\ r.rising_edge = (stable /\ t.raw = 1 /\ t.val = 0)
  <2> HIDE DEF t
  <2> QED BY <1>2 DEF Deglitch, Report, SignalState, t
<1>4. {s.raw, s.val, t.val, t.raw} \subseteq Level
  BY <1>1, <1>2 DEF SignalState
<1>5. /\ HasEdge(r) <=> r.val # t.val
      /\ t.val = t.raw => ~HasEdge(r)
  <2> HIDE DEF t, r
  <2> QED BY <1>2, <1>3, <1>4 DEF HasEdge, Level
<1>6. r.val = IF now - r.last_change > d THEN s.raw ELSE t.val
  <2> HIDE DEF t, f, r
  <2> QED BY <1>1, <1>2, <1>3, <1>4
<1> HIDE DEF t, f, r
<1>7. DeglitchEffect(s, now, d, r)
  BY <1>1, <1>2, <1>3, <1>4, <1>5, <1>6 DEF DeglitchEffect
<1>8. QED
  BY <1>7 DEF r

\* One line through one frame: the row or the synthesized frame brings the
\* levels w, and w may differ from the old level only when since is now.
LEMMA LineStep ==
  ASSUME TypeOK, ClockInv, NEW s \in Signals, LineInv(s),
         NEW w \in Level, NEW now \in Nat, NEW since \in Nat,
         now >= lastFrame,
         LET n == Deglitch([sig[s] EXCEPT !.raw = w], now, DeglitchOf[s])
         IN  sig'[s] = n,
         wireSince'[s] = since, lastFrame' = now,
         since = IF sig[s].previous_is_valid /\ w = sig[s].raw
                 THEN wireSince[s] ELSE now,
         budget' + time' - since >= SynthLimit
  PROVE  LineInv(s)' /\ sig'[s] \in SignalState
<1> DEFINE p == [sig[s] EXCEPT !.raw = w]
           r == sig'[s]
<1>1. /\ p \in SignalState
      /\ p.raw = w
      /\ p.previous_is_valid = sig[s].previous_is_valid
      /\ p.buffered_raw = sig[s].buffered_raw
      /\ p.last_change = sig[s].last_change
      /\ p.val = sig[s].val
  BY DEF TypeOK, SignalState
<1>2. DeglitchOf[s] \in Nat /\ r = Deglitch(p, now, DeglitchOf[s])
  OBVIOUS
<1> HIDE DEF p, r
<1>3. /\ r \in SignalState
      /\ r.previous_is_valid
      /\ r.raw = w
      /\ r.buffered_raw = w
      /\ ~p.previous_is_valid => r.val = w /\ ~HasEdge(r)
      /\ p.previous_is_valid =>
           /\ r.last_change = IF w = p.buffered_raw THEN p.last_change ELSE now
           /\ r.val = IF now - r.last_change > DeglitchOf[s] THEN w ELSE p.val
           /\ HasEdge(r) <=> r.val # p.val
  <2>1. DeglitchEffect(p, now, DeglitchOf[s], r)
    BY <1>1, <1>2, DeglitchStep
  <2>2. QED
    BY <1>1, <2>1 DEF DeglitchEffect
<1>4. {sig[s].val, sig[s].raw, r.val} \subseteq Level /\ sig[s].last_change \in Nat
      /\ wireSince[s] \in Nat /\ lastFrame \in Nat
  BY <1>3 DEF TypeOK, SignalState
<1>5. CASE ~sig[s].previous_is_valid
  BY <1>1, <1>2, <1>3, <1>4, <1>5 DEF LineInv, r
<1>6. CASE sig[s].previous_is_valid
  <2>1. since <= now
    BY <1>4, <1>6 DEF LineInv
  <2>2. r.val # w => r.last_change = since /\ now - since <= DeglitchOf[s]
    BY <1>1, <1>2, <1>3, <1>4, <1>6 DEF LineInv
  <2>3. HasEdge(r) => r.val = w /\ now - since > DeglitchOf[s]
    BY <1>1, <1>2, <1>3, <1>4, <1>6 DEF LineInv
  <2>4. QED
    BY <1>3, <2>1, <2>2, <2>3 DEF LineInv, r
<1>7. QED
  BY <1>5, <1>6

\* The clock and every line keep their invariant through every frame.
THEOREM InductiveInvariant == Spec => []IInv
<1>1. Init => IInv
  <2> SUFFICES ASSUME Init PROVE IInv
    OBVIOUS
  <2>1. NoSample \in SignalState
    BY DEF NoSample, SignalState, Level
  <2>2. ASSUME NEW s \in Signals PROVE LineInv(s)
    BY DEF Init, LineInv, NoSample, HasEdge
  <2>3. QED
    BY <2>1, <2>2 DEF Init, IInv, TypeOK, ClockInv, EndOfFile
<1>2. IInv /\ [Next]_vars => IInv'
  <2> SUFFICES ASSUME IInv, [Next]_vars PROVE IInv'
    OBVIOUS
  <2> USE DEF EndOfFile
  <2>1. CASE ReadRow
    <3>1. PICK wires \in [Signals -> Level] :
            /\ ProcessFrame(wires, nextTime)
            /\ wireSince' = [s \in Signals |->
                 IF sig[s].previous_is_valid /\ wires[s] = sig[s].raw
                 THEN wireSince[s] ELSE nextTime]
      BY <2>1 DEF ReadRow
    <3>2. PICK n \in Later(nextTime) \cup {EndOfFile} :
            /\ nextTime' = n
            /\ phase' = IF SampleTime > 0 /\ n # EndOfFile THEN "synth" ELSE "read"
      BY <2>1 DEF ReadRow
    <3>3. /\ nextTime \in Nat /\ time' = nextTime /\ lastFrame' = nextTime
          /\ budget' = SynthLimit
          /\ n = EndOfFile \/ (n \in Nat /\ n > nextTime)
          /\ lastFrame <= nextTime
      BY <2>1, <3>1 DEF ReadRow, ProcessFrame, IInv, TypeOK, Later, ClockInv
    <3>4. ASSUME NEW s \in Signals PROVE LineInv(s)' /\ sig'[s] \in SignalState
      <4>1. /\ wires[s] \in Level /\ wireSince'[s] \in Nat
            /\ lastFrame \in Nat /\ wireSince[s] \in Nat
            /\ sig'[s] = Deglitch([sig[s] EXCEPT !.raw = wires[s]], nextTime, DeglitchOf[s])
            /\ wireSince'[s] = IF sig[s].previous_is_valid /\ wires[s] = sig[s].raw
                               THEN wireSince[s] ELSE nextTime
        BY <3>1, <3>3 DEF ProcessFrame, IInv, TypeOK
      <4>2. wireSince'[s] <= nextTime
        BY <3>3, <4>1 DEF IInv, LineInv
      <4>3. budget' + time' - wireSince'[s] >= SynthLimit
        BY <3>3, <4>1, <4>2
      <4>4. QED
        BY <3>3, <4>1, <4>3, LineStep DEF IInv
    <3>5. TypeOK'
      <4>1. sig' = [s \in Signals |-> sig'[s]]
        BY <3>1 DEF ProcessFrame
      <4>2. wireSince' \in [Signals -> Nat]
        BY <3>1, <3>3 DEF IInv, TypeOK
      <4>3. QED
        BY <3>2, <3>3, <3>4, <4>1, <4>2 DEF TypeOK
    <3>6. ClockInv'
      BY <3>2, <3>3 DEF ClockInv
    <3>7. QED
      BY <3>4, <3>5, <3>6 DEF IInv
  <2>2. CASE Synthesize
    <3>1. /\ time \in Nat /\ lastFrame' = time /\ time' = time + SampleTime
          /\ budget' = budget - SampleTime /\ wireSince' = wireSince
          /\ nextTime' = nextTime /\ phase' = phase /\ phase = "synth"
          /\ time + SampleTime < nextTime
          /\ budget \in Int /\ lastFrame <= time
      BY <2>2 DEF Synthesize, GapLeft, ProcessFrame, IInv, TypeOK, ClockInv
    <3>2. ASSUME NEW s \in Signals PROVE LineInv(s)' /\ sig'[s] \in SignalState
      <4>1. /\ sig[s].raw \in Level /\ wireSince[s] \in Nat /\ lastFrame \in Nat
            /\ sig'[s] = Deglitch([sig[s] EXCEPT !.raw = Wires[s]], time, DeglitchOf[s])
            /\ Wires[s] = sig[s].raw
        BY <2>2 DEF Synthesize, ProcessFrame, Wires, IInv, TypeOK, SignalState
      <4>2. CASE sig[s].previous_is_valid
        <5>1. budget' + time' - wireSince'[s] >= SynthLimit
          BY <3>1, <4>1, <4>2 DEF IInv, LineInv
        <5>2. QED
          BY <3>1, <4>1, <4>2, <5>1, LineStep DEF IInv
      <4>3. sig[s].previous_is_valid
        BY <3>1 DEF IInv, LineInv
      <4>4. QED
        BY <4>2, <4>3
    <3>3. TypeOK'
      <4>1. sig' = [s \in Signals |-> sig'[s]]
        BY <2>2 DEF Synthesize, ProcessFrame
      <4>2. budget' \in Int /\ budget' + SampleTime >= 0 /\ budget' <= SynthLimit
        BY <2>2, <3>1 DEF Synthesize, GapLeft, IInv, TypeOK
      <4>3. time' \in Nat /\ lastFrame' \in Nat
        BY <3>1
      <4>4. QED
        BY <3>1, <3>2, <4>1, <4>2, <4>3 DEF IInv, TypeOK
    <3>4. ClockInv'
      BY <3>1, SampleTimeAssumption DEF IInv, TypeOK, ClockInv
    <3>5. QED
      BY <3>2, <3>3, <3>4 DEF IInv
  <2>3. CASE GapFilled
    BY <2>3 DEF GapFilled, GapLeft, IInv, TypeOK, ClockInv, LineInv, HasEdge
  <2>4. CASE Finish
    BY <2>4 DEF Finish, IInv, TypeOK, ClockInv, LineInv, HasEdge
  <2>5. CASE Terminated \/ UNCHANGED vars
    BY <2>5 DEF Terminated, vars, IInv, TypeOK, ClockInv, LineInv, HasEdge
  <2>6. QED
    BY <2>1, <2>2, <2>3, <2>4, <2>5 DEF Next
<1>3. QED
  BY <1>1, <1>2, PTL DEF Spec
\* Every variable keeps its type, for every file.
THEOREM TypeCorrect == Spec => []TypeOK
<1>1. IInv => TypeOK
  BY DEF IInv
<1>2. QED
  BY <1>1, InductiveInvariant, PTL

\* Of every file, deglitch time and sample time: an edge flag stands for a level
\* held longer than the deglitch time (signal.c:69-89 under csv.c:112-118).
THEOREM GlitchFree == Spec => []NoGlitchReported
<1>1. IInv => NoGlitchReported
  BY DEF IInv, LineInv, NoGlitchReported
<1>2. QED
  BY <1>1, InductiveInvariant, PTL

\* Lines deglitched alike are reported in the order they moved, so that START
\* and STOP stay START and STOP: a line still unreported when a younger change
\* is reported would be overdue.
THEOREM OrderKept == Spec => []NoReordering
<1>1. IInv => NoReordering
  <2> SUFFICES ASSUME IInv, NEW a \in Signals, NEW b \in Signals,
                      DeglitchOf[a] = DeglitchOf[b],
                      wireSince[a] <= wireSince[b], HasEdge(sig[b]),
                      sig[a].val # sig[a].raw
               PROVE  FALSE
    BY DEF NoReordering
  <2>1. lastFrame - wireSince[b] > DeglitchOf[b]
    BY DEF IInv, LineInv
  <2>2. lastFrame - wireSince[a] <= DeglitchOf[a]
    BY DEF IInv, LineInv
  <2>3. QED
    BY <2>1, <2>2 DEF IInv, TypeOK
<1>2. QED
  BY <1>1, InductiveInvariant, PTL

\* The frames the decoders get are dense in time (csv.c:112-118).
THEOREM FramesDense == Spec => FrameTimesDense
<1> DEFINE Dense ==
      /\ lastFrame' >= lastFrame
      /\ Synthesize => lastFrame' - lastFrame <= SampleTime
      /\ ReadRow /\ SampleTime > 0 /\ budget > 0
           => lastFrame' - lastFrame <= 2 * SampleTime
<1>1. ASSUME IInv, [Next]_vars PROVE [Dense]_vars
  <2>1. ASSUME ReadRow PROVE /\ lastFrame' >= lastFrame
                             /\ SampleTime > 0 /\ budget > 0
                                => lastFrame' - lastFrame <= 2 * SampleTime
    <3>1. /\ lastFrame' = nextTime /\ nextTime # EndOfFile /\ phase = "read"
          /\ {nextTime, time, lastFrame} \subseteq Nat /\ budget \in Int
      BY <1>1, <2>1 DEF ReadRow, ProcessFrame, IInv, TypeOK
    <3>2. QED
      BY <1>1, <3>1 DEF IInv, ClockInv
  <2>2. ASSUME Synthesize PROVE /\ lastFrame' >= lastFrame
                                /\ lastFrame' - lastFrame <= SampleTime
    BY <1>1, <2>2 DEF Synthesize, ProcessFrame, IInv, TypeOK, ClockInv
  <2>3. ASSUME GapFilled \/ Finish \/ Terminated
        PROVE  lastFrame' = lastFrame
    BY <2>3 DEF GapFilled, Finish, Terminated, vars
  <2>4. ReadRow => ~Synthesize
    BY DEF ReadRow, Synthesize
  <2>5. (GapFilled \/ Finish \/ Terminated) => (~ReadRow /\ ~Synthesize)
    BY DEF ReadRow, Synthesize, GapFilled, Finish, Terminated, vars
  <2>6. lastFrame \in Nat
    BY <1>1 DEF IInv, TypeOK
  <2>7. QED
    BY <1>1, <2>1, <2>2, <2>3, <2>4, <2>5, <2>6 DEF Next
<1>2. QED
  BY <1>1, InductiveInvariant, PTL DEF FrameTimesDense, Spec

\* A level longer than the deglitch time and two sample times is never lost,
\* whether the gap before its end was filled or cut short by the synthesis limit.
THEOREM NoLongLevelLost == Spec => LongLevelsReported
<1> DEFINE Seen ==
      ReadRow =>
        \A s \in Signals :
          /\ SampleTime > 0
          /\ DeglitchOf[s] + SampleTime < SynthLimit
          /\ sig[s].previous_is_valid
          /\ nextTime - wireSince[s] > DeglitchOf[s] + 2 * SampleTime
          => sig[s].val = sig[s].raw
<1>1. ASSUME IInv PROVE Seen
  <2> SUFFICES ASSUME ReadRow, NEW s \in Signals, SampleTime > 0,
                      DeglitchOf[s] + SampleTime < SynthLimit,
                      sig[s].previous_is_valid,
                      nextTime - wireSince[s] > DeglitchOf[s] + 2 * SampleTime,
                      sig[s].val # sig[s].raw
               PROVE  FALSE
    OBVIOUS
  <2>1. /\ phase = "read" /\ nextTime # EndOfFile
        /\ {nextTime, time, lastFrame, wireSince[s], DeglitchOf[s]} \subseteq Nat
        /\ budget \in Int
    BY <1>1 DEF ReadRow, IInv, TypeOK
  <2>2. lastFrame - wireSince[s] <= DeglitchOf[s]
    BY <1>1 DEF IInv, LineInv
  <2>3. CASE budget > 0
    BY <1>1, <2>1, <2>2, <2>3 DEF IInv, ClockInv
  <2>4. CASE ~(budget > 0)
    <3>1. budget + time - wireSince[s] >= SynthLimit
      BY <1>1 DEF IInv, LineInv
    <3>2. time - lastFrame <= SampleTime
      BY <1>1 DEF IInv, ClockInv
    <3>3. QED
      BY <2>1, <2>2, <2>4, <3>1, <3>2
  <2>5. QED
    BY <2>3, <2>4
<1>2. QED
  BY <1>1, InductiveInvariant, PTL DEF LongLevelsReported, Spec

\* A frame carries an edge flag exactly when it reports another level than the
\* frame before: signal_deglitch sets and clears the flags in every frame.
LEMMA FlagsOfFrame ==
  ASSUME TypeOK, NEW s \in Signals, sig[s].previous_is_valid,
         NEW w \in Level, NEW now \in Nat
  PROVE  LET n == Deglitch([sig[s] EXCEPT !.raw = w], now, DeglitchOf[s])
         IN  HasEdge(n) <=> n.val # sig[s].val
<1> DEFINE p == [sig[s] EXCEPT !.raw = w]
           n == Deglitch(p, now, DeglitchOf[s])
<1>1. /\ p \in SignalState /\ p.previous_is_valid /\ p.val = sig[s].val
      /\ DeglitchOf[s] \in Nat
  BY DEF TypeOK, SignalState
<1> HIDE DEF p
<1>2. DeglitchEffect(p, now, DeglitchOf[s], n)
  BY <1>1, DeglitchStep
<1>3. HasEdge(n) <=> n.val # p.val
  BY <1>1, <1>2 DEF DeglitchEffect
<1>4. QED
  BY <1>1, <1>3 DEF p

\* An edge reaches the decoders once, whatever the file and the sample time,
\* although a synthesized frame repeats the time of its row.
THEOREM EdgesReportedOnce == Spec => EdgesOncePerChange
<1> DEFINE Once ==
      ReadRow \/ Synthesize =>
        \A s \in Signals : sig[s].previous_is_valid =>
          (HasEdge(sig'[s]) <=> sig'[s].val # sig[s].val)
<1>1. ASSUME IInv PROVE Once
  <2> SUFFICES ASSUME ReadRow \/ Synthesize, NEW s \in Signals,
                      sig[s].previous_is_valid
               PROVE  HasEdge(sig'[s]) <=> sig'[s].val # sig[s].val
    OBVIOUS
  <2>1. PICK w \in Level, now \in Nat :
          sig'[s] = Deglitch([sig[s] EXCEPT !.raw = w], now, DeglitchOf[s])
    <3>1. CASE ReadRow
      <4>1. PICK wires \in [Signals -> Level] : ProcessFrame(wires, nextTime)
        BY <3>1 DEF ReadRow
      <4>2. nextTime \in Nat /\ wires[s] \in Level
        BY <1>1, <3>1 DEF ReadRow, IInv, TypeOK
      <4>3. QED
        BY <4>1, <4>2 DEF ProcessFrame
    <3>2. CASE Synthesize
      <4>1. time \in Nat /\ Wires[s] \in Level
        BY <1>1 DEF IInv, TypeOK, Wires, SignalState
      <4>2. QED
        BY <3>2, <4>1 DEF Synthesize, ProcessFrame
    <3>3. QED
      BY <3>1, <3>2
  <2>2. QED
    BY <1>1, <2>1, FlagsOfFrame DEF IInv
<1>2. QED
  BY <1>1, InductiveInvariant, PTL DEF EdgesOncePerChange, Spec

=============================================================================
