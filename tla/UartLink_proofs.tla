-------------------------- MODULE UartLink_proofs --------------------------
(***************************************************************************)
(* The UART decoder at the end of its line, proved for bytes of any length *)
(* and for all bit times and frame rates that TimingAssumption admits: it  *)
(* reports what is sent, each byte before the next one begins.             *)
(*                                                                         *)
(* The invariant ties the decoder's clock to the transmitter's: the start  *)
(* bit is seen within two frames of its beginning, sample k is taken at    *)
(* most one frame late, and so it falls in bit k, in a frame before which  *)
(* another frame has shown the bit's level already.                        *)
(***************************************************************************)
EXTENDS UartLink, TLAPS

\* When sample k is due, counted from the start bit, and where a bit begins.
Due(k) == (BitTime * 3) \div 2 + k * BitTime
Edge(j) == j * SenderBitTime

\* The number of levels of a byte that have begun after its start bit, and the time
\* since that start bit.
Begun == DataBits + 1 - Len(ahead)
Elapsed == Edge(Begun) + held

LinkOK ==
  /\ now \in Nat /\ level \in Level /\ held \in Nat /\ gap \in 0..MaxGap
  /\ ahead \in Seq(Level) /\ Len(ahead) <= DataBits + 1
  /\ ahead # <<>> => held <= SenderBitTime /\ ahead[Len(ahead)] = 1
  /\ ahead = <<>> => held <= ByteTime /\ level = 1
  /\ quiet \in BOOLEAN
  /\ sent \in Seq(Bytes) /\ received \in Seq(Bytes)
  /\ ~quiet => sent = <<>> /\ received = <<>>

\* After two frames the signal has the level of the line.
SignalFollows ==
  /\ sig \in SignalState
  /\ sig.last_change <= now - gap
  /\ ~sig.previous_is_valid => held = 0 /\ ~quiet
  /\ sig.previous_is_valid /\ held > gap => sig.buffered_raw = level
  /\ sig.previous_is_valid /\ held > gap + MaxGap => sig.val = level

\* No sample has been due for longer than since the last frame.
DecoderOnTime ==
  /\ uart \in [state : {"INIT", "IDLE", "ACCUMULATE_BITS", "STOP_BIT"},
               byte : Seq(Level), sample_time : Nat, byte_start_time : Nat]
  /\ uart.byte_start_time <= now
  /\ uart.state = "ACCUMULATE_BITS" => Len(uart.byte) < DataBits
  /\ uart.state = "STOP_BIT" => Len(uart.byte) = DataBits
  /\ uart.state \in {"ACCUMULATE_BITS", "STOP_BIT"} =>
       /\ uart.sample_time = Due(Len(uart.byte))
       /\ now - gap <= uart.byte_start_time + uart.sample_time

\* No start bit is seen in a line that idles.
IdleSeen ==
  ahead = <<>> =>
    /\ uart.state \in {"ACCUMULATE_BITS", "STOP_BIT"} =>
         uart.byte_start_time <= now - held + MaxGap
    /\ held > gap + MaxGap => uart.state # "INIT"

\* The transmitter is in a byte.
OnWire(byte) ==
  /\ \A i \in 1..Len(ahead) : ahead[i] = Levels(byte)[Begun + i]
  /\ level = IF Begun = 0 THEN 0 ELSE Levels(byte)[Begun]

\* The start bit was seen within two frames.
InPhase ==
  /\ now - Elapsed <= uart.byte_start_time
  /\ uart.byte_start_time <= now - Elapsed + 2 * MaxGap

Quiescent ==
  uart.state = "IDLE" /\ received = sent /\ ahead = <<>> /\ sig.val = 1

StartUnseen(byte) ==
  /\ uart.state = "IDLE" /\ sig.val = 1 /\ Begun = 0
  /\ sent = Append(received, byte)

Receiving(byte) ==
  /\ uart.state = "ACCUMULATE_BITS" /\ InPhase
  /\ sent = Append(received, byte)
  /\ \A i \in 1..Len(uart.byte) : uart.byte[i] = byte[i]

Stopping == uart.state = "STOP_BIT" /\ InPhase /\ received = sent

Talking(byte) == OnWire(byte) /\ (StartUnseen(byte) \/ Receiving(byte) \/ Stopping)

InStep == quiet => Quiescent \/ \E byte \in Bytes : Talking(byte)

LinkInv == LinkOK /\ SignalFollows /\ DecoderOnTime /\ IdleSeen /\ InStep

-----------------------------------------------------------------------------
(* The two clocks.                                                         *)

LEMMA Sizes ==
  /\ BitTime \in Nat /\ BitTime > 0 /\ DataBits \in Nat /\ DataBits > 0
  /\ SenderBitTime \in Nat /\ SenderBitTime > 0 /\ MaxGap \in Nat /\ MaxGap > 0
BY BitTimeAssumption, DataBitsAssumption, SenderAssumption

LEMMA EdgeStep ==
  ASSUME NEW j \in Nat
  PROVE  /\ Edge(j) \in Nat
         /\ Edge(j + 1) = Edge(j) + SenderBitTime
BY Sizes DEF Edge

LEMMA EdgeMonotone ==
  ASSUME NEW i \in Nat, NEW j \in Nat, i <= j
  PROVE  Edge(i) <= Edge(j)
<1>1. /\ (j - i) \in Nat
      /\ j = i + (j - i)
  OBVIOUS
<1>2. (j - i) * SenderBitTime \in Nat
  BY <1>1, Sizes
<1>3. j * SenderBitTime = i * SenderBitTime + (j - i) * SenderBitTime
  BY <1>1, Sizes
<1>4. i * SenderBitTime \in Nat
  BY Sizes
<1> QED
  BY <1>2, <1>3, <1>4 DEF Edge

LEMMA DueStep ==
  ASSUME NEW k \in Nat
  PROVE  /\ Due(k) \in Nat
         /\ Due(k + 1) = Due(k) + BitTime
         /\ Due(0) = (BitTime * 3) \div 2
<1>1. (BitTime * 3) \div 2 \in Nat
  BY Sizes
<1>2. /\ k * BitTime \in Nat
      /\ (k + 1) * BitTime = k * BitTime + BitTime
      /\ 0 * BitTime = 0
  BY Sizes
<1> QED
  BY <1>1, <1>2, Sizes DEF Due

LEMMA DueMonotone ==
  ASSUME NEW i \in Nat, NEW j \in Nat, i <= j
  PROVE  Due(i) <= Due(j)
<1>1. /\ (j - i) \in Nat
      /\ j = i + (j - i)
  OBVIOUS
<1>2. (j - i) * BitTime \in Nat
  BY <1>1, Sizes
<1>3. j * BitTime = i * BitTime + (j - i) * BitTime
  BY <1>1, Sizes
<1>4. i * BitTime \in Nat /\ (BitTime * 3) \div 2 \in Nat
  BY Sizes
<1> QED
  BY <1>2, <1>3, <1>4 DEF Due

\* Sample k falls in the bit that begins at Edge(k + 1), late enough in it for a
\* frame to have come before, and three frames before its end.
LEMMA Timing ==
  ASSUME NEW k \in 0..DataBits
  PROVE  /\ Edge(k + 1) + MaxGap <= Due(k)
         /\ Due(k) + 3 * MaxGap < Edge(k + 2)
<1>1. LET due == (BitTime * 3) \div 2 + k * BitTime
      IN  /\ (k + 1) * SenderBitTime + MaxGap <= due
          /\ due + 3 * MaxGap < (k + 2) * SenderBitTime
  BY TimingAssumption
<1> QED
  BY <1>1 DEF Due, Edge

\* A bit is longer than four frames, in both clocks.
LEMMA FramesPerBit ==
  /\ SenderBitTime > 4 * MaxGap
  /\ BitTime > 4 * MaxGap
<1>1. 0 \in 0..DataBits /\ 1 \in 0..DataBits
  BY Sizes
<1>2. /\ Edge(0 + 1) + MaxGap <= Due(0)
      /\ Due(0) + 3 * MaxGap < Edge(0 + 2)
      /\ Edge(1 + 1) + MaxGap <= Due(1)
  BY <1>1, Timing
<1>3. /\ Edge(1) \in Nat /\ Edge(2) \in Nat /\ Due(0) \in Nat /\ Due(1) \in Nat
      /\ Edge(1 + 1) = Edge(1) + SenderBitTime
      /\ Due(0 + 1) = Due(0) + BitTime
  BY EdgeStep, DueStep
<1> QED
  BY <1>2, <1>3, Sizes

\* What a byte and its levels are as sequences.
LEMMA LevelsOf ==
  ASSUME NEW byte \in Bytes
  PROVE  /\ byte \in Seq(Level) /\ Len(byte) = DataBits
         /\ Levels(byte) \in Seq(Level) /\ Len(Levels(byte)) = DataBits + 1
         /\ \A i \in 1..DataBits : Levels(byte)[i] = byte[i]
         /\ Levels(byte)[DataBits + 1] = 1
<1>1. byte \in Seq(Level) /\ Len(byte) = DataBits
  BY Sizes DEF Bytes
<1>2. 1 \in Level
  BY DEF Level
<1>3. Levels(byte) \in Seq(Level) /\ Len(Levels(byte)) = DataBits + 1
  BY <1>1, <1>2 DEF Levels
<1> QED
  BY <1>1, <1>2, <1>3, Sizes DEF Levels

-----------------------------------------------------------------------------
(* The signal of the line.                                                 *)

\* A frame notes the level of the line, and reports it if the frame before had
\* noted it or there was none.
Deglitched(s, l, n, t) ==
  /\ t \in SignalState
  /\ t.previous_is_valid
  /\ t.buffered_raw = l
  /\ t.last_change <= n
  /\ t.val = s.val \/ t.val = l
  /\ ~s.previous_is_valid => t.val = l
  /\ s.buffered_raw = l => t.val = l

LEMMA DeglitchTakesTwoFrames ==
  ASSUME NEW s \in SignalState, NEW l \in Level, NEW n \in Nat,
         s.previous_is_valid => s.last_change < n,
         s.last_change <= n
  PROVE  Deglitched(s, l, n, Deglitch([s EXCEPT !.raw = l], n, 0))
<1> DEFINE r == [s EXCEPT !.raw = l]
           f == FirstSample(r)
           k == TrackRaw(f, n)
           t == Report(k, n, 0)
<1>1. /\ r \in SignalState /\ r.raw = l /\ r.val = s.val
      /\ r.buffered_raw = s.buffered_raw /\ r.last_change = s.last_change
      /\ r.previous_is_valid = s.previous_is_valid
  BY DEF SignalState
<1>2. /\ f \in SignalState /\ f.raw = l /\ f.last_change = s.last_change
      /\ f.previous_is_valid
      /\ s.previous_is_valid => f.val = s.val /\ f.buffered_raw = s.buffered_raw
      /\ ~s.previous_is_valid => f.val = l /\ f.buffered_raw = l
  <2> HIDE DEF r
  <2>1. CASE s.previous_is_valid
    BY <1>1, <2>1 DEF FirstSample
  <2>2. CASE ~s.previous_is_valid
    BY <1>1, <2>2 DEF FirstSample, SignalState
  <2> QED
    BY <2>1, <2>2
<1>3. /\ k \in SignalState /\ k.raw = l /\ k.val = f.val
      /\ k.previous_is_valid /\ k.buffered_raw = l
      /\ f.buffered_raw = l => k.last_change = f.last_change
      /\ k.last_change <= n
  <2> HIDE DEF f
  <2>1. CASE f.raw = f.buffered_raw
    BY <1>2, <2>1 DEF TrackRaw
  <2>2. CASE f.raw # f.buffered_raw
    <3>1. k = [f EXCEPT !.buffered_raw = f.raw, !.last_change = n]
      BY <2>2 DEF TrackRaw
    <3>2. f.raw \in Level /\ n <= n
      BY <1>2 DEF SignalState
    <3> HIDE DEF k
    <3>3. k \in SignalState
      BY <1>2, <3>1, <3>2 DEF SignalState
    <3>4. /\ k.raw = f.raw /\ k.val = f.val /\ k.buffered_raw = f.raw
          /\ k.previous_is_valid = f.previous_is_valid /\ k.last_change = n
      BY <1>2, <3>1 DEF SignalState
    <3> QED
      BY <1>2, <2>2, <3>2, <3>3, <3>4
  <2> QED
    BY <2>1, <2>2
<1> DEFINE stable == k.buffered_raw # k.val /\ n - k.last_change > 0
<1>4. /\ t \in SignalState /\ t.previous_is_valid /\ t.buffered_raw = l
      /\ t.last_change = k.last_change
      /\ stable => t.val = l
      /\ ~stable => t.val = k.val
  <2> HIDE DEF k
  <2>1. t = [k EXCEPT !.val = IF stable THEN k.raw ELSE @,
                      !.falling_edge = stable /\ k.raw = 0 /\ k.val = 1,
                      !.rising_edge  = stable /\ k.raw = 1 /\ k.val = 0]
    BY DEF Report
  <2>2. stable \in BOOLEAN
    OBVIOUS
  <2> HIDE DEF stable, t
  <2>3. /\ (stable /\ k.raw = 0 /\ k.val = 1) \in BOOLEAN
        /\ (stable /\ k.raw = 1 /\ k.val = 0) \in BOOLEAN
    OBVIOUS
  <2>4. (IF stable THEN k.raw ELSE k.val) \in Level
    BY <1>3 DEF SignalState
  <2> QED
    BY <1>3, <2>1, <2>3, <2>4 DEF SignalState
<1>5. t.val = s.val \/ t.val = l
  BY <1>2, <1>3, <1>4
<1>6. ~s.previous_is_valid => t.val = l
  BY <1>2, <1>3, <1>4
<1>7. ASSUME s.buffered_raw = l PROVE t.val = l
  <2>1. CASE s.previous_is_valid
    <3>1. k.last_change < n /\ k.last_change \in Nat
      BY <1>2, <1>3, <1>7, <2>1 DEF SignalState
    <3>2. n - k.last_change > 0
      BY <3>1
    <3> QED
      BY <1>3, <1>4, <3>2
  <2>2. CASE ~s.previous_is_valid
    BY <1>6, <2>2
  <2> QED
    BY <2>1, <2>2
<1>8. t = Deglitch(r, n, 0)
  BY DEF Deglitch
<1> HIDE DEF t
<1>9. Deglitched(s, l, n, t)
  BY <1>3, <1>4, <1>5, <1>6, <1>7 DEF Deglitched
<1> QED
  BY <1>8, <1>9

-----------------------------------------------------------------------------
(* Where the transmitter is when the decoder takes a sample.               *)

LEMMA BegunType ==
  ASSUME LinkOK
  PROVE  /\ Begun \in 0..DataBits + 1
         /\ ahead = <<>> <=> Begun = DataBits + 1
         /\ Len(ahead) = DataBits + 1 - Begun
         /\ Elapsed = Edge(Begun) + held /\ Elapsed \in Nat /\ Edge(Begun) \in Nat
<1>1. Len(ahead) \in Nat /\ Len(ahead) <= DataBits + 1 /\ (ahead = <<>> <=> Len(ahead) = 0)
  BY DEF LinkOK
<1>2. Begun \in 0..DataBits + 1
  BY <1>1, Sizes DEF Begun
<1>3. Edge(Begun) \in Nat /\ held \in Nat
  BY <1>2, EdgeStep DEF LinkOK
<1> QED
  BY <1>1, <1>2, <1>3, Sizes DEF Begun, Elapsed

\* Sample k is the one the decoder waits for, and no frame has come too late for it.
Awaits(k) ==
  /\ uart.sample_time = Due(k)
  /\ uart.byte_start_time \in Nat
  /\ now - gap <= uart.byte_start_time + uart.sample_time

\* The transmitter is still before the end of the bit the sample is due in.
LEMMA BeforeItsEnd ==
  ASSUME LinkOK, InPhase, NEW k \in 0..DataBits, Awaits(k)
  PROVE  Elapsed < Edge(k + 2)
<1>1. Due(k) + 3 * MaxGap < Edge(k + 2)
  BY Timing
<1>2. Due(k) \in Nat /\ Edge(k + 2) \in Nat
  BY DueStep, EdgeStep, Sizes
<1>3. now \in Nat /\ gap \in 0..MaxGap /\ Elapsed \in Nat
  BY BegunType DEF LinkOK
<1> QED
  BY <1>1, <1>2, <1>3, Sizes DEF Awaits, InPhase

\* So the level of the line is not the last of its byte yet, or it has not been
\* held for a bit time.
LEMMA ByteNotOver ==
  ASSUME LinkOK, InPhase, NEW k \in 0..DataBits, Awaits(k)
  PROVE  ahead = <<>> => held < SenderBitTime
<1>1. Elapsed < Edge(k + 2)
  BY BeforeItsEnd
<1>2. Edge(k + 2) <= Edge(DataBits + 2)
  BY EdgeMonotone, Sizes
<1>3. /\ Edge((DataBits + 1) + 1) = Edge(DataBits + 1) + SenderBitTime
      /\ Edge(DataBits + 1) \in Nat /\ Edge(k + 2) \in Nat
  BY EdgeStep, Sizes
<1>4. ASSUME ahead = <<>> PROVE Elapsed = Edge(DataBits + 1) + held
  BY <1>4, BegunType
<1>5. held \in Nat
  BY DEF LinkOK
<1>6. (DataBits + 1) + 1 = DataBits + 2
  BY Sizes
<1> QED
  BY <1>1, <1>2, <1>3, <1>4, <1>5, <1>6, Sizes

\* When the sample is taken the line has its level, for more than a frame.
LEMMA SampleInBit ==
  ASSUME LinkOK, InPhase, NEW k \in 0..DataBits, Awaits(k), SampleDue(uart, now)
  PROVE  Begun = k + 1 /\ held > MaxGap
<1>1. Elapsed < Edge(k + 2)
  BY BeforeItsEnd
<1>2. Edge(k + 1) + MaxGap <= Due(k)
  BY Timing
<1>3. /\ Due(k) \in Nat /\ Edge(k + 1) \in Nat /\ Edge(k + 2) \in Nat /\ Edge(k) \in Nat
      /\ Edge(k + 1) = Edge(k) + SenderBitTime
  BY DueStep, EdgeStep, Sizes
<1>4. now \in Nat /\ gap \in 0..MaxGap /\ held \in Nat
  BY DEF LinkOK
<1>5. Begun \in 0..DataBits + 1 /\ Elapsed = Edge(Begun) + held /\ Edge(Begun) \in Nat
  BY BegunType
<1>6. Elapsed > Due(k)
  BY <1>3, <1>4, <1>5 DEF InPhase, Awaits, SampleDue
<1>7. ASSUME Begun <= k PROVE FALSE
  <2>1. Edge(Begun) <= Edge(k)
    BY <1>5, <1>7, EdgeMonotone
  <2>2. ahead # <<>>
    BY <1>7, BegunType, Sizes
  <2>3. held <= SenderBitTime
    BY <2>2 DEF LinkOK
  <2> QED
    BY <1>2, <1>3, <1>4, <1>5, <1>6, <2>1, <2>3, Sizes
<1>8. ASSUME Begun >= k + 2 PROVE FALSE
  <2>1. Edge(k + 2) <= Edge(Begun)
    BY <1>5, <1>8, EdgeMonotone
  <2> QED
    BY <1>1, <1>3, <1>4, <1>5, <2>1
<1>9. Begun = k + 1
  BY <1>5, <1>7, <1>8
<1> QED
  BY <1>2, <1>3, <1>4, <1>5, <1>6, <1>9, Sizes

\* What the sample shows is the level of the line.
LEMMA LevelOfBit ==
  ASSUME NEW byte \in Bytes, LinkOK, OnWire(byte), NEW k \in 0..DataBits, Begun = k + 1
  PROVE  level = (IF k = DataBits THEN 1 ELSE byte[k + 1])
<1>1. level = Levels(byte)[k + 1]
  BY Sizes DEF OnWire
<1>2. CASE k = DataBits
  BY <1>1, <1>2, LevelsOf
<1>3. CASE k # DataBits
  <2>1. k + 1 \in 1..DataBits
    BY <1>3, Sizes
  <2> QED
    BY <1>1, <1>3, <2>1, LevelsOf
<1> QED
  BY <1>2, <1>3

-----------------------------------------------------------------------------
(* A frame.                                                                *)

\* What the deglitched signal of the frame says of the line.
FrameShows ==
  /\ sig' \in SignalState /\ sig'.previous_is_valid
  /\ sig'.buffered_raw = level /\ sig'.last_change <= now
  /\ sig'.val = sig.val \/ sig'.val = level
  /\ held > MaxGap => sig'.val = level

LEMMA FrameSignal ==
  ASSUME LinkOK, SignalFollows, Frame
  PROVE  FrameShows
<1>1. /\ sig \in SignalState /\ level \in Level /\ now \in Nat /\ gap \in 0..MaxGap
      /\ held \in Nat /\ sig.last_change \in Nat /\ sig.last_change <= now - gap
  BY DEF LinkOK, SignalFollows, SignalState
<1>2. sig.previous_is_valid => sig.last_change < now
  BY <1>1, Sizes DEF Frame
<1>3. sig.last_change <= now
  BY <1>1, Sizes
<1>4. Deglitched(sig, level, now, sig')
  BY <1>1, <1>2, <1>3, DeglitchTakesTwoFrames DEF Frame
<1>5. held > MaxGap => sig'.val = level
  <2>1. held > MaxGap => held > gap
    BY <1>1, Sizes
  <2>2. CASE ~sig.previous_is_valid
    BY <1>4, <2>2 DEF Deglitched
  <2>3. CASE sig.previous_is_valid
    BY <1>4, <2>1, <2>3 DEF Deglitched, SignalFollows
  <2> QED
    BY <2>2, <2>3
<1> QED
  BY <1>4, <1>5 DEF Deglitched, FrameShows

LEMMA FrameKeepsSignal ==
  ASSUME LinkOK, SignalFollows, Frame
  PROVE  SignalFollows'
<1>1. FrameShows
  BY FrameSignal
<1>2. gap' = 0 /\ now' = now /\ held' = held /\ level' = level /\ quiet' = quiet
  BY DEF Frame, lineVars
<1>3. now \in Nat /\ held \in Nat
  BY DEF LinkOK
<1>4. sig'.last_change <= now' - gap'
  BY <1>1, <1>2, <1>3 DEF FrameShows, SignalState
<1>5. held' > gap' + MaxGap => held > MaxGap
  BY <1>2, <1>3, Sizes
<1> QED
  BY <1>1, <1>2, <1>4, <1>5 DEF FrameShows, SignalFollows

LEMMA FrameKeepsLine ==
  ASSUME LinkOK, SignalFollows, DecoderOnTime, Frame
  PROVE  LinkOK' /\ received' \in Seq(Bytes)
<1>1. FrameShows
  BY FrameSignal
<1>2. /\ gap' = 0 /\ now' = now /\ held' = held /\ level' = level /\ quiet' = quiet
      /\ ahead' = ahead /\ sent' = sent
  BY DEF Frame, lineVars
<1>3. ASSUME quiet /\ ByteDone(uart, now) PROVE received' \in Seq(Bytes)
  <2>1. /\ uart.state = "ACCUMULATE_BITS" /\ SampleDue(uart, now)
        /\ Len(uart.byte) = DataBits - 1 /\ uart.byte \in Seq(Level)
    BY <1>3 DEF ByteDone, DecoderOnTime
  <2>2. uart' = DataBit(uart, sig'.val)
    BY <2>1 DEF Frame, UartAccumulate
  <2>3. uart'.byte = Append(uart.byte, sig'.val)
    BY <2>2 DEF DataBit, DecoderOnTime
  <2>4. sig'.val \in Level
    BY <1>1 DEF FrameShows, SignalState
  <2>5. uart'.byte \in Seq(Level) /\ Len(uart'.byte) = DataBits
    BY <2>1, <2>3, <2>4, Sizes
  <2>6. uart'.byte \in Bytes
    BY <2>5, Sizes DEF Bytes
  <2>7. received' = Append(received, uart'.byte)
    BY <1>3 DEF Frame
  <2> QED
    BY <2>6, <2>7 DEF LinkOK
<1>4. ~(quiet /\ ByteDone(uart, now)) => received' = received
  BY DEF Frame
<1>5. received' \in Seq(Bytes)
  BY <1>3, <1>4 DEF LinkOK
<1>6. gap' \in 0..MaxGap
  BY <1>2, Sizes
<1>7. ~quiet => received' = <<>>
  BY <1>4 DEF LinkOK
<1> QED
  BY <1>2, <1>5, <1>6, <1>7 DEF LinkOK

\* The decoder's clause of a frame, by its state and the level it is shown.
LEMMA FrameDecodes ==
  ASSUME Frame
  PROVE  /\ uart.state = "INIT" =>
              uart' = IF sig'.val = 1 THEN [uart EXCEPT !.state = "IDLE"] ELSE uart
         /\ uart.state = "IDLE" =>
              uart' = IF sig'.val = 0 THEN StartBit(uart, now) ELSE uart
         /\ uart.state = "ACCUMULATE_BITS" =>
              uart' = IF SampleDue(uart, now) THEN DataBit(uart, sig'.val) ELSE uart
         /\ uart.state = "STOP_BIT" =>
              uart' = IF SampleDue(uart, now) THEN [uart EXCEPT !.state = "IDLE"] ELSE uart
         /\ received' = IF quiet /\ ByteDone(uart, now)
                        THEN Append(received, uart'.byte) ELSE received
BY DEF Frame, UartAccumulate

\* What the decoder awaits, when it awaits a sample.
LEMMA Awaited ==
  ASSUME DecoderOnTime, uart.state \in {"ACCUMULATE_BITS", "STOP_BIT"}
  PROVE  Len(uart.byte) \in 0..DataBits /\ Awaits(Len(uart.byte))
BY Sizes DEF DecoderOnTime, Awaits

LEMMA FrameKeepsDecoder ==
  ASSUME LinkOK, SignalFollows, DecoderOnTime, Frame
  PROVE  DecoderOnTime'
<1> DEFINE UartType == [state : {"INIT", "IDLE", "ACCUMULATE_BITS", "STOP_BIT"},
                        byte : Seq(Level), sample_time : Nat, byte_start_time : Nat]
           Good(u) == /\ u \in UartType
                      /\ u.byte_start_time <= now
                      /\ u.state = "ACCUMULATE_BITS" => Len(u.byte) < DataBits
                      /\ u.state = "STOP_BIT" => Len(u.byte) = DataBits
                      /\ u.state \in {"ACCUMULATE_BITS", "STOP_BIT"} =>
                           /\ u.sample_time = Due(Len(u.byte))
                           /\ now <= u.byte_start_time + u.sample_time
<1>1. FrameShows /\ sig'.val \in Level
  BY FrameSignal DEF FrameShows, SignalState
<1>2. gap' = 0 /\ now' = now /\ now \in Nat /\ gap \in 0..MaxGap
  BY DEF Frame, LinkOK
<1>3. uart \in UartType /\ uart.byte_start_time \in Nat /\ uart.byte_start_time <= now
  BY DEF DecoderOnTime
<1>4. CASE uart.state = "INIT"
  <2>1. uart' = [uart EXCEPT !.state = "IDLE"] \/ uart' = uart
    BY <1>4, FrameDecodes
  <2>2. Good(uart')
    BY <1>3, <1>4, <2>1
  <2> QED
    BY <1>2, <2>2 DEF DecoderOnTime
<1>5. CASE uart.state = "IDLE"
  <2>1. uart' = StartBit(uart, now) \/ uart' = uart
    BY <1>5, FrameDecodes
  <2>2. Due(0) = (BitTime * 3) \div 2 /\ Due(0) \in Nat
    BY DueStep
  <2>3. /\ StartBit(uart, now) =
             [state |-> "ACCUMULATE_BITS", byte |-> <<>>,
              sample_time |-> Due(0), byte_start_time |-> now]
        /\ Len(<<>>) = 0 /\ <<>> \in Seq(Level)
    BY <2>2 DEF StartBit
  <2>4. now <= now + Due(0) /\ now <= now /\ 0 < DataBits
    BY <1>2, <2>2, Sizes
  <2>5. Good(StartBit(uart, now))
    BY <1>2, <2>2, <2>3, <2>4
  <2>6. Good(uart)
    BY <1>3, <1>5
  <2>7. Good(uart')
    BY <2>1, <2>5, <2>6
  <2> QED
    BY <1>2, <2>7 DEF DecoderOnTime
<1>6. CASE uart.state \in {"ACCUMULATE_BITS", "STOP_BIT"} /\ ~SampleDue(uart, now)
  <2>1. uart' = uart
    BY <1>6, FrameDecodes
  <2>2. now <= uart.byte_start_time + uart.sample_time
    BY <1>2, <1>3, <1>6 DEF SampleDue
  <2>3. Good(uart')
    BY <1>3, <2>1, <2>2 DEF DecoderOnTime
  <2> QED
    BY <1>2, <2>3 DEF DecoderOnTime
<1>7. CASE uart.state = "ACCUMULATE_BITS" /\ SampleDue(uart, now)
  <2> DEFINE k == Len(uart.byte)
  <2>1. uart' = DataBit(uart, sig'.val)
    BY <1>7, FrameDecodes
  <2>2. /\ k \in Nat /\ k < DataBits /\ uart.sample_time = Due(k)
        /\ now - gap <= uart.byte_start_time + uart.sample_time
    BY <1>7 DEF DecoderOnTime
  <2>3. Due(k + 1) = Due(k) + BitTime /\ Due(k) \in Nat
    BY <2>2, DueStep
  <2>4. now <= uart.byte_start_time + Due(k + 1)
    BY <1>2, <1>3, <2>2, <2>3, FramesPerBit, Sizes
  <2>5. /\ uart'.byte = Append(uart.byte, sig'.val)
        /\ uart'.sample_time = Due(k + 1)
        /\ uart'.byte_start_time = uart.byte_start_time
        /\ uart'.state = IF k + 1 = DataBits THEN "STOP_BIT" ELSE "ACCUMULATE_BITS"
        /\ uart' = [state |-> uart'.state, byte |-> uart'.byte,
                    sample_time |-> uart'.sample_time,
                    byte_start_time |-> uart'.byte_start_time]
    BY <1>3, <1>7, <2>1, <2>2, <2>3 DEF DataBit
  <2>6. uart'.byte \in Seq(Level) /\ Len(uart'.byte) = k + 1
    BY <1>1, <1>3, <2>5
  <2>7. Due(k + 1) \in Nat
    BY <2>3, Sizes
  <2>8. uart' \in UartType
    BY <1>3, <2>5, <2>6, <2>7
  <2>9. Good(uart')
    BY <1>3, <2>2, <2>4, <2>5, <2>6, <2>8, Sizes
  <2> QED
    BY <1>2, <2>9 DEF DecoderOnTime
<1>8. CASE uart.state = "STOP_BIT" /\ SampleDue(uart, now)
  <2>1. uart' = [uart EXCEPT !.state = "IDLE"]
    BY <1>8, FrameDecodes
  <2>2. Good(uart')
    BY <1>3, <2>1
  <2> QED
    BY <1>2, <2>2 DEF DecoderOnTime
<1> QED
  BY <1>3, <1>4, <1>5, <1>6, <1>7, <1>8

LEMMA FrameKeepsIdle ==
  ASSUME LinkOK, SignalFollows, DecoderOnTime, IdleSeen, Frame
  PROVE  IdleSeen'
<1>1. FrameShows
  BY FrameSignal
<1>2. /\ gap' = 0 /\ now' = now /\ held' = held /\ ahead' = ahead
      /\ now \in Nat /\ held \in Nat /\ gap \in 0..MaxGap
  BY DEF Frame, lineVars, LinkOK
<1> SUFFICES ASSUME ahead = <<>>
             PROVE  /\ uart'.state \in {"ACCUMULATE_BITS", "STOP_BIT"} =>
                         uart'.byte_start_time <= now - held + MaxGap
                    /\ held > MaxGap => uart'.state # "INIT"
  BY <1>2, Sizes DEF IdleSeen
<1>3. level = 1
  BY DEF LinkOK
<1>4. /\ uart \in [state : {"INIT", "IDLE", "ACCUMULATE_BITS", "STOP_BIT"},
                   byte : Seq(Level), sample_time : Nat, byte_start_time : Nat]
  BY DEF DecoderOnTime
<1>5. CASE uart.state = "INIT"
  <2>1. held > MaxGap => uart' = [uart EXCEPT !.state = "IDLE"]
    BY <1>1, <1>3, <1>5, FrameDecodes DEF FrameShows
  <2>2. uart' = [uart EXCEPT !.state = "IDLE"] \/ uart' = uart
    BY <1>5, FrameDecodes
  <2> QED
    BY <1>4, <1>5, <2>1, <2>2
<1>6. CASE uart.state = "IDLE" /\ sig'.val = 0
  <2>1. uart' = StartBit(uart, now)
    BY <1>6, FrameDecodes
  <2>2. uart'.state = "ACCUMULATE_BITS" /\ uart'.byte_start_time = now
    BY <2>1 DEF StartBit
  <2>3. ~(held > MaxGap)
    BY <1>1, <1>3, <1>6 DEF FrameShows
  <2>4. now <= now - held + MaxGap
    BY <1>2, <2>3, Sizes
  <2> QED
    BY <2>2, <2>4
<1>7. CASE uart.state = "IDLE" /\ sig'.val # 0
  <2>1. uart' = uart
    BY <1>7, FrameDecodes
  <2> QED
    BY <1>7, <2>1
<1>8. CASE uart.state \in {"ACCUMULATE_BITS", "STOP_BIT"}
  <2>1. uart.byte_start_time <= now - held + MaxGap
    BY <1>8 DEF IdleSeen
  <2>2. CASE ~SampleDue(uart, now)
    <3>1. uart' = uart
      BY <1>8, <2>2, FrameDecodes
    <3> QED
      BY <1>8, <2>1, <3>1
  <2>3. CASE SampleDue(uart, now) /\ uart.state = "ACCUMULATE_BITS"
    <3>1. uart' = DataBit(uart, sig'.val)
      BY <2>3, FrameDecodes
    <3>2. uart'.state # "INIT" /\ uart'.byte_start_time = uart.byte_start_time
      BY <1>4, <2>3, <3>1 DEF DataBit
    <3> QED
      BY <2>1, <3>2
  <2>4. CASE SampleDue(uart, now) /\ uart.state = "STOP_BIT"
    <3>1. uart' = [uart EXCEPT !.state = "IDLE"]
      BY <2>4, FrameDecodes
    <3> QED
      BY <1>4, <3>1
  <2> QED
    BY <1>8, <2>2, <2>3, <2>4
<1> QED
  BY <1>4, <1>5, <1>6, <1>7, <1>8

\* Nothing but the signal, the decoder and what it has received changes.
LEMMA FrameLeavesLine ==
  ASSUME Frame, NEW byte \in Bytes
  PROVE  /\ OnWire(byte)' <=> OnWire(byte)
         /\ Begun' = Begun /\ Elapsed' = Elapsed /\ now' = now
         /\ ahead' = ahead /\ sent' = sent /\ quiet' = quiet
BY DEF Frame, lineVars, OnWire, Begun, Elapsed

LEMMA FrameWhileQuiescent ==
  ASSUME LinkOK, SignalFollows, Frame, Quiescent
  PROVE  Quiescent'
<1>1. FrameShows
  BY FrameSignal
<1>2. sig'.val = 1
  BY <1>1 DEF FrameShows, Quiescent, LinkOK
<1>3. uart' = uart
  BY <1>2, FrameDecodes DEF Quiescent
<1>4. received' = received
  BY FrameDecodes DEF Quiescent, ByteDone
<1> QED
  BY <1>2, <1>3, <1>4 DEF Quiescent, Frame, lineVars

LEMMA FrameBeforeStart ==
  ASSUME LinkOK, SignalFollows, DecoderOnTime, Frame,
         NEW byte \in Bytes, OnWire(byte), StartUnseen(byte)
  PROVE  StartUnseen(byte)' \/ Receiving(byte)'
<1>1. FrameShows
  BY FrameSignal
<1>2. /\ Begun' = Begun /\ Elapsed' = Elapsed /\ now' = now /\ sent' = sent
  BY FrameLeavesLine
<1>3. received' = received
  BY FrameDecodes DEF StartUnseen, ByteDone
<1>4. level = 0 /\ uart.state = "IDLE" /\ sig.val = 1 /\ Begun = 0
  BY DEF OnWire, StartUnseen
<1>5. CASE sig'.val = 1
  <2>1. uart' = uart
    BY <1>4, <1>5, FrameDecodes
  <2> QED
    BY <1>2, <1>3, <1>5, <2>1 DEF StartUnseen
<1>6. CASE sig'.val = 0
  <2>1. uart' = StartBit(uart, now)
    BY <1>4, <1>6, FrameDecodes
  <2>2. /\ uart'.state = "ACCUMULATE_BITS" /\ uart'.byte = <<>>
        /\ uart'.byte_start_time = now
    BY <2>1 DEF StartBit
  <2>3. ~(held > gap + MaxGap)
    <3>1. CASE sig.previous_is_valid
      BY <1>4, <3>1 DEF SignalFollows
    <3>2. CASE ~sig.previous_is_valid
      BY <3>2, Sizes DEF SignalFollows, LinkOK
    <3> QED
      BY <3>1, <3>2
  <2>4. Elapsed = held /\ held \in Nat /\ gap \in 0..MaxGap /\ now \in Nat
    <3>1. Edge(0) = 0
      BY Sizes DEF Edge
    <3> QED
      BY <1>4, <3>1, BegunType DEF LinkOK
  <2>5. now - Elapsed <= now /\ now <= now - Elapsed + 2 * MaxGap
    BY <2>3, <2>4, Sizes
  <2>6. InPhase'
    BY <1>2, <2>2, <2>5 DEF InPhase
  <2>7. \A i \in 1..Len(uart'.byte) : uart'.byte[i] = byte[i]
    BY <2>2
  <2> QED
    BY <1>2, <1>3, <2>2, <2>6, <2>7 DEF Receiving, StartUnseen
<1> QED
  BY <1>1, <1>4, <1>5, <1>6 DEF FrameShows

LEMMA FrameInByte ==
  ASSUME LinkOK, SignalFollows, DecoderOnTime, Frame,
         NEW byte \in Bytes, OnWire(byte), Receiving(byte)
  PROVE  Receiving(byte)' \/ Stopping'
<1> DEFINE k == Len(uart.byte)
<1>1. FrameShows
  BY FrameSignal
<1>2. /\ Begun' = Begun /\ Elapsed' = Elapsed /\ now' = now /\ sent' = sent
  BY FrameLeavesLine
<1>3. /\ uart.state = "ACCUMULATE_BITS" /\ InPhase /\ sent = Append(received, byte)
      /\ \A i \in 1..k : uart.byte[i] = byte[i]
  BY DEF Receiving
<1>4. k \in 0..DataBits /\ k < DataBits /\ Awaits(k) /\ uart.byte \in Seq(Level)
  BY <1>3, Awaited DEF DecoderOnTime
<1>5. CASE ~SampleDue(uart, now)
  <2>1. uart' = uart
    BY <1>3, <1>5, FrameDecodes
  <2>2. received' = received
    BY <1>5, FrameDecodes DEF ByteDone
  <2>3. InPhase'
    BY <1>2, <1>3, <2>1 DEF InPhase
  <2> QED
    BY <1>2, <1>3, <2>1, <2>2, <2>3 DEF Receiving
<1>6. CASE SampleDue(uart, now)
  <2>1. uart' = DataBit(uart, sig'.val)
    BY <1>3, <1>6, FrameDecodes
  <2>2. Begun = k + 1 /\ held > MaxGap
    BY <1>3, <1>4, <1>6, SampleInBit
  <2>3. level = byte[k + 1]
    BY <1>4, <2>2, LevelOfBit
  <2>4. sig'.val = byte[k + 1] /\ sig'.val \in Level
    BY <1>1, <2>2, <2>3 DEF FrameShows, SignalState
  <2>5. /\ uart'.byte = Append(uart.byte, byte[k + 1])
        /\ uart'.byte_start_time = uart.byte_start_time
        /\ uart'.state = IF k + 1 = DataBits THEN "STOP_BIT" ELSE "ACCUMULATE_BITS"
    BY <1>3, <2>1, <2>4 DEF DataBit, DecoderOnTime
  <2>6. InPhase'
    BY <1>2, <1>3, <2>5 DEF InPhase
  <2>7. /\ uart'.byte \in Seq(Level) /\ Len(uart'.byte) = k + 1
        /\ \A i \in 1..k + 1 : uart'.byte[i] = byte[i]
    BY <1>3, <1>4, <2>4, <2>5
  <2>8. CASE k + 1 = DataBits
    <3>1. uart'.byte = byte
      <4>1. byte \in Seq(Level) /\ Len(byte) = DataBits
        BY LevelsOf
      <4> QED
        BY <2>7, <2>8, <4>1, Sizes
    <3>2. received' = IF quiet THEN Append(received, uart'.byte) ELSE received
      <4>1. ByteDone(uart, now)
        BY <1>3, <1>4, <1>6, <2>8, Sizes DEF ByteDone
      <4> QED
        BY <4>1, FrameDecodes
    <3>3. quiet
      BY <1>3 DEF LinkOK
    <3> QED
      BY <1>2, <1>3, <2>5, <2>6, <2>8, <3>1, <3>2, <3>3 DEF Stopping
  <2>9. CASE k + 1 # DataBits
    <3>1. received' = received
      <4>1. ~ByteDone(uart, now)
        BY <1>4, <2>9, Sizes DEF ByteDone
      <4> QED
        BY <4>1, FrameDecodes
    <3> QED
      BY <1>2, <1>3, <2>5, <2>6, <2>7, <2>9, <3>1 DEF Receiving
  <2> QED
    BY <2>8, <2>9
<1> QED
  BY <1>5, <1>6

LEMMA FrameInStopBit ==
  ASSUME LinkOK, SignalFollows, DecoderOnTime, Frame,
         NEW byte \in Bytes, OnWire(byte), Stopping
  PROVE  Stopping' \/ Quiescent'
<1>1. FrameShows
  BY FrameSignal
<1>2. /\ Begun' = Begun /\ Elapsed' = Elapsed /\ now' = now /\ sent' = sent /\ ahead' = ahead
  BY FrameLeavesLine
<1>3. uart.state = "STOP_BIT" /\ InPhase /\ received = sent
  BY DEF Stopping
<1>4. Len(uart.byte) = DataBits /\ Awaits(DataBits) /\ DataBits \in 0..DataBits
  BY <1>3, Awaited, Sizes DEF DecoderOnTime
<1>5. received' = received
  BY <1>3, FrameDecodes DEF ByteDone
<1>6. CASE ~SampleDue(uart, now)
  <2>1. uart' = uart
    BY <1>3, <1>6, FrameDecodes
  <2> QED
    BY <1>2, <1>3, <1>5, <2>1 DEF Stopping, InPhase
<1>7. CASE SampleDue(uart, now)
  <2>1. uart' = [uart EXCEPT !.state = "IDLE"]
    BY <1>3, <1>7, FrameDecodes
  <2>2. Begun = DataBits + 1 /\ held > MaxGap
    BY <1>3, <1>4, <1>7, SampleInBit
  <2>3. ahead = <<>> /\ level = 1
    BY <2>2, BegunType DEF LinkOK
  <2>4. sig'.val = 1
    BY <1>1, <2>2, <2>3 DEF FrameShows
  <2>5. uart'.state = "IDLE"
    BY <2>1 DEF DecoderOnTime
  <2> QED
    BY <1>2, <1>3, <1>5, <2>3, <2>4, <2>5 DEF Quiescent
<1> QED
  BY <1>6, <1>7

LEMMA FrameKeepsStep ==
  ASSUME LinkOK, SignalFollows, DecoderOnTime, InStep, Frame
  PROVE  InStep'
<1>1. quiet' = quiet
  BY DEF Frame, lineVars
<1>2. CASE quiet /\ Quiescent
  BY <1>2, FrameWhileQuiescent DEF InStep
<1>3. CASE quiet /\ \E byte \in Bytes : Talking(byte)
  <2>1. PICK byte \in Bytes : Talking(byte)
    BY <1>3
  <2>2. OnWire(byte) /\ OnWire(byte)'
    BY <2>1, FrameLeavesLine DEF Talking
  <2>3. \/ StartUnseen(byte)' \/ Receiving(byte)'
        \/ Stopping' \/ Quiescent'
    BY <2>1, <2>2, FrameBeforeStart, FrameInByte, FrameInStopBit DEF Talking
  <2>4. Talking(byte)' \/ Quiescent'
    BY <2>2, <2>3 DEF Talking
  <2> QED
    BY <2>4 DEF InStep, Bytes
<1> QED
  BY <1>1, <1>2, <1>3 DEF InStep

-----------------------------------------------------------------------------
(* The transmitter, and time.                                              *)

LEMMA BitsFitByte ==
  /\ ByteTime = Edge(DataBits + 2) /\ ByteTime \in Nat
  /\ ByteTime >= SenderBitTime + SenderBitTime
<1>1. ByteTime = Edge(DataBits + 2)
  BY DEF ByteTime, Edge
<1>2. /\ Edge((DataBits + 1) + 1) = Edge(DataBits + 1) + SenderBitTime
      /\ Edge(DataBits + 1) = Edge(DataBits) + SenderBitTime
      /\ Edge(DataBits) \in Nat /\ Edge(DataBits + 2) \in Nat
  BY EdgeStep, Sizes
<1>3. (DataBits + 1) + 1 = DataBits + 2
  BY Sizes
<1> QED
  BY <1>1, <1>2, <1>3, Sizes

LEMMA InitHolds ==
  ASSUME Init
  PROVE  LinkInv
<1>1. PICK byte \in Bytes, from \in 1..DataBits + 2 :
        ahead = SubSeq(Levels(byte), from, DataBits + 1)
  BY DEF Init
<1>2. Levels(byte) \in Seq(Level) /\ Len(Levels(byte)) = DataBits + 1
  BY LevelsOf
<1>3. ahead \in Seq(Level) /\ Len(ahead) = DataBits + 2 - from
  BY <1>1, <1>2, Sizes
<1>4. ASSUME ahead # <<>> PROVE ahead[Len(ahead)] = 1
  <2>1. from < DataBits + 2 /\ Len(ahead) \in 1..Len(ahead)
    BY <1>3, <1>4, Sizes
  <2>2. ahead[Len(ahead)] = Levels(byte)[DataBits + 1]
    BY <1>1, <1>2, <1>3, <2>1, Sizes
  <2> QED
    BY <2>2, LevelsOf
<1>5. LinkOK
  <2>1. /\ now = 0 /\ level \in Level /\ held = 0 /\ gap = 0 /\ quiet = FALSE
        /\ sent = <<>> /\ received = <<>> /\ (ahead = <<>> => level = 1)
    BY DEF Init
  <2>2. Len(ahead) <= DataBits + 1
    BY <1>3, Sizes
  <2>3. 0 <= ByteTime /\ 0 <= SenderBitTime /\ 0 \in 0..MaxGap
    BY BitsFitByte, Sizes
  <2>4. ahead # <<>> => held <= SenderBitTime /\ ahead[Len(ahead)] = 1
    BY <1>4, <2>1, <2>3
  <2>5. ahead = <<>> => held <= ByteTime /\ level = 1
    BY <2>1, <2>3
  <2>6. sent \in Seq(Bytes) /\ received \in Seq(Bytes) /\ now \in Nat /\ held \in Nat
    BY <2>1
  <2> QED
    BY <1>3, <2>1, <2>2, <2>3, <2>4, <2>5, <2>6 DEF LinkOK
<1>6. SignalFollows
  BY Sizes DEF Init, SignalFollows, SignalState, NoSample, Level
<1>7. DecoderOnTime
  BY DEF Init, DecoderOnTime, UartInit
<1>8. IdleSeen
  BY Sizes DEF Init, IdleSeen, UartInit
<1>9. InStep
  BY DEF Init, InStep
<1> QED
  BY <1>5, <1>6, <1>7, <1>8, <1>9 DEF LinkInv

\* The next level of the byte, or the first of a new one: what the steps of the
\* transmitter have in common.
LEMMA LevelBegins ==
  ASSUME LinkOK, SignalFollows, DecoderOnTime,
         held >= SenderBitTime, held' = 0,
         UNCHANGED <<now, gap, sig, uart, quiet>>
  PROVE  SignalFollows' /\ DecoderOnTime' /\ IdleSeen'
<1>1. now \in Nat /\ gap \in 0..MaxGap /\ held \in Nat
  BY DEF LinkOK
<1>2. held # 0
  BY <1>1, Sizes
<1>3. SignalFollows'
  BY <1>1, <1>2, Sizes DEF SignalFollows
<1>4. DecoderOnTime'
  BY DEF DecoderOnTime
<1>5. IdleSeen'
  BY <1>1, Sizes DEF IdleSeen, DecoderOnTime
<1> QED
  BY <1>3, <1>4, <1>5

LEMMA NextLevelKeeps ==
  ASSUME LinkInv, NextLevel
  PROVE  LinkInv'
<1>1. /\ LinkOK /\ SignalFollows /\ DecoderOnTime /\ InStep
      /\ held = SenderBitTime /\ ahead # <<>>
      /\ level' = Head(ahead) /\ ahead' = Tail(ahead) /\ held' = 0
      /\ UNCHANGED <<now, gap, sig, uart, quiet, sent, received>>
  BY DEF LinkInv, NextLevel, LevelOver
<1>2. /\ ahead \in Seq(Level) /\ Len(ahead) \in 1..DataBits + 1
      /\ ahead[Len(ahead)] = 1 /\ now \in Nat /\ gap \in 0..MaxGap
  BY <1>1, Sizes DEF LinkOK
<1>3. /\ ahead' \in Seq(Level) /\ Len(ahead') = Len(ahead) - 1
      /\ \A i \in 1..Len(ahead') : ahead'[i] = ahead[i + 1]
      /\ level' = ahead[1] /\ level' \in Level
  BY <1>1, <1>2
<1>4. ahead' # <<>> => ahead'[Len(ahead')] = 1
  BY <1>2, <1>3
<1>5. ASSUME ahead' = <<>> PROVE level' = 1
  <2>1. Len(ahead') = 0
    BY <1>5
  <2>2. Len(ahead) = 1
    BY <1>2, <1>3, <2>1
  <2> QED
    BY <1>2, <1>3, <2>2
<1>6. LinkOK'
  BY <1>1, <1>2, <1>3, <1>4, <1>5, BitsFitByte, Sizes DEF LinkOK
<1>7. SignalFollows' /\ DecoderOnTime' /\ IdleSeen'
  BY <1>1, LevelBegins, Sizes
<1>8. Begun \in 0..DataBits /\ Begun' = Begun + 1
  BY <1>2, <1>3, Sizes DEF Begun
<1>9. Elapsed' = Elapsed
  <2>1. Elapsed = Edge(Begun) + SenderBitTime /\ Elapsed' = Edge(Begun + 1) + 0
    BY <1>1, <1>8 DEF Elapsed, Edge
  <2> QED
    BY <1>8, <2>1, EdgeStep
<1>10. InStep'
  <2>1. SUFFICES ASSUME quiet
                 PROVE  Quiescent' \/ \E byte \in Bytes : Talking(byte)'
    BY <1>1 DEF InStep, Bytes
  <2>2. ~Quiescent
    BY <1>1 DEF Quiescent
  <2>3. PICK byte \in Bytes : Talking(byte)
    BY <1>1, <2>1, <2>2 DEF InStep
  <2>4. OnWire(byte)'
    <3>1. OnWire(byte)
      BY <2>3 DEF Talking
    <3>2. level' = Levels(byte)[Begun']
      BY <1>2, <1>3, <1>8, <3>1 DEF OnWire
    <3>3. \A i \in 1..Len(ahead') : ahead'[i] = Levels(byte)[Begun' + i]
      <4> TAKE i \in 1..Len(ahead')
      <4>1. i + 1 \in 1..Len(ahead) /\ ahead'[i] = ahead[i + 1]
        BY <1>2, <1>3
      <4>2. Begun' + i = Begun + (i + 1)
        BY <1>8
      <4> QED
        BY <3>1, <4>1, <4>2 DEF OnWire
    <3>4. Begun' # 0
      BY <1>8
    <3> QED
      BY <3>2, <3>3, <3>4 DEF OnWire, Levels
  <2>5. ~StartUnseen(byte)
    <3>1. SUFFICES ASSUME StartUnseen(byte) PROVE FALSE
      OBVIOUS
    <3>2. level = 0 /\ sig.val = 1
      BY <2>3, <3>1 DEF Talking, OnWire, StartUnseen
    <3>3. sig.previous_is_valid
      BY <1>1, <2>1 DEF SignalFollows
    <3>4. held > gap + MaxGap
      BY <1>1, <1>2, FramesPerBit, Sizes
    <3> QED
      BY <1>1, <3>2, <3>3, <3>4 DEF SignalFollows
  <2>6. InPhase => InPhase'
    BY <1>1, <1>9 DEF InPhase
  <2>7. Receiving(byte)' \/ Stopping'
    BY <1>1, <2>3, <2>5, <2>6 DEF Talking, Receiving, Stopping
  <2> QED
    BY <2>4, <2>7 DEF Talking
<1> QED
  BY <1>6, <1>7, <1>10 DEF LinkInv

\* A byte begins only after the decoder is through with the one before.
LEMMA QuietBetweenBytes ==
  ASSUME LinkInv, quiet, IdleLine
  PROVE  Quiescent
<1>1. LinkOK /\ DecoderOnTime /\ InStep /\ ahead = <<>> /\ held >= SenderBitTime
  BY DEF LinkInv, IdleLine
<1>2. held \in Nat
  BY <1>1 DEF LinkOK
<1>3. ASSUME InPhase, uart.state \in {"ACCUMULATE_BITS", "STOP_BIT"} PROVE FALSE
  <2>1. Len(uart.byte) \in 0..DataBits /\ Awaits(Len(uart.byte))
    BY <1>1, <1>3, Awaited
  <2>2. held < SenderBitTime
    BY <1>1, <1>3, <2>1, ByteNotOver
  <2> QED
    BY <1>1, <1>2, <2>2, Sizes
<1>4. Begun # 0
  BY <1>1, BegunType, Sizes
<1> QED
  BY <1>1, <1>3, <1>4 DEF InStep, Talking, StartUnseen, Receiving, Stopping

LEMMA BeginByteKeeps ==
  ASSUME LinkInv, NEW byte \in Bytes, BeginByte(byte)
  PROVE  LinkInv'
<1>1. /\ LinkOK /\ SignalFollows /\ DecoderOnTime
      /\ ahead = <<>> /\ held >= SenderBitTime
      /\ level' = 0 /\ ahead' = Levels(byte) /\ held' = 0
      /\ sent' = IF quiet THEN Append(sent, byte) ELSE sent
      /\ UNCHANGED <<now, gap, sig, uart, quiet, received>>
  BY DEF LinkInv, BeginByte, IdleLine
<1>2. /\ Levels(byte) \in Seq(Level) /\ Len(Levels(byte)) = DataBits + 1
      /\ Levels(byte)[DataBits + 1] = 1
  BY LevelsOf
<1>3. sent' \in Seq(Bytes) /\ (~quiet => sent' = <<>>)
  BY <1>1 DEF LinkOK
<1>4. Levels(byte) # <<>> /\ 0 \in Level /\ 0 <= SenderBitTime
  BY <1>2, Sizes DEF Level
<1>5. LinkOK'
  BY <1>1, <1>2, <1>3, <1>4, Sizes DEF LinkOK
<1>6. SignalFollows' /\ DecoderOnTime' /\ IdleSeen'
  BY <1>1, LevelBegins
<1>7. Begun' = 0
  BY <1>1, <1>2, Sizes DEF Begun
<1>8. InStep'
  <2>1. SUFFICES ASSUME quiet PROVE Talking(byte)'
    BY <1>1 DEF InStep, Bytes
  <2>2. Quiescent
    BY <2>1, QuietBetweenBytes DEF BeginByte
  <2>3. StartUnseen(byte)'
    BY <1>1, <1>7, <2>1, <2>2 DEF Quiescent, StartUnseen
  <2>4. \A i \in 1..Len(ahead') : ahead'[i] = Levels(byte)[Begun' + i]
    BY <1>1, <1>2, <1>7, Sizes
  <2>5. OnWire(byte)'
    BY <1>1, <1>7, <2>4 DEF OnWire, Levels
  <2> QED
    BY <2>3, <2>5 DEF Talking
<1> QED
  BY <1>5, <1>6, <1>8 DEF LinkInv

LEMMA TickKeeps ==
  ASSUME LinkInv, Tick
  PROVE  LinkInv'
<1>1. /\ LinkOK /\ SignalFollows /\ DecoderOnTime /\ IdleSeen /\ InStep
      /\ ~(held = SenderBitTime /\ ahead # <<>>) /\ gap < MaxGap
      /\ sig.previous_is_valid
      /\ now' = now + 1 /\ gap' = gap + 1
      /\ held' = IF held < ByteTime THEN held + 1 ELSE held
      /\ quiet' = (quiet \/ (ahead = <<>> /\ held' = ByteTime))
      /\ UNCHANGED <<level, ahead, sig, uart, sent, received>>
  BY DEF LinkInv, Tick, LevelOver
<1>2. /\ now \in Nat /\ gap \in 0..MaxGap /\ held \in Nat /\ Len(ahead) \in Nat
      /\ ahead # <<>> => held < SenderBitTime
  BY <1>1, Sizes DEF LinkOK
<1>3. /\ held' \in Nat /\ held' <= held + 1 /\ held <= held'
      /\ ahead # <<>> => held' = held + 1
      /\ held < ByteTime => held' = held + 1
  BY <1>1, <1>2, BitsFitByte, Sizes
<1>4. LinkOK'
  <2>1. now' \in Nat /\ gap' \in 0..MaxGap
    BY <1>1, <1>2, Sizes
  <2>2. ahead # <<>> => held' <= SenderBitTime
    BY <1>2, <1>3, Sizes
  <2>3. ahead = <<>> => held' <= ByteTime
    BY <1>1, <1>2, BitsFitByte DEF LinkOK
  <2>4. quiet' \in BOOLEAN /\ (~quiet' => ~quiet)
    BY <1>1 DEF LinkOK
  <2> QED
    BY <1>1, <1>3, <2>1, <2>2, <2>3, <2>4 DEF LinkOK
<1>5. SignalFollows'
  BY <1>1, <1>2, <1>3, Sizes DEF SignalFollows, SignalState
<1>6. DecoderOnTime'
  BY <1>1, <1>2 DEF DecoderOnTime
<1>7. IdleSeen'
  <2>1. now - held <= now' - held'
    BY <1>1, <1>2, <1>3
  <2>2. held' > gap' + MaxGap => held > gap + MaxGap
    BY <1>1, <1>2, <1>3, Sizes
  <2>3. uart.byte_start_time \in Nat
    BY <1>1 DEF DecoderOnTime
  <2> QED
    BY <1>1, <1>2, <1>3, <2>1, <2>2, <2>3, Sizes DEF IdleSeen
<1>8. ASSUME quiet PROVE InStep'
  <2>1. CASE Quiescent
    <3>1. Quiescent'
      BY <1>1, <2>1 DEF Quiescent
    <3> QED
      BY <3>1 DEF InStep
  <2>2. CASE \E byte \in Bytes : Talking(byte)
    <3>1. PICK byte \in Bytes : Talking(byte)
      BY <2>2
    <3>2. OnWire(byte)' /\ Begun' = Begun
      BY <1>1, <3>1 DEF Talking, OnWire, Begun
    <3>3. StartUnseen(byte) => StartUnseen(byte)'
      BY <1>1, <3>2 DEF StartUnseen
    <3>4. ASSUME InPhase, uart.state \in {"ACCUMULATE_BITS", "STOP_BIT"}
          PROVE  InPhase'
      <4>1. Len(uart.byte) \in 0..DataBits /\ Awaits(Len(uart.byte))
        BY <1>1, <3>4, Awaited
      <4>2. ahead = <<>> => held < SenderBitTime
        BY <1>1, <3>4, <4>1, ByteNotOver
      <4>3. held' = held + 1
        BY <1>2, <1>3, <4>2, BitsFitByte, Sizes
      <4>4. Elapsed' = Elapsed + 1 /\ Elapsed \in Nat
        <5>1. /\ Elapsed = Edge(Begun) + held /\ Elapsed \in Nat /\ Edge(Begun) \in Nat
          BY <1>1, BegunType
        <5>2. Elapsed' = Edge(Begun) + held'
          BY <3>2 DEF Elapsed, Edge
        <5> QED
          BY <1>2, <4>3, <5>1, <5>2
      <4>5. uart.byte_start_time \in Nat
        BY <1>1 DEF DecoderOnTime
      <4> QED
        BY <1>1, <1>2, <3>4, <4>4, <4>5, Sizes DEF InPhase
    <3>5. Receiving(byte) => Receiving(byte)'
      BY <1>1, <3>4 DEF Receiving
    <3>6. Stopping => Stopping'
      BY <1>1, <3>4 DEF Stopping
    <3>7. Talking(byte)'
      BY <3>1, <3>2, <3>3, <3>5, <3>6 DEF Talking
    <3> QED
      BY <3>7 DEF InStep, Bytes
  <2> QED
    BY <1>1, <1>8, <2>1, <2>2 DEF InStep
<1>9. ASSUME ~quiet, quiet' PROVE InStep'
  <2>1. ahead = <<>> /\ held' = ByteTime
    BY <1>1, <1>9
  <2>2. held >= ByteTime - 1 /\ ByteTime \in Nat
    BY <1>1, <1>2, <1>3, <2>1, BitsFitByte
  <2>3. held > gap + MaxGap
    BY <1>1, <1>2, <2>2, BitsFitByte, FramesPerBit, Sizes
  <2>4. level = 1 /\ sig.val = 1 /\ uart.state # "INIT"
    BY <1>1, <2>1, <2>3 DEF SignalFollows, IdleSeen, LinkOK
  <2>5. ASSUME uart.state \in {"ACCUMULATE_BITS", "STOP_BIT"} PROVE FALSE
    <3> DEFINE k == Len(uart.byte)
    <3>1. k \in 0..DataBits /\ Awaits(k)
      BY <1>1, <2>5, Awaited
    <3>2. uart.byte_start_time <= now - held + MaxGap
      BY <1>1, <2>1, <2>5 DEF IdleSeen
    <3>3. Due(k) + 3 * MaxGap < Edge(k + 2) /\ Edge(k + 2) <= Edge(DataBits + 2)
      BY <3>1, Timing, EdgeMonotone, Sizes
    <3>4. Due(k) \in Nat /\ Edge(k + 2) \in Nat /\ Edge(DataBits + 2) \in Nat
      <4>1. k \in Nat /\ k + 2 \in Nat /\ DataBits + 2 \in Nat
        BY <3>1, Sizes
      <4> HIDE DEF k
      <4> QED
        BY <4>1, DueStep, EdgeStep
    <3>5. ByteTime = Edge(DataBits + 2)
      BY BitsFitByte
    <3>6. now - gap <= uart.byte_start_time + Due(k) /\ uart.byte_start_time \in Nat
      BY <3>1 DEF Awaits
    <3> HIDE DEF k
    <3> QED
      BY <1>2, <2>2, <3>2, <3>3, <3>4, <3>5, <3>6, Sizes
  <2>6. uart.state = "IDLE"
    BY <1>1, <2>4, <2>5 DEF DecoderOnTime
  <2>7. sent = <<>> /\ received = <<>>
    BY <1>1, <1>9 DEF LinkOK
  <2>8. Quiescent'
    BY <1>1, <2>1, <2>4, <2>6, <2>7 DEF Quiescent
  <2> QED
    BY <2>8 DEF InStep
<1>10. InStep'
  BY <1>8, <1>9 DEF InStep
<1> QED
  BY <1>4, <1>5, <1>6, <1>7, <1>10 DEF LinkInv

LEMMA FrameKeeps ==
  ASSUME LinkInv, Frame
  PROVE  LinkInv'
BY FrameKeepsLine, FrameKeepsSignal, FrameKeepsDecoder, FrameKeepsIdle, FrameKeepsStep
   DEF LinkInv

LEMMA StutterKeeps ==
  ASSUME LinkInv, UNCHANGED vars
  PROVE  LinkInv'
<1>1. UNCHANGED <<now, level, ahead, held, gap, sig, uart, quiet, sent, received>>
  BY DEF vars
<1>2. /\ LinkOK' /\ SignalFollows' /\ DecoderOnTime' /\ IdleSeen'
  BY <1>1 DEF LinkInv, LinkOK, SignalFollows, DecoderOnTime, IdleSeen
<1>3. InStep'
  BY <1>1 DEF LinkInv, InStep, Quiescent, Talking, OnWire, StartUnseen, Receiving,
              Stopping, InPhase, Elapsed, Begun, Edge, Bytes
<1> QED
  BY <1>2, <1>3 DEF LinkInv

\* The decoder and the transmitter stay in step, whatever the timing that
\* TimingAssumption admits.
THEOREM DecoderKeepsStep == Spec => []LinkInv
<1>1. Init => LinkInv
  BY InitHolds
<1>2. LinkInv /\ [Next]_vars => LinkInv'
  BY NextLevelKeeps, BeginByteKeeps, FrameKeeps, TickKeeps, StutterKeeps
     DEF Next, EndOfCapture
<1> QED
  BY <1>1, <1>2, PTL DEF Spec

LEMMA InStepReports ==
  ASSUME LinkInv
  PROVE  ReportsWhatIsSent
<1>1. sent \in Seq(Bytes) /\ received \in Seq(Bytes)
  BY DEF LinkInv, LinkOK
<1>2. sent = received \/ \E byte \in Bytes : sent = Append(received, byte)
  BY DEF LinkInv, LinkOK, InStep, Quiescent, Talking, StartUnseen, Receiving, Stopping
<1>3. CASE sent = received
  BY <1>1, <1>3 DEF ReportsWhatIsSent
<1>4. CASE \E byte \in Bytes : sent = Append(received, byte)
  BY <1>1, <1>4 DEF ReportsWhatIsSent
<1> QED
  BY <1>2, <1>3, <1>4

\* Once the line has idled for a byte's time, uart_accumulate reports the bytes
\* that are sent, bit by bit, each once and in order, and no other.
THEOREM BytesGetThrough == Spec => []ReportsWhatIsSent
<1>1. LinkInv => ReportsWhatIsSent
  BY InStepReports
<1> QED
  BY <1>1, DecoderKeepsStep, PTL

\* uart_accumulate is through with a byte before the next one begins.
THEOREM BytesGetThroughInTime == Spec => ReportsInTime
<1>1. LinkInv /\ [Next]_vars =>
        [\A byte \in Bytes : quiet /\ BeginByte(byte) => received = sent]_vars
  <2>1. ASSUME LinkInv, NEW byte \in Bytes, quiet, BeginByte(byte)
        PROVE  received = sent
    BY <2>1, QuietBetweenBytes DEF BeginByte, Quiescent
  <2> QED
    BY <2>1
<1> QED
  BY <1>1, DecoderKeepsStep, PTL DEF Spec, ReportsInTime
=============================================================================
