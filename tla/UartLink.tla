------------------------------ MODULE UartLink ------------------------------
(***************************************************************************)
(* A UART decoder at the end of its line: a transmitter sends bytes with   *)
(* one start and one stop bit, the analyser's frames look at the line at   *)
(* least every MaxGap, the level goes through signal_deglitch without a    *)
(* deglitch time (parser_uart.c asks for none), and uart_accumulate puts   *)
(* the bytes together.  The capture may begin in the middle of a byte.     *)
(***************************************************************************)
EXTENDS UartReceiver, Signal

CONSTANTS
  SenderBitTime, \* the transmitter's bit time; the decoder's is truncated to 1 ns
  MaxGap,        \* most time between two frames, see FrameTimesDense of CsvReplay
  MaxTime        \* bound on the length of the capture

ASSUME SenderAssumption == SenderBitTime \in Nat \ {0} /\ MaxGap \in Nat \ {0}

\* How far the two bit times may be apart: sample k, which is due one and a half bit
\* times and k more after the start bit is seen, falls in bit k of the sender, and
\* the frames of it that come before show its level.  Bit DataBits is the stop bit.
ASSUME TimingAssumption ==
  \A k \in 0..DataBits :
    LET due == (BitTime * 3) \div 2 + k * BitTime
    IN  /\ (k + 1) * SenderBitTime + MaxGap <= due
        /\ due + 3 * MaxGap < (k + 2) * SenderBitTime

VARIABLES
  now,       \* the time
  level,     \* the level of the line
  ahead,     \* the levels the transmitter has still to send for its byte
  held,      \* for how long the level has been held
  gap,       \* time since the last frame
  sig,       \* the signal_t of the line
  uart,      \* the decoder
  quiet,     \* history: the line has idled for a whole byte once
  sent,      \* history: bytes sent since then
  received   \* history: bytes completed since then

vars == <<now, level, ahead, held, gap, sig, uart, quiet, sent, received>>
lineVars == <<level, ahead, held, quiet, sent>>

Bytes == [1..DataBits -> Level]

\* The levels after the start bit: the data, low bit first, and the stop bit.
Levels(byte) == Append(byte, 1)
ByteTime == (DataBits + 2) * SenderBitTime

\* The analyser is started at any moment: the transmitter idles, or has some of a
\* byte still to send.
Init ==
  /\ now = 0
  /\ level \in Level
  /\ \E byte \in Bytes, from \in 1..DataBits + 2 :
       ahead = SubSeq(Levels(byte), from, DataBits + 1)
  /\ ahead = <<>> => level = 1
  /\ held = 0
  /\ gap = 0
  /\ sig = NoSample
  /\ uart = UartInit
  /\ quiet = FALSE
  /\ sent = <<>>
  /\ received = <<>>

LevelOver == held = SenderBitTime /\ ahead # <<>>
IdleLine  == held >= SenderBitTime /\ ahead = <<>>

\* The next level of the byte being sent.
NextLevel ==
  /\ LevelOver
  /\ level' = Head(ahead)
  /\ ahead' = Tail(ahead)
  /\ held' = 0
  /\ UNCHANGED <<now, gap, sig, uart, quiet, sent, received>>

\* A new byte begins when the stop bit is over, or later.
BeginByte(byte) ==
  /\ IdleLine
  /\ level' = 0
  /\ ahead' = Levels(byte)
  /\ held' = 0
  /\ sent' = IF quiet THEN Append(sent, byte) ELSE sent
  /\ UNCHANGED <<now, gap, sig, uart, quiet, received>>

\* A frame: the level is deglitched, then decoded.
Frame ==
  /\ gap > 0 \/ ~sig.previous_is_valid
  /\ gap' = 0
  /\ sig' = Deglitch([sig EXCEPT !.raw = level], now, 0)
  /\ uart' = UartAccumulate(uart, sig'.val, now)
  /\ received' = IF quiet /\ ByteDone(uart, now)
                 THEN Append(received, uart'.byte) ELSE received
  /\ UNCHANGED <<now, lineVars>>

\* Time passes; no level is held too long and no gap between frames is too wide.
Tick ==
  /\ now < MaxTime
  /\ ~LevelOver
  /\ gap < MaxGap
  /\ sig.previous_is_valid
  /\ now' = now + 1
  /\ gap' = gap + 1
  /\ held' = IF held < ByteTime THEN held + 1 ELSE held
  /\ quiet' = (quiet \/ (ahead = <<>> /\ held' = ByteTime))
  /\ UNCHANGED <<level, ahead, sig, uart, sent, received>>

EndOfCapture == now = MaxTime /\ UNCHANGED vars

Next ==
  NextLevel \/ (\E byte \in Bytes : BeginByte(byte)) \/ Frame \/ Tick \/ EndOfCapture

Spec == Init /\ [][Next]_vars

-----------------------------------------------------------------------------

\* The decoder falls into step: once the line has idled for as long as a byte
\* takes, wherever the capture began, it reports the bytes that are sent, each
\* once, in order and bit by bit, and none that were not.
ReportsWhatIsSent ==
  /\ Len(received) <= Len(sent)
  /\ \A i \in DOMAIN received : received[i] = sent[i]

\* Each of them is reported before the next one begins.
ReportsInTime ==
  [][\A byte \in Bytes : quiet /\ BeginByte(byte) => received = sent]_vars
=============================================================================
