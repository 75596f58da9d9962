----------------------------- MODULE ParserUart -----------------------------
(***************************************************************************)
(* The line buffer of the console UART (line_buffer_add in parser_uart.c): *)
(* the bytes of uart_accumulate are collected until a newline, or until    *)
(* the buffer is full, and printed as a line with the time of its first    *)
(* byte.  The lines "{" and "}" start and stop a timer.                    *)
(*                                                                         *)
(* A header (hdr.c) gives the time of what follows and the difference to   *)
(* the header before it in the same log file, which LR1110's decoder may   *)
(* have printed: a line begins before it is printed, so the difference may *)
(* be negative.  Time stamps are on, and of what they print the difference *)
(* is modelled, in nanoseconds.                                            *)
(*                                                                         *)
(* A line is printed as a C string: a NUL byte of the text hides the rest. *)
(***************************************************************************)
EXTENDS Integers, Sequences, FiniteSetsExt

CONSTANTS
  LineBufferSize, \* LINE_BUFFER_SIZE: 128
  Micro,          \* nanoseconds of a microsecond, microseconds of a millisecond: 1000
  MaxTime         \* bound on the number of bytes; a byte's time is its number

ASSUME SizeAssumption ==
  LineBufferSize \in Nat \ {0, 1} /\ Micro \in Nat \ {0, 1} /\ MaxTime \in Nat

Byte == {"\r", "\n", "NUL", "{", "}", "x"}

VARIABLES
  time,              \* byte_start_time of the last byte
  line_buffer,       \* the bytes at 0 .. line_buffer_count - 1
  start_time,        \* line_buffer_start_time_nsecs
  timer_start_time,  \* timer_start_time_nsecs
  log_time,          \* time_nsecs of the log file: the last header's, 0 for none
  printed,           \* what this step prints, or nothing: <<>>
  highest,           \* history: the highest index written in this step, or -1
  text,              \* history: the bytes of the line being collected or printed
  first_header,      \* history: the time of the log's first header, 0 for none
  last_header,       \* history: that of its last one
  headers,           \* history: the number of headers behind the first
  elapsed            \* history: the sum of the differences printed

headerVars == <<log_time, first_header, last_header, headers, elapsed>>
vars == <<time, line_buffer, start_time, timer_start_time, printed, highest, text,
          headerVars>>

Init ==
  /\ time = 0
  /\ line_buffer = <<>>
  /\ start_time = 0
  /\ timer_start_time = 0
  /\ log_time = 0
  /\ printed = <<>>
  /\ highest = -1
  /\ text = <<>>
  /\ first_header = 0
  /\ last_header = 0
  /\ headers = 0
  /\ elapsed = 0

CString(bytes) ==
  LET nuls == {i \in DOMAIN bytes : bytes[i] = "NUL"}
  IN  IF nuls = {} THEN bytes ELSE SubSeq(bytes, 1, Min(nuls) - 1)

\* The buffer with the byte, a carriage return being dropped.
Collected(byte) == IF byte = "\r" THEN line_buffer ELSE Append(line_buffer, byte)

\* Mutant: the time of the last byte.
StartTimeLast(byte, now) == IF byte = "\r" THEN start_time ELSE now

StartTime(byte, now) == IF byte # "\r" /\ line_buffer = <<>> THEN now ELSE start_time

LineEnds(byte) == byte = "\n" \/ Len(Collected(byte)) = LineBufferSize

Line(byte, now) ==
  LET string == CString(Collected(byte))
  IN  [line |-> string, start |-> StartTime(byte, now),
       delta |-> IF string = <<"}", "\n">> THEN now - timer_start_time ELSE -1]

\* What print_time_nsecs makes of a time that is not negative: more than a millisecond
\* is rounded to a microsecond (a tie either way, the quotient being a double), more
\* than a microsecond is exact, and anything less is divided by 1000 and yet printed
\* as nanoseconds.
Shown(nsecs) ==
  IF nsecs > Micro * Micro
  THEN {n \in nsecs - Micro..nsecs + Micro : n % Micro = 0 /\ 2 * (n - nsecs) \in -Micro..Micro}
  ELSE IF nsecs > Micro THEN {nsecs} ELSE {nsecs \div Micro}

\* The difference a header prints: nothing has passed at the first one.
Difference(at) == IF log_time = 0 THEN 0 ELSE at - log_time

ShownDifference(at) ==
  IF Difference(at) < 0 THEN {-n : n \in Shown(-Difference(at))} ELSE Shown(Difference(at))

HeaderPrinted(at) ==
  /\ \E nsecs \in ShownDifference(at) : elapsed' = elapsed + nsecs
  /\ first_header' = IF first_header = 0 THEN at ELSE first_header
  /\ last_header' = at
  /\ headers' = IF first_header = 0 THEN 0 ELSE headers + 1

\* Mutant of Hdr: the time kept is the latest one.
HdrLatest(at) == HeaderPrinted(at) /\ log_time' = IF at > log_time THEN at ELSE log_time

\* hdr: the header is printed and its time kept.
Hdr(at) == HeaderPrinted(at) /\ log_time' = at

TextKept == IF printed = <<>> THEN text ELSE <<>>

\* line_buffer_add.  The check for room comes first and never fails; the NUL that
\* ends the string is written behind the last byte.
LineBufferAdd(byte) ==
  /\ time < MaxTime
  /\ Len(line_buffer) < LineBufferSize
  /\ time' = time + 1
  /\ start_time' = StartTime(byte, time')
  /\ text' = Append(TextKept, [byte |-> byte, at |-> time'])
  /\ IF LineEnds(byte)
     THEN /\ printed' = Line(byte, time')
          /\ highest' = Len(Collected(byte))
          /\ timer_start_time' = IF CString(Collected(byte)) = <<"{", "\n">>
                                 THEN time' ELSE timer_start_time
          /\ Hdr(start_time')
          /\ line_buffer' = <<>>
     ELSE /\ line_buffer' = Collected(byte)
          /\ printed' = <<>>
          /\ highest' = IF byte = "\r" THEN -1 ELSE Len(line_buffer)
          /\ UNCHANGED <<timer_start_time, headerVars>>

\* LR1110's decoder, which has grabbed the output, prints a header of its own.
OtherHeader ==
  /\ time < MaxTime
  /\ time' = time + 1
  /\ Hdr(time')
  /\ printed' = <<>>
  /\ highest' = -1
  /\ text' = TextKept
  /\ UNCHANGED <<line_buffer, start_time, timer_start_time>>

Next == OtherHeader \/ \E byte \in Byte : LineBufferAdd(byte)

Spec == Init /\ [][Next]_vars

-----------------------------------------------------------------------------

TypeOK ==
  /\ line_buffer \in Seq(Byte) /\ Len(line_buffer) < LineBufferSize
  /\ start_time \in 0..time /\ timer_start_time \in 0..time /\ log_time \in 0..time

\* A text without its carriage returns.
Kept(bytes) ==
  LET upto[i \in 0..Len(bytes)] ==
        IF i = 0 THEN <<>>
        ELSE IF bytes[i].byte = "\r" THEN upto[i - 1] ELSE Append(upto[i - 1], bytes[i])
  IN  upto[Len(bytes)]

\* A line is what was received since the one before it, without its carriage
\* returns and up to its first NUL, and its time is that of the first byte that
\* is not a carriage return, however the lines were cut.
LinesAreTheText ==
  printed # <<>> =>
    LET kept == Kept(text)
    IN  /\ kept # <<>>
        /\ printed.start = kept[1].at
        /\ printed.line = CString([i \in DOMAIN kept |-> kept[i].byte])
        /\ kept[Len(kept)].byte = "\n" \/ Len(kept) = LineBufferSize

\* The differences of a log add up: however the lines of a UART, which are printed at
\* their end with the time of their start, mix with the headers of the decoder that
\* has grabbed its output, the reader who adds the differences printed to the time of
\* the first header gets that of the last one (hdr.c:48-61), but for what print_time_nsecs
\* drops or rounds, less than a microsecond a header (hdr.c:96-104).  No header has
\* time 0, the mark of a log without one: it takes two frames to see an edge.
DifferencesAddUp ==
  elapsed - (last_header - first_header) \in -(headers * (Micro - 1))..headers * (Micro - 1)

\* parser_uart.c:284 says "Check that we have room in the buffer": everything
\* written lies inside line_buffer.
RoomInBuffer == highest < LineBufferSize
=============================================================================
