# parseSaleae in TLA+

parseSaleae decodes, off line, the CSV export of a Saleae logic analyser. It is one
thread. The rows of the file become a stream of frames; every frame is deglitched
and shown to every enabled parser; each parser is a state machine over the lines it
has connected, and writes what it decodes to a log file. These modules model the
loop, the state machines and the tables they share. TLC checks them on small
instances, and TLAPS proves the invariants that matter most for every size.

The program has no threads and no crashes to recover from. What is hard in it is of
another kind: long sequences of legal inputs, in an order nobody wrote a test for,
against counters, buffers and remembered states; clocks that differ a little;
captures that begin in the middle of something; callbacks that change the list that
is being walked; and state that is read one packet or one frame after it was set.

Paths below are relative to the repository. Everything is translated from the
sources that `CMakeLists.txt` compiles, except the legacy I2C decoders, which the
repository keeps and the build no longer lists.

## The parts of the program

| Part | State | Operations | Talks to |
|---|---|---|---|
| Row replay, `csv.c` | frame time, time of the next row, synthesis budget, sample time | read a row, synthesize a frame | calls every parser for each frame |
| Deglitching, `signal.c` | per line: raw, buffered and reported level, time of the last change, edge flags | `signal_deglitch` | reads what the row put in `_raw`, sets `val` and the flags for the parser |
| Registry, `parser.c` | list of parsers, `enable`, `log_file` | register, connect, post-connect, process a frame | callbacks of the parsers, `csv_sample_time_nsecs`, `log_file_create` |
| I2C, `i2c_parser.c` | state, accumulator, packet of 32 bytes, start time | an edge of SCL or SDA | created by `lis3dh`, calls its `parse_packet` at STOP and repeated START |
| LIS3DH, `lis3dh/lis3dh.c` | last register byte, shadow registers | read, write, interrupt | |
| UART receiver, `parser_uart.c`, `parser_uart_lbtrace.c` | state, byte, bits, sample time | a frame | hands bytes to the line buffer or to the ring |
| Console lines, `parser_uart.c` | line of 128 bytes, its time, the timer | a byte | `hdr` |
| Trace ring, `parser_uart_lbtrace.c` | ring of 128 bytes, head, tail, packet time | a byte | `lbtrace_packet_add_word`, `lbtrace_packet_parse` |
| Trace packets, `lbtrace.c`, `thread.c` | 32 words, table of 32 threads | parse a packet | |
| LR1110 SPI, `lr1110/parser.c` | accumulators, arrays of 1024 bytes | a frame | `parse_packet` when the chip select rises |
| LR1110 commands, `lr1110/*.c` | pending command, sleep flag, interrupt times, lengths of payload and GNSS result, Wi-Fi format and count | a packet, a rise of the interrupt line | grabs the output of other parsers |
| Legacy I2C, `parser_i2c.c`, `parser_i2c_2.c` | debounced clock, last sample, byte, address | a frame | hands bytes to the decoders below, or START, bytes and STOP to the tag's |
| Boot loader, panel, tag: `bootloader_i2c.c`, `panel_i2c.c` with `panel_spi.c`, `st25dv.c` | where in a packet, its bytes, offset of the last write | a byte, for the tag also the end of a transaction | called by the legacy I2C decoders |
| Log headers, `hdr.c`, `log_file.c` | per log file: time of the last header | a header | shared by the parsers that write to the file |

What is not modelled, and why, is the last section.

### What is hard, and what makes each part correct

* **Replay and deglitching.** The analyser writes a row only when a line moves, so
  time between rows is synthesized. No glitch may be reported, no long level lost, no
  two lines of a bus reordered, no edge seen twice; frames must be dense enough for a
  UART; the loop must end.
* **Registry.** The order of constructors is the linker's. Sample time, log files
  and redirection must come out the same for every order, although `lis3dh` appends
  a parser to the list while it is being walked.
* **I2C.** Transactions are aborted, refused and repeated at any bit. Nothing of one
  may show up in the next, no shift may be negative, no byte may be stored behind the
  packet, and each transaction is reported once, with its own time.
* **LIS3DH.** A read does not say which register it reads. Labels and shadow
  registers must agree with the chip whatever comes between.
* **UART.** Bits are sampled by a clock that is not the sender's, in frames that
  come late. Wherever the capture begins, the decoder must fall into step.
* **Trace packets.** Nothing marks the start of a packet. The search must lose none
  and invent none, across noise and wrapping counters; noise that is no header must not
  end the program.
* **LR1110.** Whether a packet is a command or a response is known only from the
  packet before, and a packet of one byte is not looked at. A host that reads its
  responses must be understood, any other must be caught up with soon. Lengths and times
  kept from one packet to another must be those of the packet that is printed, although
  all interrupts share one line.
* **Legacy I2C.** The clock is debounced by counting frames, and the decoders behind
  it are told where an address is, or where a transaction ends, never both. Glitches,
  refused addresses, aborted writes and the traffic of other devices must leave no
  trace in the next command or packet.

The hazards, line by line and with the properties that cover each, are in
`PROJECT.json`.

## The modules

```
Signal ------ CsvReplay                          rows, frames, deglitching
   |             \-- CsvReplay_proofs
   \--------- UartLink --- UartReceiver          transmitter, line, receiver
                 \-- UartLink_proofs
ParserUart                                       console lines and log headers
   \-- ParserUart_proofs
Lbtrace ----- UartLbtrace ---(implements)--- TraceFraming
                 \---- TraceCapture              device or noise, ring, thread table
                           \-- TraceCapture_proofs      of the ring as well
I2cParser --- I2cBus --------(implements)--- I2cTransactions
                 \-- I2cBus_proofs
ParserList, Lis3dh --- ParseSaleae               registry and accelerometer together
                           \-- ParseSaleae_proofs
Lr1110Spi -------------------(implements)--- SpiPackets
Lr1110Commands --- Lr1110Host                    decoder, host and radio
                       \-- Lr1110_proofs            of both LR1110 levels
ParserI2c, BootloaderI2c, PanelI2c, St25dv --- LegacyBus
                                                  \-- LegacyBus_proofs
```

**Signal** is `signal_t` and `signal_deglitch`. `Deglitch(s, now, d)` is the whole
function: the first sample, the tracking of the raw level, and the report once it has
been stable for longer than `deglitch_nsecs`.

**CsvReplay** is `csv_process_file`. `ReadRow` is a turn of the outer loop up to the
time read ahead, `Synthesize` a turn of the inner one, `GapFilled` its end. The file
is chosen row by row: growing times, arbitrary levels. Histories record since when
each wire has had its level and when the last frame was.

**I2cParser** is `i2c_parser_event` and `process_frame`, one operator per state of the
switch. A byte is the function of its bits, so that the `|=` of the code is kept: a
bit that is already set stays set. Under `Spec` the lines do anything. **I2cBus**
adds a bus: `orderly` is chosen once, and an orderly bus moves SDA under a high clock
only for START and STOP and sends nothing but the end after a refused byte. A master
may abort at every bit. **I2cTransactions** is the promise: the bits since START, cut
into bytes, reported once at STOP or repeated START.

**UartReceiver** is `uart_accumulate`, which the two UART parsers both contain.
**UartLink** puts it behind `Deglitch` and in front of a transmitter with another bit
time, seen through frames that are up to `MaxGap` apart, which is what
`FrameTimesDense` of CsvReplay promises. The capture begins anywhere.

**ParserUart** is `line_buffer_add` with `hdr`. A line is printed as a C string, the
NUL behind it is a write of its own (`highest`). `OtherHeader` is a header that the
LR1110 decoder prints to the log file it shares after the redirection. `Shown` is what
`print_time_nsecs` prints of a difference: rounded to a microsecond above a
millisecond, exact above a microsecond, and divided by 1000 below.

**Lbtrace** is the length and tag checks of `lbtrace.c` and the table of `thread.c`.
`Outcome` lists, in the order of the code, the ways a packet ends the program.
**UartLbtrace** is the ring: `AddByte` is
`buffer_add` with everything it calls, split into `Overflow`, `DropByte`, `AwaitMore`
and `TakePacket` by what `check_for_packet` finds. **TraceFraming** is the promise: the
bytes since the last packet are searched for the first header, without a ring.
**TraceCapture** puts the wire in front: noise, or a device that sends packet after
packet and was sending one when the capture began. The thread table lives as long as
the program, from packet to packet.

**Lr1110Spi** is `process_frame` of the LR1110 parser, with the early return when the
chip select rises; **SpiPackets** is its promise. One data line stands for both,
since MOSI and MISO are sampled together. Its definitions are named `Spi...` where
those of the host above have the plain name. **Lr1110Commands** is `parse_packet` and the
five groups: every command that has a case, those that call `set_pending_cmd`, the
values that live longer than a packet, and `Printed`, the last byte that each of the
three loops reads whose bound comes from another packet (`lr1110/system.c:245`,
`lr1110/wifi.c:108`, `lr1110/gnss.c:276`). **Lr1110Host** adds the host and the radio:
`host` is chosen once, its commands, the interrupts its radio uses and whether it may
skip a response. `Due` is what a response has behind its status byte. It may be
nothing: `ReadBareResponse` is such a response, which `lr1110/parser.c:324` does not
look at. An interrupt is set between packets, and raises the line unless another one
has it up already, or it is set in the very frame that ends a packet, where the early
return of `lr1110/parser.c:104` leaves its edge unseen. **MCLr1110** puts the two
levels into one run, not into one machine: the decoder hands the lower level's packets
to the upper one, and they share nothing else.

**ParserList** is `parser.c`: `Connect` and `PostConnect` are one turn each of the
loops over the list, with the connect callback of `lis3dh` (`i2c_parser_create`,
`parser_register`) and the post-connect callback of `lr1110` inside. **Lis3dh** is
`parse_packet`, `lis3dh_rd`, `lis3dh_wr` and the dump at an interrupt. **ParseSaleae**
composes them: the parsers are connected, then each frame is shown to them in the
order of the list. `seen` is what the signals say, `news` what the wires say: a parser
in front of `lis3dh` would see the former one frame late.

**ParserI2c** is `process_frame` and `event` of `parser_i2c.c`, and of
`parser_i2c_2.c` where it differs (it calls its listener at START and STOP). A byte is
a number, a bit is added with `|=`; `Shl` is the power of two that a shift multiplies
by. **BootloaderI2c**, **PanelI2c** (with
`panel_spi_cmd` and `panel_spi_data`) and **St25dv** are the listeners, one operator
per state. **LegacyBus** puts them at the end of a bus: a step is a frame, a master
performs the transactions it is given, complete or not, to devices that answer or do
not, and the clock has glitches. `BitIn` is the level of the data line in a pulse of
the clock, and `Hears` applies the calls of a frame, two at most, to a listener: the
code calls the listeners from within `event`. A clock level is held for longer than `Debounce`
frames, and has at most `Debounce` frames of glitches once it has settled: the code
keeps its count across glitches, so that more of them, however short each is, would
add up to an edge, although its comment says "Filter it for 250 nSecs".

Operators marked as mutants are deliberate errors, never used by a specification:
with one of them in place of the operator it follows or precedes, the property that
is meant to notice must fail.

## The runs

| Run | Question | Bounds |
|---|---|---|
| `csv_replay` | glitches, order, long levels, frame times, edges, termination | 2 lines, times to 12, sample time 2, deglitch 3, limit 6 |
| `i2c_bus` | decoder under any lines; reporting on an orderly bus | addresses of 2 bits, 3 bytes, 16 bits in a transaction |
| `trace_capture` | trace UART from bytes to the thread table; ring against `TraceFraming` | words of 2 bytes, packets of up to 4 words, ring of 8, counters modulo 16, 3 threads, 2 entries, 9 bytes of noise |
| `uart_link` | receiver in step with its transmitter | 2 data bits, bit times 13 and 14, frames up to 2 apart, time to 150 |
| `parser_uart` | lines are the text, header differences add up | buffer of 3, 8 bytes or other headers, a microsecond of 2 units, a millisecond of 4 |
| `lr1110` | SPI bits against `SpiPackets`; commands and responses, lengths and times kept between them | bytes of 2 bits, array of 3, 8 bits; three hosts, which may skip responses or not, 3 parameter values, Wi-Fi results of 2 bytes, 2 interrupts, set at 3 times |
| `parse_saleae` | registry and accelerometer | 3 parsers in any order, any header, 2 registers, 2 values |
| `legacy_bus` | bytes, commands, packets and transactions behind the old decoders | addresses of 2 bits, debounce of 2 frames, 3 transactions out of 11 or 10 |
| `parser_uart_room` | finding, see below | as `parser_uart`, 7 bytes |
| `lr1110_payload` | finding, see below | two commands |
| `lr1110_txdone` | finding, see below | two commands, two interrupts |
| `lis3dh_probe` | finding, see below | as `parse_saleae`, with address-only writes |

The bounds reach what the properties are about:

* `csv_replay`: with a limit of 6 the synthesis stops inside a long gap, and a time of
  12 leaves room for a glitch, a long level and such a gap in one file. The sizes keep
  the order of the real ones: sample time (10 ns) below the deglitch time (50 ns), both below the
  limit.
* `i2c_bus`: 16 bits are four groups of a byte and its acknowledge, one more than the
  packet holds, so that the buffer overflows; a transaction may be aborted at each bit.
* `trace_capture`: a header of the noise may announce no data, one word, or seven,
  which do not fit the ring. The counters wrap every second turn of it. The noise is
  forgotten at each packet, and the device sends without end, so the run goes on
  through any number of packets; two entries for three threads make the table fill up.
* `uart_link`: the transmitter is slower by 1 in 13, which is more than the truncation
  of the bit time in the code; 150 time units are about three bytes behind the
  byte time of idle line that brings the decoder into step.
* `parser_uart`: differences of up to eight units, so that all three forms of
  `print_time_nsecs` occur, with both signs.
* `lr1110`: the number of packets is not bounded at all, only the interrupts are. One
  host receives, one asks for Wi-Fi and GNSS results, one minds its interrupts; between
  them they send every command the decoder treats in its own way. A parameter of 0 is
  an empty payload, no results, no satellites, and so a response of one byte; 3 times
  are enough for an interrupt before TX_DONE and one behind it. In the bits' part of
  the run the commands stand still, and the other way round.
* `legacy_bus`: a debounce of 2 frames lets glitches be separate or together. The
  transactions hold data that look like addresses, a read after a command with other
  traffic in between, boot loader packets with and without payload, refused addresses,
  writes that are aborted or have no data, and for the tag one that just fits the buffer
  and one that overruns it; three in a row put any of them between the two that belong
  together.
* `parse_saleae`: the number of frames is not bounded. Three parsers cover the one
  that registers another, the one that redirects, and one that is redirected.

**Fairness** is assumed in one run only. `FairSpec` of CsvReplay is weak fairness of
the whole next step: the program is one thread that runs until the file ends, so a
step that can be taken is taken. Without it `ReachesEnd` would say nothing. No other
specification has fairness, because the other inputs (bus masters, hosts, senders) owe
the decoder nothing; `ReportsInTime` of UartLink is an action property instead.

**Deadlock** is checked where the model goes on for ever or marks its end as a step
(CsvReplay, I2cBus, UartLink, LegacyBus). The other configurations say `CHECK_DEADLOCK FALSE`:
the program really stops (`exit(1)`), or the bound on a history ends the behaviour.

## What is proved

Each proof is about the module as TLC checks it, for every value of its constants
under the assumptions the module states (sizes are positive, the ring holds
`PacketWords` words, its size divides the counter's range, and so on).

* **CsvReplay_proofs.** `NoGlitchReported` alone is not inductive: whether the next
  report is a glitch depends on the time the deglitcher remembers. `LineInv` adds that a
  level not yet reported has been held for at most the deglitch time, and that
  `last_change` is then the time of the row that brought it; `ClockInv` adds how far
  frame time, last frame and next row can be apart. From them follow `GlitchFree`,
  `OrderKept`, `FramesDense` and `NoLongLevelLost`. `LongLevelsReported` needs one more
  part: the budget spent since a level began is no more than its age.
  `EdgesReportedOnce` needs none of it: the flags are the change of `val` in both kinds
  of frame, also in the first synthesized one, which repeats its row.
* **UartLink_proofs.** `LinkInv` ties the decoder's clock to the transmitter's. The
  start bit is seen at most two frames after it began, a sample is taken at most one
  frame after it is due, and so sample k falls into bit k, in a frame before which
  another one has shown the level of that bit to the deglitcher already. This is what
  `TimingAssumption` says of the bit times and `MaxGap`; the real values (bits of 1085
  ns, frames up to 40 ns apart) satisfy it for a transmitter between 4% too fast and 5%
  too slow. `BytesGetThrough` and `BytesGetThroughInTime` follow.
* **I2cBus_proofs.** `DecoderInv` ties each state of the machine to the number of bits,
  to the zero bits of the accumulator and to the packet count. The point of the proof is
  what the code leaves behind: STOP does not empty the accumulator, and a NAK leaves it
  full, and both are harmless only because every way into a collecting state empties it
  or starts from an empty one. On an orderly bus the bits since START are q whole groups
  of a byte and its acknowledge bit, and r bits more; `BusInv` says what state,
  accumulator and packet q and r stand for. With it every step of bus and decoder is a
  step of `I2cTransactions` or none (`BusImplementsPromise`), and the decoder gives up
  only when q is more than the packet holds (`GivesUpForLength`).
* **TraceCapture_proofs.** The ring first. `RingAtRest` speaks of the bytes at the tail,
  so the proof needs that storing a byte at the head leaves them alone. `SlotsDiffer` is
  that fact: two counters less than a ring apart name different slots, even when one of
  them has wrapped, because the ring's size divides the range of the counters.
  `PacketAlwaysFits` shows that the guard of `lbtrace.c:138`, which compares words with
  bytes and would let four times too many in, is never what keeps the buffer safe. For
  the refinement `SearchInv` adds that the bytes dropped since the last packet hold no
  header and that the ring holds the rest of the stream; then the header the ring finds
  is the first one (`RingImplementsFraming`).

  A step of a capture is a step of the ring, so all of this holds of captures
  (`CaptureSafe`). `ThreadsInv` says that entries have different addresses and that the
  program's end is explained by the last packet; `OnlyWhenFull` counts addresses with a
  bijection; `NamesStay` is an action property. For `CapturePrintsAsSent`, `CaptureInv`
  follows the search through three phases: the torn packet, in which nothing is found; a
  packet that is coming in, whose header is the first one; and its end, when it is
  printed and nothing is left. It assumes that packets announce their own length
  (`HeadersAssumption`), and that no header can be read in what is left of a torn
  packet, nor across the start of the next (`NoFalseHeaders`). The second is a real
  limit: words of data may hold the magic bytes, and the code would then take them for a
  header.
* **ParseSaleae_proofs.** While the list is walked, what the walk settles is settled for
  the parsers visited so far, and the parser that `lis3dh` appends is the last one and
  therefore still to come. In a frame the shadow registers lag behind the chip by one
  packet until that parser has had its turn. The four properties are proved for any set
  of parsers that is not empty, any order, any header and register maps of any size.
* **Lr1110_proofs.** On the level of bits, `SpiInv` says that the bits since the chip
  was selected are cut into the array and the accumulator. With it every step of the
  decoder is a step of `SpiPackets` or none: `SpiImplementsPromise` is a proved
  refinement.

  On the level of commands, how many packets in a row were misread determines what the
  decoder waits for and what the host is owed: none, and both are the same, or the last
  packet was a response of one byte and its command is still pending; one, and the
  decoder waits for nothing; two, and neither does. This table, `InStep`, is inductive,
  and three properties are read off it. For a polite host `HostInv` adds that a
  misreading is no older than the last response of one byte, which `since_bare` counts
  from. `PrintsStayWithin` needs that the lengths kept are those the response owed was
  made with: as long as the packet they come from was heard (`len_heard`,
  `size_heard`), and, for Wi-Fi, as long as the command that asked is the one pending.
  For the times, `TimesInv` says that while TX_DONE is set the line has been up since
  then or since before, so that its last rise is no later than the last TX_DONE, and is
  it if the decoder saw the rise. `DelayIsNeverShort` and `DelayCounts` follow for any
  set of interrupts, edges that are lost included.
* **ParserUart_proofs.** `Kept`, a text less its carriage returns, is a recursive
  function of the text. The library's induction theorems have an operator as a parameter
  and cannot be used, but a set can take the operator's place: `Induction` says that a
  set of numbers with 0 and every successor holds all of them, and follows from the
  least element of its complement. With it `Kept` is shown to exist and to be computed
  byte by byte (`KeptGrows`). `BufferInv` is then plain: the line buffer holds what is
  kept of the text since the last line, and `start_time` is the time of its first byte.
  `HeaderInv`, for `DifferencesAddUp`, says that no header has time 0, the mark of a log
  without one, because a buffer that is not empty has a start time; `ShownIsNear` bounds
  what `print_time_nsecs` leaves out of one difference. The buffer may have
  any size, the text any length.
* **LegacyBus_proofs.** `BusInv` relates the decoder to the bus. *Debouncing*: after n
  glitches the countdown is `Residual(n)`, since each glitch goes on where the one
  before stopped; while an edge is being debounced there are none, and the countdown is
  over before the level has been held for `Hold` frames. *Bits*: `Seen` is how many
  pulses the decoder has seen, which is one less than the bus has begun while a rising
  edge is debounced; byte, bit count, address and state are those of the bits up to
  there (`DecodedAt`), and the calls since START are the bytes that end there
  (`ToldAt`). An address is shifted to its final place at once, the `|=` then adds a
  power of two that is not there yet (`UpperBits`). The one irregular moment is the
  first decoded frame: `last_sample` is zeroed, the frame is taken for a STOP, and the
  bus is still idle (`FalseStop`).

  Every step then gives the listeners one of five things (`Kinds`): nothing, the next
  byte, a STOP that was none, the beginning of a transaction, or its end. For each
  listener an invariant says what it has made of the first m bytes: `PacketAt` and
  `EmptyAt` for the boot loader's packets with and without payload, `PanelFollows` for
  the panel, and for the tag that its buffer holds just these bytes. The panel needs more, because a command and the data read for it are two
  transactions: `AskedOf` says that the decoder is idle and remembers command and length
  until the panel is addressed again. TLC checked `BusInv` and `PanelInv` first, with
  all of the states of `legacy_bus`. `HandsOnBytes`, `BootloaderPrintsPackets`,
  `PanelPrintsCommands` and `TagPrintsTransactions` follow for bytes of any width, any
  debouncing time, any transactions and any number of them. The proofs assume that the
  addresses are even (the bit for the direction is clear), and that the lengths a flag
  byte can say fit the panel's buffer (`PanelAssumption`: both are 128). They showed one
  imprecision in the model: `WritesCommand` did not say that the flag byte has no read
  bit, which the transactions of the run obey anyway.

Only model-checked: `ReachesEnd`, which is liveness, and the four findings, which are
counterexamples. Every invariant and every action property of a run is a theorem.

## Findings

* `parser_uart.c:313`. A line of 128 bytes without a newline is printed when the buffer
  is full, and its NUL is stored at index 128. The check under "Check that we have room
  in the buffer" (line 284) tests the byte only. Behind the array lies the counter that
  is reset a moment later, so that the stray write does no harm in the present layout.
  Run `parser_uart_room`.
* `lr1110/system.c:246`. The payload of READ_BUFFER_8 is printed from index 1 to the
  length plus one. The comment "A stat1 is returned as the first byte of data, so add 1"
  (line 238) accounts for the status byte in the index, and the loop bound adds it
  again. Run `lr1110_payload`.
* `lr1110/system.c:454`. "If we have a TX_DONE interrupt, track the timestamp of the
  interrupt going active" (line 451), but the time copied is the last rise of the line
  that all interrupts share. When PREAMBLE_DETECTED has raised it and TX_DONE is set
  while it is up, TX_DONE gets the time of the preamble. Run `lr1110_txdone`. What does
  hold: the time is never later than the last TX_DONE (`DelayNeverShort`), and it is
  exact once a TX_DONE whose edge was seen has been cleared (`DelayCountsFromTxDone`).
* `lis3dh/lis3dh.c:489`. A write of the address alone, as a bus scan makes it, has no
  register byte; `packet_count` is decremented from 0. "The register number is the next
  byte" (line 485) does not hold. Run `lis3dh_probe`.

Noted while modelling, with no run of their own:

* A response of one byte, the status of an empty payload, of no Wi-Fi or GNSS results or
  of no satellites, is dropped before `get_command` (`lr1110/parser.c:324`). Its command
  stays pending and the next packet is taken for the response: one command is misread,
  and its response, if it has one. `UnderstandsPoliteHost`, `BackInStep` and
  `NeverStale` say that this is all.
* A mask that names TX_DONE in SET_DIO_IRQ_PARAMS or CLEAR_IRQ, where it is not set, makes
  `parse_irq` copy the time as well (`lr1110/system.c:453`); `DelayNeverShort` and
  `DelayCountsFromTxDone` exclude it.
* A boot loader packet without payload leaves its decoder in STATE_DATA, because the
  count is compared after it was incremented (`bootloader_i2c.c:133`): checksum and EOP
  are printed as data, and so is every byte behind them. `BootloaderPrintsPackets` says
  so.
* A time of a microsecond or less is divided by 1000 and printed with "ns"
  (`hdr.c:103`), so that the differences of a log add up to within a microsecond per
  header, as `DifferencesAddUp` says, and not to the nanosecond.
* `SET_PACKET_PARAM` overwrites the length that `GET_RX_BUFFER_STATUS` left for
  `READ_BUFFER_8` (`lr1110/radio.c:196`); `PrintsWithinResponse` excludes the payload
  printed with it.
* An interrupt edge in the very frame in which the chip select rises is not seen
  (`lr1110/parser.c:104`); `DelayNeverShort` holds all the same, `DelayCountsFromTxDone`
  needs the edge of the last TX_DONE.
* The I2C parser keeps the log file that `lis3dh` had before it was redirected
  (`i2c_parser.c:346`).
* Glitches of the legacy decoder's clock add up (`parser_i2c.c:367`), as said above.
* The decoders of panel and boot loader are not told of STOP: a command that is broken
  off leaves them in the middle, and the next bytes are taken for the rest
  (`panel_i2c.c:60`). Their properties speak of transactions that find them idle, which
  the one behind a boot loader packet without payload does not.
* `panel_irq`, which the panel's decoder looks at, is not among its signals.

## What the models leave out

* The wording, the layout and the decoding of values: which bits of a register mean
  what, Wi-Fi and GNSS results, RSSI. Only values that the code keeps from one packet
  to the next, or branches on, are kept.
* Bytes outside arrays. Where the code reads or writes there, the model says that it
  does (`highest`, `ran_away`) and stops or goes on as the build would.
* Time stamps are always on, and times are natural numbers; a CSV file with times
  before a trigger would have negative ones.
* The busy line of the LR1110 and the I2C messages about refused bytes, which only
  print.

Two hazards have no property for this reason: the index behind the table of register
names (`lis3dh/lis3dh.c:377`) and the tag used as an index (`lbtrace.c:327`) read
memory the models do not have, and no text of the repository speaks of such inputs.

## State of the plan

Done, in this order: replay and deglitching, I2C, UART and trace ring, console lines,
LR1110 commands and bits, registry and accelerometer; then the capture of the trace
UART from byte to table, the lengths and times of the LR1110, the legacy I2C decoders
on their bus; each with its run and its proofs.

Worth doing next:

1. Compositions from row to log: replay in front of the UART receiver and the ring, so
   that `MaxGap` is derived and not assumed; replay in front of I2C, where
   `NoReordering` is what makes START and STOP trustworthy.
2. The LR1110 decoder from bits to commands in one module, with chip select, interrupt
   and busy line moving in the same frame.
3. The x, y and z values of the accelerometer and the per-tag words of `lbtrace.c`.

## Not modelled

* `tag.c` and `signal_names.c` fill an array once, before the first frame, from a file
  of another project; what they decide, which signals are found, is any subset in
  ParserList.
* `parseSaleae.c`, `localtime.c`, `hex.c`: options, opening the input, the date,
  nothing. Straight-line input and output.
* `addr2line.c` calls an external GDB library; the CSV library is external too, and
  CsvReplay models it as the source uses it.
* What is left of `lis3dh.c`, `lbtrace.c` and `lr1110/*.c` is the wording of registers,
  tags and results.
* The other sources that are not in `CMakeLists.txt` (the older SPI, HPAL, CBI, FTDI,
  backlight and sync parsers, `rts.c`, `lookup.c`, `packet.c`) are no longer part of the
  program and do not fit the interfaces it has now; `packet.c` is switched off by the
  preprocessor as a whole.
