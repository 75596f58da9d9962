------------------------------ MODULE ParserI2c ------------------------------
(***************************************************************************)
(* The first generation of the I2C decoder (parser_i2c.c, and its twin     *)
(* parser_i2c_2.c).  It reads the lines as they are and debounces the      *)
(* clock itself, by counting frames; what it decodes it hands, byte by     *)
(* byte, to the decoders of the devices on the bus.  Those of              *)
(* parser_i2c.c (BootloaderI2c, PanelI2c) are told which byte is an        *)
(* address, and nothing of START and STOP; the one of parser_i2c_2.c       *)
(* (St25dv) is told of START and STOP, and not which byte is an address.   *)
(*                                                                         *)
(* A byte is a number, its first bit the highest.                          *)
(***************************************************************************)
EXTENDS Integers, Sequences

CONSTANTS
  AddrBits,  \* bits of an I2C address: 7 in the code
  Debounce   \* DEGLITCH_TIME / SAMPLE_TIME_NSECS: 5 in the code

ASSUME LegacyBitsAssumption == AddrBits \in Nat \ {0}
ASSUME DebounceAssumption   == Debounce \in Nat \ {0}

\* 1 << n
Shl[n \in Nat] == IF n = 0 THEN 1 ELSE 2 * Shl[n - 1]

Level == {0, 1}
Byte  == 0..(Shl[AddrBits + 1] - 1)

VARIABLE
  i2c  \* the statics of the file, and what the listeners are called with in a frame

\* The calls of the listeners.
StartCall == [is |-> "start"]
StopCall  == [is |-> "stop"]
ByteCall(byte, is_start) == [is |-> "byte", byte |-> byte, is_start |-> is_start]

\* last_sample is zeroed; the first frame corrects its clock.
Created ==
  [first_frame |-> TRUE, current |-> 0, countdown |-> 0, clk |-> 0, dta |-> 0,
   state |-> "IDLE", bits |-> 0, byte |-> 0, address |-> 0, rw |-> 0,
   calls |-> <<>>]

EmptyAccumulator(d) == [d EXCEPT !.bits = 0, !.byte = 0]

\* byte |= bit << place
OrBit(byte, place, bit) ==
  IF bit = 1 /\ (byte \div Shl[place]) % 2 = 0 THEN byte + Shl[place] ELSE byte

StartCondition(d) ==
  [EmptyAccumulator(d) EXCEPT !.state = "COLLECT_ADDRESS",
                              !.calls = Append(@, StartCall)]

StopCondition(d) ==
  [d EXCEPT !.state = "IDLE", !.calls = Append(@, StopCall)]

AddressBit(d, bit) ==
  LET byte == OrBit(d.byte, AddrBits - 1 - d.bits, bit)
      c == [d EXCEPT !.byte = byte, !.bits = @ + 1]
  IN  IF c.bits = AddrBits
      THEN [c EXCEPT !.address = byte, !.state = "RW_BIT"]
      ELSE c

RwBit(d, bit) == [d EXCEPT !.rw = bit, !.state = "ADDRESS_ACK"]

\* The listeners hear of an address that is refused, too: the state IDLE that a NAK
\* sets is overwritten.
AddressAck(d, bit) ==
  [EmptyAccumulator(d) EXCEPT
     !.state = "COLLECT_DATA",
     !.calls = Append(@, ByteCall(2 * d.address + d.rw, 1))]

DataBit(d, bit) ==
  LET byte == OrBit(d.byte, AddrBits - d.bits, bit)
      c == [d EXCEPT !.byte = byte, !.bits = @ + 1]
  IN  IF c.bits = AddrBits + 1
      THEN [c EXCEPT !.state = "DATA_ACK",
                     !.calls = Append(@, ByteCall(byte, 0))]
      ELSE c

\* After a NAK the decoder goes on looking at the clock.
DataAck(d, bit) ==
  IF bit = 1 THEN d ELSE [EmptyAccumulator(d) EXCEPT !.state = "COLLECT_DATA"]

ClockRise(d, bit) ==
  CASE d.state = "IDLE" -> d
    [] d.state = "COLLECT_ADDRESS" -> AddressBit(d, bit)
    [] d.state = "RW_BIT" -> RwBit(d, bit)
    [] d.state = "ADDRESS_ACK" -> AddressAck(d, bit)
    [] d.state = "COLLECT_DATA" -> DataBit(d, bit)
    [] d.state = "DATA_ACK" -> DataAck(d, bit)

\* event: START and STOP first, then the state machine.
Event(d, event, clk, dta) ==
  IF clk = 1 /\ event = "DTA_FALL" THEN StartCondition(d)
  ELSE IF clk = 1 /\ event = "DTA_RISE" THEN StopCondition(d)
  ELSE IF event = "CLK_RISE" THEN ClockRise(d, dta)
  ELSE d

\* The edges against the sample kept last, the clock's before the data line's.
Edges(d0, clk, dta) ==
  LET d1 == IF d0.clk = 1 /\ clk = 0 THEN Event(d0, "CLK_FALL", clk, dta) ELSE d0
      d2 == IF d0.clk = 0 /\ clk = 1 THEN Event(d1, "CLK_RISE", clk, dta) ELSE d1
      d3 == IF d0.dta = 1 /\ dta = 0 THEN Event(d2, "DTA_FALL", clk, dta) ELSE d2
      d4 == IF d0.dta = 0 /\ dta = 1 THEN Event(d3, "DTA_RISE", clk, dta) ELSE d3
  IN  [d4 EXCEPT !.clk = clk, !.dta = dta]

FirstFrame(d, clk) == [d EXCEPT !.first_frame = FALSE, !.current = clk, !.clk = clk]

\* A mutant: a frame that is not decoded is remembered as the last one all the same.
CountDownRemembers(d, clk, dta) ==
  [d EXCEPT !.countdown = IF @ = 0 THEN Debounce ELSE @ - 1, !.clk = clk, !.dta = dta]

\* The clock differs from the level believed in, and has not done so in Debounce
\* frames before: the frame is not decoded, nor remembered as the last one.
Debouncing(d, clk) == clk # d.current /\ d.countdown # 1

\* The count goes on where it was when the clock last came back to its level.
CountDown(d, clk, dta) ==
  [d EXCEPT !.countdown = IF @ = 0 THEN Debounce ELSE @ - 1]

Debounced(d, clk) ==
  IF clk = d.current THEN d ELSE [d EXCEPT !.current = clk, !.countdown = 0]

\* process_frame
ProcessFrame(clk, dta) ==
  LET d == [i2c EXCEPT !.calls = <<>>]
  IN  i2c' = IF d.first_frame THEN FirstFrame(d, clk)
             ELSE IF Debouncing(d, clk) THEN CountDown(d, clk, dta)
             ELSE Edges(Debounced(d, clk), clk, dta)
=============================================================================
