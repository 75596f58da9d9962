----------------------------- MODULE I2cParser -----------------------------
(***************************************************************************)
(* The I2C decoder (i2c_parser.c).  It sees the deglitched clock and data  *)
(* lines frame by frame, collects the bytes of a bus transaction and hands *)
(* them to the parser that created it (parse_packet) at the STOP or the    *)
(* repeated START that ends the transaction.                               *)
(*                                                                         *)
(* A byte is the function of its bits, the most significant one at 0, so   *)
(* that  accumulated_byte |= sda << (7 - accumulated_bits)  sets the bit   *)
(* accumulated_bits.  The lines of this specification are arbitrary: what  *)
(* a well-behaved bus does to the decoder is the subject of I2cBus.        *)
(***************************************************************************)
EXTENDS Integers, Sequences

CONSTANTS
  AddrBits,  \* bits of an I2C address: 7 in the code
  MaxPacket  \* NUMBER_PACKET_BYTES: 32 in the code

ASSUME AddrBitsAssumption  == AddrBits \in Nat \ {0}
ASSUME MaxPacketAssumption == MaxPacket \in Nat \ {0}

Level     == {0, 1}
ByteBits  == AddrBits + 1
Byte      == [0..AddrBits -> Level]
ZeroByte  == [i \in 0..AddrBits |-> 0]
States    == {"IDLE", "COLLECT_ADDRESS", "RW_BIT", "ADDRESS_ACK",
              "COLLECT_DATA", "DATA_ACK", "WAIT_FOR_STOP_OR_REP_START"}

VARIABLES
  scl, sda, \* the deglitched lines in the current frame
  i2c       \* i2c_data_t, with what parse_packet was given in this frame

lines == <<scl, sda>>

\* No packet was flushed in this frame.
NoPacket == <<>>

\* i2c_parser_create allocates everything zeroed, in STATE_IDLE.
Created ==
  [state |-> "IDLE", accumulated_bits |-> 0, accumulated_byte |-> ZeroByte,
   packet |-> [i \in 0..(MaxPacket - 1) |-> ZeroByte], packet_count |-> 0,
   start |-> 0, flushed |-> NoPacket, exited |-> FALSE]

\* A mutant: the accumulated byte is not cleared.
EmptyBitsOnly(d) == [d EXCEPT !.accumulated_bits = 0]

EmptyAccumulator(d) ==
  [d EXCEPT !.accumulated_bits = 0, !.accumulated_byte = ZeroByte]

\* The bytes of the packet buffer that packet_count covers, as a sequence.
Collected(d) == [i \in 1..d.packet_count |-> d.packet[i - 1]]

PacketFlush(d) ==
  IF d.packet_count = 0
  THEN d
  ELSE [d EXCEPT !.flushed = [start |-> d.start, bytes |-> Collected(d)],
                 !.packet_count = 0]

\* A mutant: a repeated START drops the packet.
StartConditionDrops(d, now) ==
  [EmptyAccumulator(d) EXCEPT !.state = "COLLECT_ADDRESS", !.start = now,
                              !.packet_count = 0]

StartCondition(d, now) ==
  [EmptyAccumulator(PacketFlush(d)) EXCEPT !.state = "COLLECT_ADDRESS",
                                           !.start = now]

StopCondition(d) ==
  [PacketFlush(d) EXCEPT !.packet_count = 0, !.state = "IDLE"]

OrBit(byte, i, bit) == [byte EXCEPT ![i] = IF bit = 1 THEN 1 ELSE @]

CollectBit(d, bit) ==
  [d EXCEPT !.accumulated_byte = OrBit(@, d.accumulated_bits, bit),
            !.accumulated_bits = @ + 1]

AddressBit(d, bit) ==
  LET c == CollectBit(d, bit)
  IN  IF c.accumulated_bits = AddrBits THEN [c EXCEPT !.state = "RW_BIT"] ELSE c

RwBit(d, bit) ==
  [d EXCEPT !.accumulated_byte = OrBit(@, AddrBits, bit), !.state = "ADDRESS_ACK"]

\* A NAK is logged only: the state IDLE it sets is overwritten below it.
AddressAck(d) ==
  [EmptyAccumulator(d) EXCEPT !.packet = [@ EXCEPT ![0] = d.accumulated_byte],
                              !.packet_count = 1,
                              !.state = "COLLECT_DATA"]

\* A mutant: the buffer is taken for full one byte early.
DataBitFullEarly(d, bit) ==
  LET c == CollectBit(d, bit)
  IN  IF c.accumulated_bits # ByteBits
      THEN c
      ELSE IF c.packet_count = MaxPacket - 1
      THEN [c EXCEPT !.exited = TRUE]
      ELSE [c EXCEPT !.packet = [@ EXCEPT ![c.packet_count] = c.accumulated_byte],
                     !.packet_count = @ + 1,
                     !.state = "DATA_ACK"]

\* The eighth bit stores the byte, or ends the program when the buffer is full.
DataBit(d, bit) ==
  LET c == CollectBit(d, bit)
  IN  IF c.accumulated_bits # ByteBits
      THEN c
      ELSE IF c.packet_count = MaxPacket
      THEN [c EXCEPT !.exited = TRUE]
      ELSE [c EXCEPT !.packet = [@ EXCEPT ![c.packet_count] = c.accumulated_byte],
                     !.packet_count = @ + 1,
                     !.state = "DATA_ACK"]

\* A mutant: the accumulator is not emptied for the next byte.
DataAckDirty(d, bit) ==
  IF bit = 1 THEN d ELSE [d EXCEPT !.state = "COLLECT_DATA"]

\* Only an ACK moves on; after a NAK the decoder keeps looking at the clock.
DataAck(d, bit) ==
  IF bit = 1 THEN d ELSE [EmptyAccumulator(d) EXCEPT !.state = "COLLECT_DATA"]

StopOrRepStart(d, bit) ==
  IF bit = 1
  THEN [EmptyAccumulator(d) EXCEPT !.state = "COLLECT_ADDRESS"]
  ELSE [d EXCEPT !.state = "IDLE"]

ClockRise(d, bit) ==
  CASE d.state = "IDLE" -> d
    [] d.state = "COLLECT_ADDRESS" -> AddressBit(d, bit)
    [] d.state = "RW_BIT" -> RwBit(d, bit)
    [] d.state = "ADDRESS_ACK" -> AddressAck(d)
    [] d.state = "COLLECT_DATA" -> DataBit(d, bit)
    [] d.state = "DATA_ACK" -> DataAck(d, bit)
    [] d.state = "WAIT_FOR_STOP_OR_REP_START" -> StopOrRepStart(d, bit)

\* i2c_parser_event: START and STOP first, then the state machine.
Event(d, event, clk, dta, now) ==
  IF clk = 1 /\ event = "DTA_FALL" THEN StartCondition(d, now)
  ELSE IF clk = 1 /\ event = "DTA_RISE" THEN StopCondition(d)
  ELSE IF event = "CLK_RISE" THEN ClockRise(d, dta)
  ELSE d

\* process_frame: the clock's edge is handled before the data line's, with the
\* levels both lines have at the end of the frame.
ProcessFrame(clk, dta, now) ==
  LET d0 == [i2c EXCEPT !.flushed = NoPacket]
      d1 == IF scl = 1 /\ clk = 0 THEN Event(d0, "CLK_FALL", clk, dta, now) ELSE d0
      d2 == IF scl = 0 /\ clk = 1 THEN Event(d1, "CLK_RISE", clk, dta, now) ELSE d1
      d3 == IF sda = 1 /\ dta = 0 THEN Event(d2, "DTA_FALL", clk, dta, now) ELSE d2
      d4 == IF sda = 0 /\ dta = 1 THEN Event(d3, "DTA_RISE", clk, dta, now) ELSE d3
  IN  /\ scl' = clk
      /\ sda' = dta
      /\ i2c' = IF d2.exited THEN d2 ELSE d4

-----------------------------------------------------------------------------
(* The decoder under arbitrary lines. *)

vars == <<scl, sda, i2c>>

\* The first sample of a capture gives the lines their level without an edge.
Init ==
  /\ scl \in Level
  /\ sda \in Level
  /\ i2c = Created

Frame == ~i2c.exited /\ \E clk, dta \in Level : ProcessFrame(clk, dta, 0)

Exited == i2c.exited /\ UNCHANGED vars

Next == Frame \/ Exited

Spec == Init /\ [][Next]_vars

Decoder ==
  [state : States, accumulated_bits : 0..ByteBits, accumulated_byte : Byte,
   packet : [0..(MaxPacket - 1) -> Byte], packet_count : Nat, start : Nat,
   flushed : {NoPacket} \cup [start : Nat, bytes : Seq(Byte)],
   exited : BOOLEAN]

TypeOK == scl \in Level /\ sda \in Level /\ i2c \in Decoder

\* Whatever the lines do, the decoder shifts by 0 to 7 places and stores inside
\* its packet buffer (i2c_parser.c:152, 204 and 218): the state tells how many
\* bits have been accumulated, although STOP leaves bits of an unfinished byte
\* behind (line 136) and a NAK skips the accumulator's reset (line 229).
AccumulatorMatchesState ==
  /\ i2c.state = "COLLECT_ADDRESS" => i2c.accumulated_bits < AddrBits
  /\ i2c.state \in {"RW_BIT", "ADDRESS_ACK"} => i2c.accumulated_bits = AddrBits
  /\ i2c.state = "COLLECT_DATA" /\ ~i2c.exited => i2c.accumulated_bits < ByteBits
  /\ i2c.state = "DATA_ACK" => i2c.accumulated_bits = ByteBits
  /\ i2c.packet_count <= MaxPacket

\* Bits never leak from one byte into the next: what is ORed into the accumulator
\* lands on a zero, because every path into a collecting state empties it.
AccumulatorClean ==
  i2c.state \in {"COLLECT_ADDRESS", "RW_BIT", "COLLECT_DATA"} =>
    \A i \in 0..AddrBits :
      i >= i2c.accumulated_bits => i2c.accumulated_byte[i] = 0

\* The buffer holds bytes only between the address and the end of a transaction,
\* so that a flush never reports an address twice or a packet without one; and
\* the program gives up only for a transaction longer than the buffer.
PacketBelongsToTransaction ==
  /\ i2c.packet_count > 0 <=> i2c.state \in {"COLLECT_DATA", "DATA_ACK"}
  /\ i2c.state # "WAIT_FOR_STOP_OR_REP_START"
  /\ i2c.exited => i2c.packet_count = MaxPacket

\* What the decoder has accumulated and collected is consistent with its state,
\* whatever the lines do: the three parts are the reason why a shift, a store or a
\* bit ORed in never goes wrong.
DecoderConsistent ==
  AccumulatorMatchesState /\ AccumulatorClean /\ PacketBelongsToTransaction
=============================================================================
