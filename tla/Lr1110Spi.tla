------------------------------ MODULE Lr1110Spi ------------------------------
(***************************************************************************)
(* The SPI level of the LR1110 decoder (process_frame in lr1110/parser.c): *)
(* bits are accumulated on rising clock edges while the chip is selected,  *)
(* and the packet is parsed when it is deselected.  miso is sampled with   *)
(* mosi and kept beside it; one of the two is modelled.                    *)
(*                                                                         *)
(* A frame is a movement of the deglitched lines, any of them at once, and *)
(* of the interrupt line.                                                  *)
(***************************************************************************)
EXTENDS Integers, Sequences

CONSTANTS
  ByteBits,     \* bits of a byte: 8
  NumberBytes,  \* NUMBER_BYTES: 1024
  MaxBits       \* bound on the bits of the history

ASSUME SizesAssumption == ByteBits \in Nat \ {0} /\ NumberBytes \in Nat \ {0, 1}

VARIABLES
  nss, clk,     \* val of the two lines
  accumulated,  \* accumulated_mosi_byte: its accumulated_bits bits
  array,        \* mosi_array: its count bytes
  overrun,      \* the buffer has overrun
  parsed,       \* the packet this step parses, or nothing: <<>>
  bits          \* history: the bits since the chip was selected

spiVars == <<accumulated, array, overrun, parsed>>
allSpiVars == <<nss, clk, spiVars, bits>>

\* The lines before the first frame have any level; the decoder's data are zero.
SpiInit ==
  /\ nss \in {0, 1} /\ clk \in {0, 1}
  /\ accumulated = <<>>
  /\ array = <<>>
  /\ overrun = FALSE
  /\ parsed = <<>>
  /\ bits = <<>>

Falls(old, new) == old = 1 /\ new = 0
Rises(old, new) == old = 0 /\ new = 1

\* What the accumulators are once a falling chip select has cleared them.
Cleared(level, part) == IF Falls(nss, level) THEN <<>> ELSE part

\* parse_packet returns at once for fewer than two bytes.
Parses(bytes) == Len(bytes) >= 2

\* The chip is deselected: whatever else the frame brings is not looked at.
EndPacket(level, clock) ==
  /\ Rises(nss, level)
  /\ parsed' = IF Parses(array) THEN array ELSE <<>>
  /\ bits' = <<>>
  /\ UNCHANGED <<accumulated, array, overrun>>

ClockBit(level, clock) == ~Rises(nss, level) /\ Rises(clk, clock) /\ level = 0

\* Mutants of AddBit: the byte is kept in the accumulator; the bits of an
\* abandoned byte are not cleared for a new packet.
AddBitKeeps(level, clock, mosi) ==
  LET byte  == Append(Cleared(level, accumulated), mosi)
      bytes == Cleared(level, array)
  IN  /\ ClockBit(level, clock)
      /\ IF Len(byte) < ByteBits
         THEN accumulated' = byte /\ array' = bytes /\ UNCHANGED overrun
         ELSE /\ accumulated' = byte
              /\ array' = Append(bytes, byte)
              /\ UNCHANGED overrun
      /\ parsed' = <<>>
      /\ bits' = Append(Cleared(level, bits), mosi)
AddBitStale(level, clock, mosi) ==
  LET byte == Append(accumulated, mosi)
  IN  /\ ClockBit(level, clock)
      /\ accumulated' = IF Len(byte) < ByteBits THEN byte ELSE <<>>
      /\ array' = IF Len(byte) < ByteBits THEN Cleared(level, array)
                  ELSE Append(Cleared(level, array), byte)
      /\ overrun' = FALSE
      /\ parsed' = <<>>
      /\ bits' = Append(Cleared(level, bits), mosi)

\* A bit is clocked in; a whole byte is stored, or found to be one too many.
AddBit(level, clock, mosi) ==
  LET byte  == Append(Cleared(level, accumulated), mosi)
      bytes == Cleared(level, array)
  IN  /\ ClockBit(level, clock)
      /\ IF Len(byte) < ByteBits
         THEN accumulated' = byte /\ array' = bytes /\ UNCHANGED overrun
         ELSE IF Len(bytes) = NumberBytes
              THEN accumulated' = byte /\ array' = bytes /\ overrun' = TRUE
              ELSE accumulated' = <<>> /\ array' = Append(bytes, byte) /\ UNCHANGED overrun
      /\ parsed' = <<>>
      /\ bits' = Append(Cleared(level, bits), mosi)

\* No bit: a new packet clears the accumulators, anything else leaves them.
NoBit(level, clock) ==
  /\ ~Rises(nss, level) /\ ~ClockBit(level, clock)
  /\ accumulated' = Cleared(level, accumulated)
  /\ array' = Cleared(level, array)
  /\ parsed' = <<>>
  /\ bits' = Cleared(level, bits)
  /\ UNCHANGED overrun

ProcessFrame(level, clock, mosi) ==
  /\ ~overrun
  /\ Len(bits) < MaxBits
  /\ EndPacket(level, clock) \/ AddBit(level, clock, mosi) \/ NoBit(level, clock)
  /\ nss' = level
  /\ clk' = clock

SpiNext == \E level, clock, mosi \in {0, 1} : ProcessFrame(level, clock, mosi)

SpiSpec == SpiInit /\ [][SpiNext]_allSpiVars

-----------------------------------------------------------------------------

SpiTypeOK ==
  /\ nss \in {0, 1} /\ clk \in {0, 1}
  /\ overrun \in BOOLEAN
  /\ Len(accumulated) <= ByteBits
  /\ Len(array) <= NumberBytes

\* Between frames a byte is never whole and never stored twice, and while the chip
\* is selected the accumulator and the array hold all that was clocked, cut into
\* bytes; the program gives up only on one byte more than the array holds.
NothingLost ==
  /\ nss = 0 => Len(array) * ByteBits + Len(accumulated) = Len(bits)
  /\ Len(accumulated) = ByteBits <=> overrun
  /\ overrun => Len(array) = NumberBytes

\* Every selection of the chip is reported as the bytes clocked in it.
Promise == INSTANCE SpiPackets WITH report <- parsed
ReportsPackets == Promise!Spec
=============================================================================
