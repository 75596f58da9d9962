---------------------------- MODULE I2cBus_proofs ----------------------------
(***************************************************************************)
(* The decoder's buffers are safe for every length of address and buffer   *)
(* and for every movement of the lines.  On an orderly bus the decoder     *)
(* implements I2cTransactions: the bits since START are cut into groups of *)
(* a byte and its acknowledge bit; q groups and r bits are behind the      *)
(* decoder, and q and r determine its state.                               *)
(***************************************************************************)
EXTENDS I2cBus, TLAPS

USE AddrBitsAssumption, MaxPacketAssumption

\* The invariants of I2cParser, of one decoder state.
DecoderInv(d) ==
  /\ d \in Decoder
  /\ d.state = "COLLECT_ADDRESS" => d.accumulated_bits < AddrBits
  /\ d.state \in {"RW_BIT", "ADDRESS_ACK"} => d.accumulated_bits = AddrBits
  /\ d.state = "COLLECT_DATA" /\ ~d.exited => d.accumulated_bits < ByteBits
  /\ d.state = "DATA_ACK" => d.accumulated_bits = ByteBits
  /\ d.packet_count <= MaxPacket
  /\ d.state \in {"COLLECT_ADDRESS", "RW_BIT", "COLLECT_DATA"} =>
       \A i \in 0..AddrBits :
         i >= d.accumulated_bits => d.accumulated_byte[i] = 0
  /\ d.packet_count > 0 <=> d.state \in {"COLLECT_DATA", "DATA_ACK"}
  /\ d.state # "WAIT_FOR_STOP_OR_REP_START"
  /\ d.exited => d.packet_count = MaxPacket

\* The empty accumulator is a byte.
LEMMA ZeroByteIsByte == ZeroByte \in Byte
  BY DEF ZeroByte, Byte, Level

\* No bits is a number of bits.
LEMMA NoBits == 0 \in 0..ByteBits
  BY DEF ByteBits

\* A bit or-ed into a byte leaves a byte.
LEMMA OrBitIsByte ==
  ASSUME NEW byte \in Byte, NEW i \in 0..AddrBits, NEW bit \in Level
  PROVE  /\ OrBit(byte, i, bit) \in Byte
         /\ \A j \in 0..AddrBits : j # i => OrBit(byte, i, bit)[j] = byte[j]
  BY DEF OrBit, Byte, Level

\* A flush empties the packet and leaves the rest of the decoder alone.
Flushed(d, r) ==
  /\ r \in Decoder
  /\ r.packet_count = 0
  /\ r.exited = d.exited

\* Flushing a packet leaves the accumulator as it is.
LEMMA FlushStep ==
  ASSUME NEW d, DecoderInv(d)
  PROVE  Flushed(d, PacketFlush(d))
<1>1. CASE d.packet_count = 0
  BY <1>1 DEF Flushed, PacketFlush, DecoderInv
<1>2. CASE d.packet_count # 0
  <2>1. Collected(d) \in Seq(Byte)
    BY DEF Collected, DecoderInv, Decoder
  <2>2. QED
    BY <1>2, <2>1 DEF Flushed, PacketFlush, DecoderInv, Decoder
<1>3. QED
  BY <1>1, <1>2

\* START and STOP leave a decoder that is ready for the next byte.
LEMMA StartStep ==
  ASSUME NEW d, DecoderInv(d), ~d.exited, NEW now \in Nat
  PROVE  DecoderInv(StartCondition(d, now))
<1> DEFINE f == PacketFlush(d)
           e == EmptyAccumulator(f)
<1>1. Flushed(d, f)
  BY FlushStep
<1> HIDE DEF f
<1>2. /\ e \in Decoder /\ e.packet_count = 0 /\ e.accumulated_bits = 0
      /\ e.accumulated_byte = ZeroByte /\ ~e.exited
  BY <1>1, ZeroByteIsByte, NoBits DEF Flushed, EmptyAccumulator, Decoder
<1>3. StartCondition(d, now) = [e EXCEPT !.state = "COLLECT_ADDRESS", !.start = now]
  BY DEF StartCondition, f
<1> DEFINE r == StartCondition(d, now)
<1> HIDE DEF e
<1>4. /\ r \in Decoder /\ r.state = "COLLECT_ADDRESS" /\ r.packet_count = 0
      /\ r.accumulated_bits = 0 /\ r.accumulated_byte = ZeroByte /\ ~r.exited
  BY <1>2, <1>3 DEF Decoder, States
<1> HIDE DEF r
<1>5. DecoderInv(r)
  BY <1>4 DEF DecoderInv, ZeroByte
<1>6. QED
  BY <1>5 DEF r

\* A STOP, in whatever state it comes.
LEMMA StopStep ==
  ASSUME NEW d, DecoderInv(d), ~d.exited
  PROVE  DecoderInv(StopCondition(d))
<1> DEFINE f == PacketFlush(d)
<1>1. Flushed(d, f)
  BY FlushStep
<1>2. StopCondition(d) = [f EXCEPT !.packet_count = 0, !.state = "IDLE"]
  BY DEF StopCondition
<1> HIDE DEF f
<1>3. QED
  BY <1>1, <1>2, SMTT(30) DEF Flushed, DecoderInv, Decoder, States, ByteBits

\* One bit into a clean accumulator leaves it clean behind the bit.
Collect(d, c) ==
  /\ c \in Decoder
  /\ c.accumulated_bits = d.accumulated_bits + 1
  /\ c.state = d.state /\ c.packet_count = d.packet_count /\ c.exited = d.exited
  /\ \A i \in 0..AddrBits : i >= c.accumulated_bits => c.accumulated_byte[i] = 0

\* A bit is added below the limit of a byte.
LEMMA CollectStep ==
  ASSUME NEW d, DecoderInv(d), ~d.exited, NEW bit \in Level,
         d.state \in {"COLLECT_ADDRESS", "COLLECT_DATA"}
  PROVE  Collect(d, CollectBit(d, bit))
<1>1. /\ d \in Decoder /\ d.accumulated_bits \in 0..AddrBits
      /\ d.accumulated_byte \in Byte
  BY DEF DecoderInv, Decoder, ByteBits
<1> DEFINE b == OrBit(d.accumulated_byte, d.accumulated_bits, bit)
<1>2. /\ b \in Byte
      /\ \A j \in 0..AddrBits :
           j # d.accumulated_bits => b[j] = d.accumulated_byte[j]
  BY <1>1, OrBitIsByte
<1>3. CollectBit(d, bit) = [d EXCEPT !.accumulated_byte = b,
                                     !.accumulated_bits = d.accumulated_bits + 1]
  BY <1>1 DEF CollectBit, Decoder
<1> DEFINE c == CollectBit(d, bit)
<1> HIDE DEF b
<1>4. /\ c \in Decoder
      /\ c.accumulated_bits = d.accumulated_bits + 1 /\ c.accumulated_byte = b
      /\ c.state = d.state /\ c.packet_count = d.packet_count
      /\ c.exited = d.exited
  <2>1. d.accumulated_bits + 1 \in Nat
    BY <1>1
  <2>2. c = [d EXCEPT !.accumulated_byte = b,
                      !.accumulated_bits = d.accumulated_bits + 1]
    BY <1>3
  <2> HIDE DEF c
  <2>3. QED
    BY <1>1, <1>2, <2>1, <2>2 DEF Decoder
<1>5. \A i \in 0..AddrBits : i >= d.accumulated_bits + 1 => b[i] = 0
  BY <1>1, <1>2 DEF DecoderInv
<1> HIDE DEF c
<1>6. Collect(d, c)
  BY <1>4, <1>5 DEF Collect
<1>7. QED
  BY <1>6 DEF c

\* A bit of an address: the seventh ends it.
LEMMA AddressBitStep ==
  ASSUME NEW d, DecoderInv(d), ~d.exited, NEW bit \in Level,
         d.state = "COLLECT_ADDRESS"
  PROVE  DecoderInv(AddressBit(d, bit))
<1> DEFINE c == CollectBit(d, bit)
<1>1. Collect(d, c)
  BY CollectStep
<1>2. AddressBit(d, bit) = IF c.accumulated_bits = AddrBits
                           THEN [c EXCEPT !.state = "RW_BIT"] ELSE c
  BY DEF AddressBit
<1> DEFINE r == AddressBit(d, bit)
<1> HIDE DEF c
<1>3. /\ r \in Decoder
      /\ r.state = IF c.accumulated_bits = AddrBits THEN "RW_BIT" ELSE c.state
      /\ r.accumulated_bits = c.accumulated_bits
      /\ r.accumulated_byte = c.accumulated_byte
      /\ r.packet_count = c.packet_count /\ r.exited = c.exited
  BY <1>1, <1>2 DEF Collect, Decoder, States
<1>4. c.state = "COLLECT_ADDRESS" /\ c.accumulated_bits <= AddrBits /\ ~c.exited
      /\ c.packet_count = 0 /\ c.accumulated_bits \in Nat
  BY <1>1 DEF Collect, DecoderInv, Decoder
<1> HIDE DEF r
<1>5. DecoderInv(r)
  BY <1>1, <1>3, <1>4 DEF Collect, DecoderInv
<1>6. QED
  BY <1>5 DEF r

\* The read or write bit.
LEMMA RwBitStep ==
  ASSUME NEW d, DecoderInv(d), ~d.exited, NEW bit \in Level, d.state = "RW_BIT"
  PROVE  DecoderInv(RwBit(d, bit))
<1> DEFINE b == OrBit(d.accumulated_byte, AddrBits, bit)
<1>1. b \in Byte
  BY OrBitIsByte DEF DecoderInv, Decoder
<1>2. RwBit(d, bit) = [d EXCEPT !.accumulated_byte = b, !.state = "ADDRESS_ACK"]
  BY DEF RwBit, DecoderInv, Decoder
<1> HIDE DEF b
<1>3. QED
  BY <1>1, <1>2 DEF DecoderInv, Decoder, States, ByteBits

\* The accumulator emptied, as EmptyAccumulator does it.
Emptied(d, e) ==
  /\ e \in Decoder
  /\ e.accumulated_bits = 0 /\ e.accumulated_byte = ZeroByte
  /\ e.exited = d.exited /\ e.packet_count = d.packet_count /\ e.packet = d.packet

\* The accumulator is emptied for the next byte.
LEMMA EmptyStep ==
  ASSUME NEW d \in Decoder
  PROVE  Emptied(d, EmptyAccumulator(d))
  BY ZeroByteIsByte, NoBits DEF Emptied, EmptyAccumulator, Decoder

\* The acknowledgement of an address.
LEMMA AddressAckStep ==
  ASSUME NEW d, DecoderInv(d), ~d.exited, d.state = "ADDRESS_ACK"
  PROVE  DecoderInv(AddressAck(d))
<1> DEFINE e == EmptyAccumulator(d)
           p == [d.packet EXCEPT ![0] = d.accumulated_byte]
<1>1. Emptied(d, e)
  BY EmptyStep DEF DecoderInv
<1>2. p \in [0..(MaxPacket - 1) -> Byte]
  BY DEF DecoderInv, Decoder
<1>3. AddressAck(d) = [e EXCEPT !.packet = p, !.packet_count = 1,
                                !.state = "COLLECT_DATA"]
  BY <1>1 DEF AddressAck, Emptied
<1> DEFINE r == AddressAck(d)
<1> HIDE DEF e, p
<1>4. /\ r \in Decoder /\ r.state = "COLLECT_DATA" /\ r.packet_count = 1
      /\ r.accumulated_bits = 0 /\ r.accumulated_byte = ZeroByte /\ ~r.exited
  <2>1. /\ e \in Decoder /\ ~e.exited
        /\ e.accumulated_bits = 0 /\ e.accumulated_byte = ZeroByte
    BY <1>1 DEF Emptied
  <2>2. r = [e EXCEPT !.packet = p, !.packet_count = 1, !.state = "COLLECT_DATA"]
    BY <1>3
  <2> HIDE DEF r
  <2>3. QED
    BY <1>2, <2>1, <2>2 DEF Decoder, States
<1> HIDE DEF r
<1>5. DecoderInv(r)
  BY <1>4 DEF DecoderInv, ZeroByte, ByteBits
<1>6. QED
  BY <1>5 DEF r

\* A bit of a data byte: the eighth stores it, or ends the program.
LEMMA DataBitStep ==
  ASSUME NEW d, DecoderInv(d), ~d.exited, NEW bit \in Level,
         d.state = "COLLECT_DATA"
  PROVE  DecoderInv(DataBit(d, bit))
<1> DEFINE c == CollectBit(d, bit)
           p == [c.packet EXCEPT ![c.packet_count] = c.accumulated_byte]
<1>1. Collect(d, c)
  BY CollectStep
<1> HIDE DEF c
<1>2. p \in [0..(MaxPacket - 1) -> Byte]
  BY <1>1 DEF Collect, Decoder
<1>3. CASE c.accumulated_bits # ByteBits
  <2>1. DataBit(d, bit) = c
    BY <1>3 DEF DataBit, c
  <2>2. DecoderInv(c)
    <3>1. c.accumulated_bits \in Nat /\ c.accumulated_bits < ByteBits
      BY <1>1, <1>3 DEF Collect, DecoderInv, Decoder, ByteBits
    <3>2. QED
      BY <1>1, <3>1 DEF Collect, DecoderInv
  <2>3. QED
    BY <2>1, <2>2
<1>4. CASE c.accumulated_bits = ByteBits /\ c.packet_count = MaxPacket
  <2>1. DataBit(d, bit) = [c EXCEPT !.exited = TRUE]
    BY <1>4 DEF DataBit, c
  <2>2. QED
    BY <1>1, <1>4, <2>1 DEF Collect, DecoderInv, Decoder, ByteBits
<1>5. CASE c.accumulated_bits = ByteBits /\ c.packet_count # MaxPacket
  <2>1. DataBit(d, bit) = [c EXCEPT !.packet = p,
                                    !.packet_count = c.packet_count + 1,
                                    !.state = "DATA_ACK"]
    BY <1>1, <1>5 DEF DataBit, c, Collect, Decoder
  <2> DEFINE r == DataBit(d, bit)
  <2> HIDE DEF p
  <2>2. /\ r \in Decoder /\ r.state = "DATA_ACK" /\ r.exited = c.exited
        /\ r.packet_count = c.packet_count + 1
        /\ r.accumulated_bits = c.accumulated_bits
    <3>1. /\ c \in Decoder /\ c.packet_count + 1 \in Nat
      BY <1>1 DEF Collect, Decoder
    <3>2. r = [c EXCEPT !.packet = p, !.packet_count = c.packet_count + 1,
                        !.state = "DATA_ACK"]
      BY <2>1
    <3> HIDE DEF r
    <3>3. QED
      BY <1>2, <3>1, <3>2 DEF Decoder, States
  <2>3. c.packet_count \in Nat /\ c.packet_count < MaxPacket /\ ~c.exited
    BY <1>1, <1>5 DEF Collect, DecoderInv, Decoder
  <2> HIDE DEF r
  <2>4. DecoderInv(r)
    BY <1>5, <2>2, <2>3 DEF DecoderInv
  <2>5. QED
    BY <2>4 DEF r
<1>6. QED
  BY <1>3, <1>4, <1>5

\* The acknowledgement of a data byte.
LEMMA DataAckStep ==
  ASSUME NEW d, DecoderInv(d), ~d.exited, NEW bit \in Level, d.state = "DATA_ACK"
  PROVE  DecoderInv(DataAck(d, bit))
<1> DEFINE e == EmptyAccumulator(d)
           r == [e EXCEPT !.state = "COLLECT_DATA"]
<1>1. Emptied(d, e)
  BY EmptyStep DEF DecoderInv
<1>2. DataAck(d, bit) = IF bit = 1 THEN d ELSE r
  BY DEF DataAck
<1> HIDE DEF e
<1>3. /\ r \in Decoder /\ r.state = "COLLECT_DATA"
      /\ r.packet_count = d.packet_count /\ r.accumulated_bits = 0
      /\ r.accumulated_byte = ZeroByte /\ ~r.exited
  BY <1>1 DEF Emptied, Decoder, States
<1>4. d.packet_count > 0 /\ d.packet_count <= MaxPacket
  BY DEF DecoderInv
<1> HIDE DEF r
<1>5. DecoderInv(r)
  BY <1>3, <1>4 DEF DecoderInv, ZeroByte, ByteBits
<1>6. QED
  BY <1>2, <1>5

\* Every event keeps the invariant.
LEMMA EventStep ==
  ASSUME NEW d, DecoderInv(d), ~d.exited, NEW event, NEW clk \in Level,
         NEW dta \in Level, NEW now \in Nat
  PROVE  DecoderInv(Event(d, event, clk, dta, now))
<1>1. DecoderInv(ClockRise(d, dta))
  <2>1. d.state \in States \ {"WAIT_FOR_STOP_OR_REP_START"}
    BY DEF DecoderInv, Decoder
  <2>2. QED
    BY <2>1, AddressBitStep, RwBitStep, AddressAckStep, DataBitStep, DataAckStep
       DEF ClockRise, States
<1>2. QED
  BY <1>1, StartStep, StopStep DEF Event

\* An exited decoder is only ever looked at.
LEMMA FrameStep ==
  ASSUME TypeOK, DecoderInv(i2c), ~i2c.exited, NEW clk \in Level, NEW dta \in Level,
         NEW now \in Nat, ProcessFrame(clk, dta, now)
  PROVE  DecoderInv(i2c')
<1> DEFINE d0 == [i2c EXCEPT !.flushed = NoPacket]
           d1 == IF scl = 1 /\ clk = 0 THEN Event(d0, "CLK_FALL", clk, dta, now) ELSE d0
           d2 == IF scl = 0 /\ clk = 1 THEN Event(d1, "CLK_RISE", clk, dta, now) ELSE d1
           d3 == IF sda = 1 /\ dta = 0 THEN Event(d2, "DTA_FALL", clk, dta, now) ELSE d2
           d4 == IF sda = 0 /\ dta = 1 THEN Event(d3, "DTA_RISE", clk, dta, now) ELSE d3
<1>1. DecoderInv(d0) /\ ~d0.exited
  BY DEF DecoderInv, Decoder, NoPacket
<1>2. i2c' = IF d2.exited THEN d2 ELSE d4
  BY DEF ProcessFrame
<1> HIDE DEF d0
<1>3. d1 = d0
  BY DEF Event
<1> HIDE DEF d1
<1>4. DecoderInv(d2)
  BY <1>1, <1>3, EventStep
<1> HIDE DEF d2
<1>5. CASE d2.exited
  BY <1>2, <1>4, <1>5
<1>6. CASE ~d2.exited
  <2>1. CASE sda = 1 /\ dta = 0
    <3>1. DecoderInv(d3) /\ d4 = d3
      BY <1>4, <1>6, <2>1, EventStep
    <3>2. QED
      BY <1>2, <1>6, <3>1
  <2>2. CASE ~(sda = 1 /\ dta = 0)
    <3>1. DecoderInv(d4)
      BY <1>4, <1>6, <2>2, EventStep
    <3>2. QED
      BY <1>2, <1>6, <3>1
  <2>3. QED
    BY <2>1, <2>2
<1>7. QED
  BY <1>5, <1>6

\* The decoder state stays well formed, whatever the lines do.
THEOREM DecoderSafe == Spec => [](TypeOK /\ DecoderInv(i2c))
<1>1. Init => TypeOK /\ DecoderInv(i2c)
  <2>1. Created \in Decoder
    BY ZeroByteIsByte, NoBits DEF Created, Decoder, States, NoPacket
  <2>2. QED
    BY <2>1 DEF Init, TypeOK, DecoderInv, Created, ByteBits
<1>2. TypeOK /\ DecoderInv(i2c) /\ [Next]_vars => TypeOK' /\ DecoderInv(i2c)'
  <2> SUFFICES ASSUME TypeOK, DecoderInv(i2c), [Next]_vars
               PROVE  TypeOK' /\ DecoderInv(i2c')
    BY DEF DecoderInv, Decoder, States, Byte, Level
  <2>1. CASE Frame
    <3>1. PICK clk \in Level, dta \in Level : ProcessFrame(clk, dta, 0)
      BY <2>1 DEF Frame
    <3>2. DecoderInv(i2c')
      BY <2>1, <3>1, FrameStep DEF Frame
    <3>3. scl' = clk /\ sda' = dta
      BY <3>1 DEF ProcessFrame
    <3>4. QED
      BY <3>2, <3>3 DEF TypeOK, DecoderInv
  <2>2. CASE Exited \/ UNCHANGED vars
    BY <2>2 DEF Exited, vars, TypeOK
  <2>3. QED
    BY <2>1, <2>2 DEF Next
<1>3. QED
  BY <1>1, <1>2, PTL DEF Spec

\* No shift by a negative number of bits and no store outside the packet buffer
\* (i2c_parser.c:152, 204, 218), for every sequence of line levels.
THEOREM AccumulatorSafe == Spec => []AccumulatorMatchesState
<1>1. DecoderInv(i2c) => AccumulatorMatchesState
  BY DEF DecoderInv, AccumulatorMatchesState
<1>2. QED
  BY <1>1, DecoderSafe, PTL

\* No bit of one byte is left in the next one.
THEOREM NoBitLeaks == Spec => []AccumulatorClean
<1>1. DecoderInv(i2c) => AccumulatorClean
  BY DEF DecoderInv, AccumulatorClean
<1>2. QED
  BY <1>1, DecoderSafe, PTL

\* The packet buffer is filled only by the transaction in progress, and the
\* program gives up only when it is full.
THEOREM PacketOwned == Spec => []PacketBelongsToTransaction
<1>1. DecoderInv(i2c) => PacketBelongsToTransaction
  BY DEF DecoderInv, PacketBelongsToTransaction
<1>2. QED
  BY <1>1, DecoderSafe, PTL

\* The three together.
THEOREM AlwaysConsistent == Spec => []DecoderConsistent
<1>1. AccumulatorMatchesState /\ AccumulatorClean /\ PacketBelongsToTransaction
        <=> DecoderConsistent
  BY DEF DecoderConsistent
<1>2. QED
  BY <1>1, AccumulatorSafe, NoBitLeaks, PacketOwned, PTL

-----------------------------------------------------------------------------
(* Groups of a byte and its acknowledge bit.                               *)

\* A byte and its acknowledge bit.
W == ByteBits + 1

\* The group's width, and what a bit number is within it.
LEMMA Widths ==
  /\ AddrBits \in Nat /\ AddrBits >= 1
  /\ ByteBits \in Nat /\ ByteBits = AddrBits + 1
  /\ W \in Nat /\ W = AddrBits + 2
  BY DEF W, ByteBits

\* The next group begins a width later.
LEMMA NextGroup ==
  ASSUME NEW q \in Nat
  PROVE  q * W \in Nat /\ (q + 1) * W = q * W + W
  BY Widths

\* The first group begins at the first bit.
LEMMA FirstGroup == 0 * W = 0 /\ 1 * W = W
  BY Widths

\* Groups come one after the other.
LEMMA GroupsInOrder ==
  ASSUME NEW j \in Nat, NEW k \in Nat, j < k
  PROVE  j * W + W <= k * W
<1>1. k - j - 1 \in Nat
  OBVIOUS
<1>2. (k - j - 1) * W \in Nat
  BY <1>1, Widths
<1>3. (k - j - 1) * W = k * W - j * W - W
  BY Widths
<1>4. j * W \in Nat /\ k * W \in Nat
  BY NextGroup
<1>5. QED
  BY <1>2, <1>3, <1>4, Widths

\* Quotient and remainder.
LEMMA Divided ==
  ASSUME NEW n \in Nat, NEW b \in Nat \ {0}
  PROVE  n \div b \in Nat /\ n % b \in 0..b - 1 /\ n = (n \div b) * b + (n % b)
OBVIOUS

\* The quotient of a sum of whole groups and less than one.
LEMMA Quotient ==
  ASSUME NEW q \in Nat, NEW s \in 0..W - 1
  PROVE  (q * W + s) \div W = q /\ (q * W + s) % W = s
<1> DEFINE n == q * W + s
           p == n \div W
           m == n % W
<1>1. q * W \in Nat /\ n \in Nat
  BY NextGroup, Widths
<1>2. p \in Nat /\ m \in 0..W - 1 /\ n = p * W + m
  <2>1. W \in Nat \ {0}
    BY Widths
  <2> HIDE DEF n
  <2>2. QED
    BY <1>1, <2>1, Divided
<1>3. p * W \in Nat
  BY <1>2, NextGroup
<1>4. ~(p < q)
  BY <1>1, <1>2, <1>3, GroupsInOrder, Widths
<1>5. ~(q < p)
  BY <1>1, <1>2, <1>3, GroupsInOrder, Widths
<1>6. p = q
  BY <1>2, <1>4, <1>5
<1>7. m = s
  BY <1>1, <1>2, <1>6
<1>8. QED
  BY <1>6, <1>7

-----------------------------------------------------------------------------
(* What the promise makes of the bits.                                     *)

BytesIn(b) ==
  IF Len(b) <= ByteBits THEN 0 ELSE 1 + (Len(b) - ByteBits) \div W

Transaction(o, b, t) ==
  IF ~o \/ BytesIn(b) = 0
  THEN <<>>
  ELSE [start |-> t,
        bytes |-> [n \in 1..BytesIn(b) |->
                     [i \in 0..AddrBits |-> b[(n - 1) * W + i + 1]]]]

\* The promise speaks of the bits of the bus.
LEMMA PromiseOfBus ==
  /\ Promise!NumBytes = BytesIn(bits)
  /\ Promise!Completed = Transaction(open, bits, begun)
<1>1. Promise!ByteBits = ByteBits /\ Promise!ByteBits + 1 = W
  BY DEF Promise!ByteBits, ByteBits, W
<1>2. Promise!NumBytes = BytesIn(bits)
  BY <1>1 DEF Promise!NumBytes, BytesIn
<1>3. \A n : Promise!ByteAt(n) = [i \in 0..AddrBits |-> bits[(n - 1) * W + i + 1]]
  BY <1>1 DEF Promise!ByteAt
<1>4. QED
  BY <1>2, <1>3 DEF Promise!Completed, Transaction

\* The bytes that are complete after q groups and r bits.
Count(q, r) == IF q > 0 /\ r = ByteBits THEN q + 1 ELSE q

\* The promise counts a byte when its last bit is there, but an address with its
\* acknowledge bit.
LEMMA CountIsBytes ==
  ASSUME NEW b \in Seq(Level), NEW q \in Nat, NEW r \in 0..ByteBits,
         Len(b) = q * W + r
  PROVE  BytesIn(b) = Count(q, r)
<1>1. CASE q = 0
  BY <1>1, FirstGroup, Widths DEF BytesIn, Count
<1>2. CASE q > 0
  <2> DEFINE k == q - 1
  <2>1. k \in Nat /\ q = k + 1 /\ k * W \in Nat
    <3>1. k \in Nat /\ q = k + 1
      BY <1>2
    <3>2. QED
      BY <3>1, NextGroup
  <2>2. q * W = k * W + W
    BY <2>1, NextGroup
  <2> HIDE DEF k
  <2>3. Len(b) - ByteBits = k * W + (r + 1) /\ Len(b) > ByteBits
    BY <2>1, <2>2, Widths
  <2>4. CASE r < ByteBits
    <3>1. r + 1 \in 0..W - 1
      BY <2>4, Widths
    <3>2. (k * W + (r + 1)) \div W = k
      BY <2>1, <3>1, Quotient
    <3>3. (Len(b) - ByteBits) \div W = k
      BY <2>3, <3>2
    <3>4. QED
      BY <1>2, <2>1, <2>3, <2>4, <3>3, Widths DEF BytesIn, Count
  <2>5. CASE r = ByteBits
    <3>1. k * W + (r + 1) = q * W + 0
      BY <2>1, <2>2, <2>5, Widths
    <3>2. (q * W + 0) \div W = q
      BY Quotient, Widths
    <3>3. QED
      BY <1>2, <2>3, <2>5, <3>1, <3>2 DEF BytesIn, Count
  <2>6. QED
    BY <2>4, <2>5, Widths
<1>3. QED
  BY <1>1, <1>2
-----------------------------------------------------------------------------
(* Where the decoder is after q groups and r bits.                         *)

StateAt(q, r) ==
  IF q = 0
  THEN IF r < AddrBits THEN "COLLECT_ADDRESS"
       ELSE IF r = AddrBits THEN "RW_BIT" ELSE "ADDRESS_ACK"
  ELSE IF r < ByteBits THEN "COLLECT_DATA" ELSE "DATA_ACK"

\* The accumulator holds the bits of the group in progress.
Accumulated(byte, b, q, r) ==
  \A i \in 0..AddrBits : byte[i] = IF i < r THEN b[q * W + i + 1] ELSE 0

InStep(d, b, q, r) ==
  /\ d.state = StateAt(q, r)
  /\ d.packet_count = Count(q, r)
  /\ r < ByteBits => d.accumulated_bits = r
  /\ r < ByteBits \/ q = 0 => Accumulated(d.accumulated_byte, b, q, r)

\* After a refusal the decoder keeps looking at the clock, or takes the pulse in
\* which the master prepares the end for an acknowledgement.
AfterNak(d, b, q, r) ==
  /\ q >= 2 /\ r \in {0, 1}
  /\ b[q * W] = 1
  /\ d.packet_count = q
  /\ r = 0 => d.state = "DATA_ACK"

\* The packet buffer holds the bytes of the groups.
Packets(packet, n, b) ==
  \A k \in 0..(n - 1) :
    /\ k * W + ByteBits <= Len(b)
    /\ \A i \in 0..AddrBits : packet[k][i] = b[k * W + i + 1]

Placed(d, b, q, r) ==
  /\ Len(b) = q * W + r
  /\ InStep(d, b, q, r) \/ AfterNak(d, b, q, r)

Follows(d, b) ==
  /\ Packets(d.packet, d.packet_count, b)
  /\ \E q \in Nat, r \in 0..ByteBits : Placed(d, b, q, r)

\* One more bit.
Extended(b, c, bit) ==
  /\ c \in Seq(Level) /\ Len(c) = Len(b) + 1
  /\ c[Len(b) + 1] = bit
  /\ \A j \in 1..Len(b) : c[j] = b[j]

\* Appending a bit keeps the others.
LEMMA AppendExtends ==
  ASSUME NEW b \in Seq(Level), NEW bit \in Level
  PROVE  Extended(b, Append(b, bit), bit)
  BY DEF Extended

\* The bytes in the buffer are of bits that stay.
LEMMA PacketsKept ==
  ASSUME NEW b \in Seq(Level), NEW c, NEW bit, Extended(b, c, bit),
         NEW packet, NEW n \in Nat, Packets(packet, n, b)
  PROVE  Packets(packet, n, c)
<1> SUFFICES ASSUME NEW k \in 0..(n - 1)
             PROVE  /\ k * W + ByteBits <= Len(c)
                    /\ \A i \in 0..AddrBits : packet[k][i] = c[k * W + i + 1]
  BY DEF Packets
<1>1. k * W \in Nat
  <2>1. k \in Nat
    OBVIOUS
  <2>2. QED
    BY <2>1, NextGroup
<1>2. /\ k * W + ByteBits <= Len(b)
      /\ \A i \in 0..AddrBits : packet[k][i] = b[k * W + i + 1]
  BY DEF Packets
<1>3. \A i \in 0..AddrBits : k * W + i + 1 \in 1..Len(b)
  BY <1>1, <1>2, Widths
<1>4. k * W + ByteBits <= Len(c)
  BY <1>1, <1>2, Widths DEF Extended
<1>5. \A i \in 0..AddrBits : packet[k][i] = c[k * W + i + 1]
  BY <1>2, <1>3 DEF Extended
<1>6. QED
  BY <1>4, <1>5

\* The bit that is or-ed in joins those of its group.
LEMMA AccumulatedMore ==
  ASSUME NEW b \in Seq(Level), NEW c, NEW bit \in Level, Extended(b, c, bit),
         NEW byte \in Byte, NEW q \in Nat, NEW r \in 0..AddrBits,
         Len(b) = q * W + r, Accumulated(byte, b, q, r)
  PROVE  Accumulated(OrBit(byte, r, bit), c, q, r + 1)
<1> DEFINE o == OrBit(byte, r, bit)
<1>1. q * W \in Nat
  BY NextGroup
<1>2. byte[r] = 0
  BY Widths DEF Accumulated
<1>3. o[r] = bit
  BY <1>2 DEF OrBit, Byte, Level
<1>4. \A j \in 0..AddrBits : j # r => o[j] = byte[j]
  BY OrBitIsByte
<1> HIDE DEF o
<1>5. SUFFICES ASSUME NEW i \in 0..AddrBits
               PROVE  o[i] = IF i < r + 1 THEN c[q * W + i + 1] ELSE 0
  BY DEF Accumulated, o
<1>6. CASE i < r
  <2>1. q * W + i + 1 \in 1..Len(b)
    BY <1>1, <1>6, Widths
  <2>2. QED
    BY <1>4, <1>6, <2>1, Widths DEF Extended, Accumulated
<1>7. CASE i = r
  BY <1>1, <1>3, <1>7, Widths DEF Extended
<1>8. CASE i > r
  BY <1>4, <1>8, Widths DEF Accumulated
<1>9. QED
  BY <1>6, <1>7, <1>8, Widths

\* The byte that is complete joins those in the buffer.
LEMMA PacketsMore ==
  ASSUME NEW c \in Seq(Level), NEW packet \in [0..(MaxPacket - 1) -> Byte],
         NEW n \in 0..(MaxPacket - 1), Packets(packet, n, c),
         NEW byte, n * W + ByteBits <= Len(c), Accumulated(byte, c, n, ByteBits)
  PROVE  Packets([packet EXCEPT ![n] = byte], n + 1, c)
<1> DEFINE p == [packet EXCEPT ![n] = byte]
<1>1. p[n] = byte /\ \A k \in 0..(n - 1) : p[k] = packet[k]
  OBVIOUS
<1> HIDE DEF p
<1>2. \A i \in 0..AddrBits : byte[i] = c[n * W + i + 1]
  BY Widths DEF Accumulated
<1>3. \A k \in 0..n : k = n \/ k \in 0..(n - 1)
  OBVIOUS
<1>4. (n + 1) - 1 = n
  OBVIOUS
<1>5. Packets(p, n + 1, c)
  BY <1>1, <1>2, <1>3, <1>4 DEF Packets
<1>6. QED
  BY <1>5 DEF p

\* A cleared accumulator holds no bits yet.
LEMMA NothingAccumulated ==
  ASSUME NEW b, NEW q
  PROVE  Accumulated(ZeroByte, b, q, 0)
  BY DEF Accumulated, ZeroByte

-----------------------------------------------------------------------------
(* A bit is clocked in.                                                    *)

\* What a clocked bit leaves alone, and what the bits say of the rest.
BitTaken(d, e, c) ==
  /\ e.flushed = d.flushed /\ e.start = d.start
  /\ e.exited => BytesIn(c) > MaxPacket
  /\ ~e.exited => Follows(e, c)

\* A decoder that has done all of this is placed.
LEMMA Settled ==
  ASSUME NEW d, NEW e, NEW c, NEW q \in Nat, NEW r \in 0..ByteBits,
         e.flushed = d.flushed, e.start = d.start, ~e.exited,
         Packets(e.packet, e.packet_count, c), Placed(e, c, q, r)
  PROVE  BitTaken(d, e, c)
  BY DEF BitTaken, Follows

\* A bit is or-ed in and counted.
LEMMA CollectFields ==
  ASSUME NEW d \in Decoder, NEW bit
  PROVE  LET e == CollectBit(d, bit)
         IN  /\ e.accumulated_byte = OrBit(d.accumulated_byte, d.accumulated_bits, bit)
             /\ e.accumulated_bits = d.accumulated_bits + 1
             /\ e.state = d.state /\ e.packet = d.packet
             /\ e.packet_count = d.packet_count /\ e.start = d.start
             /\ e.flushed = d.flushed /\ e.exited = d.exited
  BY DEF CollectBit, Decoder

\* The accumulator is emptied, and nothing else.
LEMMA EmptyFields ==
  ASSUME NEW d \in Decoder
  PROVE  LET e == EmptyAccumulator(d)
         IN  /\ e.accumulated_byte = ZeroByte /\ e.accumulated_bits = 0
             /\ e.state = d.state /\ e.packet = d.packet
             /\ e.packet_count = d.packet_count /\ e.start = d.start
             /\ e.flushed = d.flushed /\ e.exited = d.exited
  BY DEF EmptyAccumulator, Decoder

\* What is known when a bit comes.
Before(d, b, c, bit, q, r) ==
  /\ DecoderInv(d) /\ ~d.exited
  /\ b \in Seq(Level) /\ bit \in Level /\ Extended(b, c, bit)
  /\ q \in Nat /\ r \in 0..ByteBits
  /\ Len(b) = q * W + r
  /\ Packets(d.packet, d.packet_count, b)

\* The bits of an address.
LEMMA AddressBitTaken ==
  ASSUME NEW d, NEW b, NEW c, NEW bit, NEW r, Before(d, b, c, bit, 0, r),
         InStep(d, b, 0, r), r < AddrBits
  PROVE  BitTaken(d, AddressBit(d, bit), c)
<1> DEFINE m == CollectBit(d, bit)
           e == AddressBit(d, bit)
<1>1. /\ d \in Decoder /\ r \in 0..AddrBits /\ d.accumulated_bits = r
      /\ d.state = "COLLECT_ADDRESS" /\ d.packet_count = 0
      /\ d.accumulated_byte \in Byte
      /\ Accumulated(d.accumulated_byte, b, 0, r)
  BY Widths DEF Before, InStep, StateAt, Count, DecoderInv, Decoder
<1>2. /\ m.accumulated_byte = OrBit(d.accumulated_byte, r, bit)
      /\ m.accumulated_bits = r + 1
      /\ m.state = "COLLECT_ADDRESS" /\ m.packet = d.packet
      /\ m.packet_count = 0 /\ m.start = d.start
      /\ m.flushed = d.flushed /\ m.exited = d.exited
  BY <1>1, CollectFields
<1>3. m \in Decoder
  BY <1>1, CollectStep DEF Before, Collect
<1>4. e = IF r + 1 = AddrBits THEN [m EXCEPT !.state = "RW_BIT"] ELSE m
  BY <1>2 DEF AddressBit
<1> HIDE DEF m, e
<1>5. /\ e.state = IF r + 1 = AddrBits THEN "RW_BIT" ELSE "COLLECT_ADDRESS"
      /\ e.accumulated_byte = OrBit(d.accumulated_byte, r, bit)
      /\ e.accumulated_bits = r + 1 /\ e.packet = d.packet
      /\ e.packet_count = 0 /\ e.start = d.start
      /\ e.flushed = d.flushed /\ e.exited = d.exited
  BY <1>2, <1>3, <1>4 DEF Decoder
<1>6. Accumulated(e.accumulated_byte, c, 0, r + 1)
  BY <1>1, <1>5, AccumulatedMore DEF Before
<1>7. Packets(e.packet, e.packet_count, c)
  BY <1>1, <1>5, PacketsKept DEF Before
<1>8. Placed(e, c, 0, r + 1)
  BY <1>1, <1>5, <1>6, Widths, FirstGroup
     DEF Before, Placed, InStep, StateAt, Count, Extended
<1>9. BitTaken(d, e, c)
  BY <1>1, <1>5, <1>7, <1>8, Settled, Widths DEF Before
<1>10. QED
  BY <1>9 DEF e

\* The read or write bit.
LEMMA RwBitTaken ==
  ASSUME NEW d, NEW b, NEW c, NEW bit, Before(d, b, c, bit, 0, AddrBits),
         InStep(d, b, 0, AddrBits)
  PROVE  BitTaken(d, RwBit(d, bit), c)
<1> DEFINE o == OrBit(d.accumulated_byte, AddrBits, bit)
           e == RwBit(d, bit)
<1>1. /\ d \in Decoder /\ AddrBits \in 0..AddrBits
      /\ d.packet_count = 0 /\ d.accumulated_byte \in Byte
      /\ Accumulated(d.accumulated_byte, b, 0, AddrBits)
  <2>1. d \in Decoder /\ d.accumulated_byte \in Byte
    BY DEF Before, DecoderInv, Decoder
  <2>2. d.packet_count = 0 /\ Accumulated(d.accumulated_byte, b, 0, AddrBits)
    BY Widths DEF InStep, Count
  <2>3. QED
    BY <2>1, <2>2, Widths
<1>2. e = [d EXCEPT !.accumulated_byte = o, !.state = "ADDRESS_ACK"]
  BY <1>1 DEF RwBit, Decoder
<1> HIDE DEF e
<1>3. /\ e.state = "ADDRESS_ACK" /\ e.accumulated_byte = o
      /\ e.packet = d.packet /\ e.packet_count = 0 /\ e.start = d.start
      /\ e.flushed = d.flushed /\ e.exited = d.exited
  BY <1>1, <1>2 DEF Decoder
<1>4. Accumulated(o, c, 0, ByteBits)
  <2>1. Accumulated(o, c, 0, AddrBits + 1)
    BY <1>1, AccumulatedMore DEF Before
  <2>2. QED
    BY <2>1, Widths
<1> HIDE DEF o
<1>5. Packets(e.packet, e.packet_count, c)
  BY <1>1, <1>3, PacketsKept DEF Before
<1>6. Placed(e, c, 0, ByteBits)
  BY <1>1, <1>3, <1>4, Widths, FirstGroup
     DEF Before, Placed, InStep, StateAt, Count, Extended
<1>7. BitTaken(d, e, c)
  BY <1>3, <1>5, <1>6, Settled, Widths DEF Before
<1>8. QED
  BY <1>7 DEF e

\* The acknowledgement of an address stores it.
LEMMA AddressAckTaken ==
  ASSUME NEW d, NEW b, NEW c, NEW bit, Before(d, b, c, bit, 0, ByteBits),
         InStep(d, b, 0, ByteBits)
  PROVE  BitTaken(d, AddressAck(d), c)
<1> DEFINE m == EmptyAccumulator(d)
           p == [d.packet EXCEPT ![0] = d.accumulated_byte]
           e == AddressAck(d)
<1>1. /\ d \in Decoder /\ d.packet_count = 0
      /\ d.packet \in [0..(MaxPacket - 1) -> Byte]
      /\ Accumulated(d.accumulated_byte, b, 0, ByteBits)
  <2>1. d \in Decoder /\ d.packet \in [0..(MaxPacket - 1) -> Byte]
    BY DEF Before, DecoderInv, Decoder
  <2>2. d.packet_count = 0 /\ Accumulated(d.accumulated_byte, b, 0, ByteBits)
    BY Widths DEF InStep, Count
  <2>3. QED
    BY <2>1, <2>2
<1>2. m \in Decoder
  BY <1>1, EmptyStep DEF Emptied
<1>3. /\ m.accumulated_byte = ZeroByte /\ m.accumulated_bits = 0
      /\ m.packet = d.packet /\ m.start = d.start
      /\ m.flushed = d.flushed /\ m.exited = d.exited
  BY <1>1, EmptyFields
<1>4. e = [m EXCEPT !.packet = p, !.packet_count = 1, !.state = "COLLECT_DATA"]
  BY <1>3 DEF AddressAck
<1> HIDE DEF m, e
<1>5. /\ e.state = "COLLECT_DATA" /\ e.accumulated_byte = ZeroByte
      /\ e.accumulated_bits = 0 /\ e.packet = p /\ e.packet_count = 1
      /\ e.start = d.start /\ e.flushed = d.flushed /\ e.exited = d.exited
  BY <1>2, <1>3, <1>4 DEF Decoder
<1>6. Len(c) = W /\ Len(b) = ByteBits /\ c \in Seq(Level)
  BY FirstGroup, Widths DEF Before, Extended
<1>7. Packets(p, 1, c)
  <2>1. Accumulated(d.accumulated_byte, c, 0, ByteBits)
    BY <1>1, <1>6, FirstGroup, Widths DEF Accumulated, Before, Extended
  <2>2. Packets(d.packet, 0, c)
    BY DEF Packets
  <2>3. 0 \in 0..(MaxPacket - 1) /\ 0 * W + ByteBits <= Len(c)
    BY <1>6, FirstGroup, Widths
  <2>4. Packets(p, 0 + 1, c)
    BY <1>1, <1>6, <2>1, <2>2, <2>3, PacketsMore
  <2>5. QED
    BY <2>4
<1> HIDE DEF p
<1>8. Placed(e, c, 1, 0)
  <2>1. Accumulated(ZeroByte, c, 1, 0)
    BY NothingAccumulated
  <2>2. QED
    BY <1>5, <1>6, <2>1, FirstGroup, Widths DEF Placed, InStep, StateAt, Count
<1>9. BitTaken(d, e, c)
  BY <1>5, <1>7, <1>8, Settled, Widths DEF Before
<1>10. QED
  BY <1>9 DEF e

\* A bit of a data byte.
LEMMA DataBitTaken ==
  ASSUME NEW d, NEW b, NEW c, NEW bit, NEW q, NEW r, Before(d, b, c, bit, q, r),
         InStep(d, b, q, r), q > 0, r < ByteBits
  PROVE  BitTaken(d, DataBit(d, bit), c)
<1> DEFINE m == CollectBit(d, bit)
           e == DataBit(d, bit)
           p == [d.packet EXCEPT ![q] = m.accumulated_byte]
<1>1. /\ d \in Decoder /\ r \in 0..AddrBits /\ d.accumulated_bits = r
      /\ d.state = "COLLECT_DATA" /\ d.packet_count = q
      /\ d.accumulated_byte \in Byte
      /\ d.packet \in [0..(MaxPacket - 1) -> Byte]
      /\ q \in Nat /\ q <= MaxPacket
      /\ Accumulated(d.accumulated_byte, b, q, r)
  <2>1. d \in Decoder /\ d.accumulated_byte \in Byte
    BY DEF Before, DecoderInv, Decoder
  <2>2. /\ d.accumulated_bits = r /\ d.state = "COLLECT_DATA"
        /\ d.packet_count = q /\ Accumulated(d.accumulated_byte, b, q, r)
    BY DEF Before, InStep, Count, StateAt
  <2>3. r \in 0..AddrBits /\ q \in Nat
    BY Widths DEF Before
  <2>4. d.packet_count <= MaxPacket /\ d.packet \in [0..(MaxPacket - 1) -> Byte]
    BY DEF Before, DecoderInv, Decoder
  <2>5. QED
    BY <2>1, <2>2, <2>3, <2>4
<1>2. /\ m.accumulated_byte = OrBit(d.accumulated_byte, r, bit)
      /\ m.accumulated_bits = r + 1
      /\ m.state = "COLLECT_DATA" /\ m.packet = d.packet
      /\ m.packet_count = q /\ m.start = d.start
      /\ m.flushed = d.flushed /\ m.exited = d.exited
  BY <1>1, CollectFields
<1>3. m \in Decoder
  BY <1>1, CollectStep DEF Before, Collect
<1>4. e = IF r + 1 # ByteBits THEN m
          ELSE IF q = MaxPacket THEN [m EXCEPT !.exited = TRUE]
          ELSE [m EXCEPT !.packet = p, !.packet_count = q + 1, !.state = "DATA_ACK"]
  BY <1>2 DEF DataBit
<1>5. Accumulated(m.accumulated_byte, c, q, r + 1)
  BY <1>1, <1>2, AccumulatedMore DEF Before
<1>6. Packets(d.packet, q, c)
  BY <1>1, PacketsKept DEF Before
<1>7. Len(c) = q * W + (r + 1) /\ c \in Seq(Level) /\ q * W \in Nat
  BY <1>1, NextGroup, SMTT(30) DEF Before, Extended
<1> HIDE DEF m, e
<1>8. CASE r + 1 # ByteBits
  <2>1. e = m /\ r + 1 < ByteBits /\ r + 1 \in 0..ByteBits
    BY <1>1, <1>4, <1>8, Widths
  <2>2. Placed(m, c, q, r + 1)
    <3>1. Count(q, r + 1) = q /\ StateAt(q, r + 1) = "COLLECT_DATA"
      BY <2>1 DEF Count, StateAt
    <3>2. QED
      BY <1>2, <1>5, <1>7, <3>1 DEF Placed, InStep
  <2>3. Packets(m.packet, m.packet_count, c) /\ ~m.exited
    BY <1>2, <1>6 DEF Before
  <2>4. BitTaken(d, m, c)
    BY <1>1, <1>2, <2>1, <2>2, <2>3, Settled
  <2>5. QED
    BY <2>1, <2>4 DEF e
<1>9. CASE r + 1 = ByteBits /\ q = MaxPacket
  <2>1. e = [m EXCEPT !.exited = TRUE]
    BY <1>4, <1>9
  <2>2. e.exited = TRUE /\ e.flushed = d.flushed /\ e.start = d.start
    BY <1>2, <1>3, <2>1 DEF Decoder
  <2>3. BytesIn(c) = q + 1
    <3>1. BytesIn(c) = Count(q, ByteBits)
      BY <1>1, <1>7, <1>9, CountIsBytes, Widths
    <3>2. QED
      BY <3>1 DEF Count
  <2>4. BitTaken(d, e, c)
    BY <1>1, <1>9, <2>2, <2>3 DEF BitTaken
  <2>5. QED
    BY <2>4 DEF e
<1>10. CASE r + 1 = ByteBits /\ q # MaxPacket
  <2>1. e = [m EXCEPT !.packet = p, !.packet_count = q + 1, !.state = "DATA_ACK"]
    BY <1>4, <1>10
  <2>2. /\ e.state = "DATA_ACK" /\ e.packet = p /\ e.packet_count = q + 1
        /\ e.start = d.start /\ e.flushed = d.flushed /\ e.exited = d.exited
    BY <1>2, <1>3, <2>1 DEF Decoder
  <2>3. Packets(p, q + 1, c)
    <3>1. q \in 0..(MaxPacket - 1) /\ q * W + ByteBits <= Len(c)
      <4>1. q \in 0..(MaxPacket - 1)
        BY <1>1, <1>10
      <4>2. Len(c) = q * W + ByteBits /\ Len(c) \in Nat
        BY <1>7, <1>10
      <4>3. q * W + ByteBits <= Len(c)
        BY <4>2
      <4>4. QED
        BY <4>1, <4>3
    <3>2. Accumulated(m.accumulated_byte, c, q, ByteBits)
      BY <1>5, <1>10
    <3>3. QED
      BY <1>1, <1>6, <1>7, <3>1, <3>2, PacketsMore
  <2> HIDE DEF p
  <2>4. Placed(e, c, q, ByteBits)
    <3>1. Count(q, ByteBits) = q + 1 /\ StateAt(q, ByteBits) = "DATA_ACK"
      BY Widths DEF Count, StateAt
    <3>2. Len(c) = q * W + ByteBits
      BY <1>7, <1>10
    <3>3. QED
      BY <2>2, <3>1, <3>2, Widths DEF Placed, InStep
  <2>5. BitTaken(d, e, c)
    BY <1>1, <2>2, <2>3, <2>4, Settled, Widths DEF Before
  <2>6. QED
    BY <2>5 DEF e
<1>11. QED
  BY <1>8, <1>9, <1>10

\* What the acknowledgement of a data byte changes.
LEMMA DataAckFields ==
  ASSUME NEW d \in Decoder, NEW bit \in Level
  PROVE  LET e == DataAck(d, bit)
         IN  /\ bit = 1 => e = d
             /\ bit = 0 => /\ e.state = "COLLECT_DATA" /\ e.accumulated_bits = 0
                           /\ e.accumulated_byte = ZeroByte
             /\ e.packet = d.packet /\ e.packet_count = d.packet_count
             /\ e.start = d.start /\ e.flushed = d.flushed /\ e.exited = d.exited
<1> DEFINE m == EmptyAccumulator(d)
           s == [m EXCEPT !.state = "COLLECT_DATA"]
<1>1. m \in Decoder
  BY EmptyStep DEF Emptied
<1>2. /\ m.accumulated_byte = ZeroByte /\ m.accumulated_bits = 0
      /\ m.packet = d.packet /\ m.packet_count = d.packet_count
      /\ m.start = d.start /\ m.flushed = d.flushed /\ m.exited = d.exited
  BY EmptyFields
<1>3. DataAck(d, bit) = IF bit = 1 THEN d ELSE s
  BY DEF DataAck
<1> HIDE DEF m
<1>4. /\ s.state = "COLLECT_DATA" /\ s.accumulated_bits = 0
      /\ s.accumulated_byte = ZeroByte
      /\ s.packet = d.packet /\ s.packet_count = d.packet_count
      /\ s.start = d.start /\ s.flushed = d.flushed /\ s.exited = d.exited
  BY <1>1, <1>2 DEF Decoder
<1> HIDE DEF s
<1>5. QED
  BY <1>3, <1>4 DEF Level

\* A data byte is acknowledged or refused.
LEMMA DataAckTaken ==
  ASSUME NEW d, NEW b, NEW c, NEW bit, NEW q, Before(d, b, c, bit, q, ByteBits),
         InStep(d, b, q, ByteBits), q > 0
  PROVE  BitTaken(d, DataAck(d, bit), c)
<1> DEFINE e == DataAck(d, bit)
<1>1. /\ d \in Decoder /\ bit \in Level /\ q \in Nat /\ q + 1 \in Nat
      /\ d.state = "DATA_ACK" /\ d.packet_count = q + 1
  BY Widths DEF Before, DecoderInv, InStep, Count, StateAt
<1>2. /\ bit = 1 => e = d
      /\ bit = 0 => /\ e.state = "COLLECT_DATA" /\ e.accumulated_bits = 0
                    /\ e.accumulated_byte = ZeroByte
      /\ e.packet = d.packet /\ e.packet_count = d.packet_count
      /\ e.start = d.start /\ e.flushed = d.flushed /\ e.exited = d.exited
  BY <1>1, DataAckFields
<1> HIDE DEF e
<1>3. (q + 1) * W = q * W + W /\ q * W \in Nat
  BY <1>1, NextGroup
<1>4. Len(c) = (q + 1) * W + 0 /\ c[(q + 1) * W] = bit
  <2>1. Len(b) + 1 = (q + 1) * W
    BY <1>1, <1>3, Widths DEF Before
  <2>2. QED
    BY <2>1 DEF Before, Extended
<1>5. Packets(e.packet, e.packet_count, c)
  BY <1>1, <1>2, PacketsKept DEF Before
<1>6. CASE bit = 1
  <2>1. AfterNak(e, c, q + 1, 0)
    BY <1>1, <1>2, <1>4, <1>6 DEF AfterNak
  <2>2. QED
    BY <1>1, <1>2, <1>4, <1>5, <2>1, Settled, Widths DEF Placed, Before, e
<1>7. CASE bit = 0
  <2>1. Accumulated(e.accumulated_byte, c, q + 1, 0)
    BY <1>2, <1>7, NothingAccumulated
  <2>2. Count(q + 1, 0) = q + 1 /\ StateAt(q + 1, 0) = "COLLECT_DATA"
    BY <1>1, Widths DEF Count, StateAt
  <2>3. InStep(e, c, q + 1, 0)
    BY <1>1, <1>2, <1>7, <2>1, <2>2 DEF InStep
  <2>4. QED
    BY <1>1, <1>2, <1>4, <1>5, <2>3, Settled, Widths DEF Placed, Before, e
<1>8. QED
  BY <1>1, <1>6, <1>7 DEF Level

\* The pulse in which the master prepares the end.
LEMMA NakPulseTaken ==
  ASSUME NEW d, NEW b, NEW c, NEW bit, NEW q, Before(d, b, c, bit, q, 0),
         AfterNak(d, b, q, 0)
  PROVE  BitTaken(d, DataAck(d, bit), c)
<1> DEFINE e == DataAck(d, bit)
<1>1. d \in Decoder /\ bit \in Level /\ q \in Nat /\ q >= 2 /\ d.packet_count = q
  BY DEF Before, DecoderInv, AfterNak
<1>2. /\ e.packet = d.packet /\ e.packet_count = d.packet_count
      /\ e.start = d.start /\ e.flushed = d.flushed /\ e.exited = d.exited
  BY <1>1, DataAckFields
<1> HIDE DEF e
<1>3. q * W \in 1..Len(b)
  <2>1. 1 * W + W <= q * W
    BY <1>1, GroupsInOrder
  <2>2. QED
    BY <1>1, <2>1, NextGroup, FirstGroup, Widths DEF Before
<1>4. Len(c) = q * W + 1 /\ c[q * W] = 1
  BY <1>1, <1>3 DEF Before, AfterNak, Extended
<1>5. Packets(e.packet, e.packet_count, c)
  BY <1>1, <1>2, PacketsKept DEF Before
<1>6. Placed(e, c, q, 1)
  BY <1>1, <1>2, <1>4 DEF Placed, AfterNak
<1>7. QED
  BY <1>1, <1>2, <1>5, <1>6, Settled, Widths DEF Before, e

\* After that pulse only the end of the transaction may follow.
LEMMA PulseIsLast ==
  ASSUME NEW d, NEW q \in Nat, bits \in Seq(Level), Len(bits) = q * W + 1,
         AfterNak(d, bits, q, 1)
  PROVE  Refused
<1>1. q * W \in Nat /\ q >= 2
  BY NextGroup DEF AfterNak
<1>2. q * W \in 1..Len(bits)
  <2>1. 1 * W + W <= q * W
    BY <1>1, GroupsInOrder
  <2>2. QED
    BY <1>1, <2>1, FirstGroup, Widths
<1>3. (q * W) % W = 0
  <2>1. (q * W + 0) % W = 0
    BY Quotient, Widths
  <2>2. q * W + 0 = q * W
    BY <1>1
  <2>3. QED
    BY <2>1, <2>2
<1>4. bits[q * W] = 1 /\ Len(bits) > q * W
  BY <1>1 DEF AfterNak
<1>5. QED
  BY <1>2, <1>3, <1>4 DEF Refused, W

\* Whatever bit is clocked in a transaction, the decoder follows.
LEMMA BitStep ==
  ASSUME NEW d, DecoderInv(d), ~d.exited, bits \in Seq(Level), NEW bit \in Level,
         Follows(d, bits), ~Refused
  PROVE  BitTaken(d, ClockRise(d, bit), Append(bits, bit))
<1> DEFINE c == Append(bits, bit)
<1>1. PICK q \in Nat, r \in 0..ByteBits : Placed(d, bits, q, r)
  BY DEF Follows
<1>2. Before(d, bits, c, bit, q, r)
  BY <1>1, AppendExtends DEF Before, Placed, Follows
<1> HIDE DEF c
<1>3. CASE InStep(d, bits, q, r)
  <2>1. d.state = StateAt(q, r)
    BY <1>3 DEF InStep
  <2>2. CASE q = 0 /\ r < AddrBits
    <3>1. ClockRise(d, bit) = AddressBit(d, bit)
      BY <2>1, <2>2 DEF ClockRise, StateAt
    <3>2. QED
      BY <1>2, <1>3, <2>2, <3>1, AddressBitTaken DEF c
  <2>3. CASE q = 0 /\ r = AddrBits
    <3>1. ClockRise(d, bit) = RwBit(d, bit)
      BY <2>1, <2>3 DEF ClockRise, StateAt
    <3>2. QED
      BY <1>2, <1>3, <2>3, <3>1, RwBitTaken DEF c
  <2>4. CASE q = 0 /\ r = ByteBits
    <3>1. ClockRise(d, bit) = AddressAck(d)
      BY <2>1, <2>4, Widths DEF ClockRise, StateAt
    <3>2. QED
      BY <1>2, <1>3, <2>4, <3>1, AddressAckTaken DEF c
  <2>5. CASE q > 0 /\ r < ByteBits
    <3>1. ClockRise(d, bit) = DataBit(d, bit)
      BY <2>1, <2>5 DEF ClockRise, StateAt
    <3>2. QED
      BY <1>2, <1>3, <2>5, <3>1, DataBitTaken DEF c
  <2>6. CASE q > 0 /\ r = ByteBits
    <3>1. ClockRise(d, bit) = DataAck(d, bit)
      BY <2>1, <2>6, Widths DEF ClockRise, StateAt
    <3>2. QED
      BY <1>2, <1>3, <2>6, <3>1, DataAckTaken DEF c
  <2>7. QED
    BY <2>2, <2>3, <2>4, <2>5, <2>6, Widths
<1>4. CASE AfterNak(d, bits, q, r) /\ r = 0
  <2>1. ClockRise(d, bit) = DataAck(d, bit)
    BY <1>4 DEF ClockRise, AfterNak
  <2>2. QED
    BY <1>2, <1>4, <2>1, NakPulseTaken DEF c
<1>5. CASE AfterNak(d, bits, q, r) /\ r = 1
  BY <1>1, <1>5, PulseIsLast DEF Placed
<1>6. QED
  BY <1>1, <1>3, <1>4, <1>5 DEF Placed, AfterNak

-----------------------------------------------------------------------------
(* A transaction ends.                                                     *)

\* The decoder and the bus agree on the transaction in progress.
Matches(d, o, b, t) ==
  /\ d.start = t
  /\ ~o => b = <<>> /\ d.state = "IDLE" /\ d.packet_count = 0
  /\ o => Follows(d, b)

\* The buffer holds as many bytes as the bus has carried, and the same.
LEMMA CollectedAreBytes ==
  ASSUME NEW d, DecoderInv(d), NEW b \in Seq(Level), Follows(d, b)
  PROVE  /\ BytesIn(b) = d.packet_count
         /\ Collected(d) = [n \in 1..BytesIn(b) |->
                              [i \in 0..AddrBits |-> b[(n - 1) * W + i + 1]]]
<1>1. PICK q \in Nat, r \in 0..ByteBits : Placed(d, b, q, r)
  BY DEF Follows
<1>2. BytesIn(b) = Count(q, r)
  BY <1>1, CountIsBytes DEF Placed
<1>3. d.packet_count = Count(q, r)
  BY <1>1, Widths DEF Placed, InStep, AfterNak, Count
<1>4. /\ d.packet_count \in Nat /\ d.packet_count <= MaxPacket
      /\ d.packet \in [0..(MaxPacket - 1) -> Byte]
  BY DEF DecoderInv, Decoder
<1>5. ASSUME NEW n \in 1..d.packet_count
      PROVE  d.packet[n - 1] = [i \in 0..AddrBits |-> b[(n - 1) * W + i + 1]]
  <2> DEFINE k == n - 1
  <2>1. k \in 0..(d.packet_count - 1) /\ k \in 0..(MaxPacket - 1)
    BY <1>4
  <2> HIDE DEF k
  <2>2. \A i \in 0..AddrBits : d.packet[k][i] = b[k * W + i + 1]
    BY <2>1 DEF Follows, Packets
  <2>3. d.packet[k] \in [0..AddrBits -> Level]
    BY <1>4, <2>1 DEF Byte
  <2>4. d.packet[k] = [i \in 0..AddrBits |-> b[k * W + i + 1]]
    BY <2>2, <2>3
  <2>5. QED
    BY <2>4 DEF k
<1>6. BytesIn(b) = d.packet_count
  BY <1>2, <1>3
<1>7. QED
  BY <1>5, <1>6 DEF Collected

\* What a flush does to the fields.
LEMMA FlushFields ==
  ASSUME NEW d \in Decoder
  PROVE  LET f == PacketFlush(d)
         IN  /\ f.packet_count = 0 /\ f.start = d.start /\ f.exited = d.exited
             /\ d.packet_count = 0 => f.flushed = d.flushed
             /\ d.packet_count # 0 =>
                  f.flushed = [start |-> d.start, bytes |-> Collected(d)]
  BY DEF PacketFlush, Decoder

\* A flush reports the transaction.
LEMMA FlushReports ==
  ASSUME NEW d, DecoderInv(d), d.flushed = <<>>, NEW o \in BOOLEAN,
         NEW b \in Seq(Level), NEW t, Matches(d, o, b, t)
  PROVE  PacketFlush(d).flushed = Transaction(o, b, t)
<1>1. d \in Decoder
  BY DEF DecoderInv
<1>2. CASE ~o
  BY <1>1, <1>2, FlushFields DEF Matches, Transaction
<1>3. CASE o
  BY <1>1, <1>3, FlushFields, CollectedAreBytes DEF Matches, Transaction
<1>4. QED
  BY <1>2, <1>3

\* START reports the transaction before it and begins the next one.
LEMMA StartMatches ==
  ASSUME NEW d, DecoderInv(d), ~d.exited, d.flushed = <<>>, NEW o \in BOOLEAN,
         NEW b \in Seq(Level), NEW t, Matches(d, o, b, t), NEW now \in Nat
  PROVE  LET e == StartCondition(d, now)
         IN  /\ e.flushed = Transaction(o, b, t) /\ ~e.exited
             /\ e.start = now /\ Follows(e, <<>>)
<1> DEFINE f == PacketFlush(d)
           m == EmptyAccumulator(f)
           e == StartCondition(d, now)
<1>1. /\ f \in Decoder /\ f.packet_count = 0 /\ ~f.exited
      /\ f.flushed = Transaction(o, b, t)
  BY FlushStep, FlushReports DEF Flushed
<1> HIDE DEF f
<1>2. m \in Decoder
  BY <1>1, EmptyStep DEF Emptied
<1>3. /\ m.packet_count = 0 /\ ~m.exited /\ m.flushed = Transaction(o, b, t)
      /\ m.accumulated_bits = 0 /\ m.accumulated_byte = ZeroByte
  BY <1>1, EmptyFields
<1>4. e = [m EXCEPT !.state = "COLLECT_ADDRESS", !.start = now]
  BY DEF StartCondition, f
<1> HIDE DEF m, e
<1>5. /\ e.packet_count = 0 /\ ~e.exited /\ e.flushed = Transaction(o, b, t)
      /\ e.accumulated_bits = 0 /\ e.accumulated_byte = ZeroByte
      /\ e.state = "COLLECT_ADDRESS" /\ e.start = now
  BY <1>2, <1>3, <1>4 DEF Decoder
<1>6. Follows(e, <<>>)
  <2>1. Packets(e.packet, e.packet_count, <<>>)
    BY <1>5 DEF Packets
  <2>2. Accumulated(e.accumulated_byte, <<>>, 0, 0)
    BY <1>5, NothingAccumulated
  <2>3. StateAt(0, 0) = "COLLECT_ADDRESS" /\ Count(0, 0) = 0
    BY Widths DEF StateAt, Count
  <2>4. Len(<<>>) = 0 * W + 0
    BY FirstGroup
  <2>5. Placed(e, <<>>, 0, 0)
    BY <1>5, <2>2, <2>3, <2>4 DEF Placed, InStep
  <2>6. QED
    BY <2>1, <2>5, Widths DEF Follows
<1>7. QED
  BY <1>5, <1>6 DEF e

\* STOP reports the transaction and leaves none.
LEMMA StopMatches ==
  ASSUME NEW d, DecoderInv(d), ~d.exited, d.flushed = <<>>, NEW o \in BOOLEAN,
         NEW b \in Seq(Level), NEW t, Matches(d, o, b, t)
  PROVE  LET e == StopCondition(d)
         IN  /\ e.flushed = Transaction(o, b, t) /\ ~e.exited
             /\ Matches(e, FALSE, <<>>, t)
<1> DEFINE f == PacketFlush(d)
           e == StopCondition(d)
<1>1. /\ f \in Decoder /\ ~f.exited /\ f.flushed = Transaction(o, b, t)
  BY FlushStep, FlushReports DEF Flushed
<1>2. f.start = t
  BY FlushFields DEF DecoderInv, Matches
<1>3. e = [f EXCEPT !.packet_count = 0, !.state = "IDLE"]
  BY DEF StopCondition
<1> HIDE DEF f, e
<1>4. /\ e.packet_count = 0 /\ ~e.exited /\ e.flushed = Transaction(o, b, t)
      /\ e.state = "IDLE" /\ e.start = t
  BY <1>1, <1>2, <1>3 DEF Decoder
<1>5. Matches(e, FALSE, <<>>, t)
  BY <1>4 DEF Matches
<1>6. QED
  BY <1>4, <1>5 DEF e

-----------------------------------------------------------------------------
(* The frames of an orderly bus.                                           *)

BusInv ==
  /\ TypeOK /\ DecoderInv(i2c)
  /\ orderly \in BOOLEAN /\ open \in BOOLEAN
  /\ bits \in Seq(Level) /\ begun \in {0, 1}
  /\ orderly /\ ~i2c.exited => Matches(i2c, open, bits, begun)
  /\ orderly /\ i2c.exited => BytesIn(bits) > MaxPacket

\* The decoder at the beginning of a frame.
Cleared(d) == [d EXCEPT !.flushed = NoPacket]

\* Nothing has been reported yet when a frame begins.
LEMMA ClearedStep ==
  ASSUME NEW d, DecoderInv(d), ~d.exited, NEW o, NEW b, NEW t, Matches(d, o, b, t)
  PROVE  LET e == Cleared(d)
         IN  /\ DecoderInv(e) /\ ~e.exited /\ e.flushed = <<>>
             /\ Matches(e, o, b, t)
<1> DEFINE e == Cleared(d)
<1>1. /\ e.flushed = <<>> /\ e.exited = d.exited /\ e.state = d.state
      /\ e.start = d.start /\ e.packet = d.packet
      /\ e.packet_count = d.packet_count
      /\ e.accumulated_bits = d.accumulated_bits
      /\ e.accumulated_byte = d.accumulated_byte
  BY DEF Cleared, DecoderInv, Decoder, NoPacket
<1>2. DecoderInv(e)
  <2>1. e \in Decoder
    BY DEF Cleared, DecoderInv, Decoder, NoPacket
  <2> HIDE DEF e
  <2>2. QED
    BY <1>1, <2>1 DEF DecoderInv
<1> HIDE DEF e
<1>3. \A q, r : Placed(d, b, q, r) => Placed(e, b, q, r)
  BY <1>1 DEF Placed, InStep, AfterNak
<1>4. Matches(e, o, b, t)
  BY <1>1, <1>3 DEF Matches, Follows
<1>5. QED
  BY <1>1, <1>2, <1>4 DEF e

\* In these frames the state machine sees no event.
LEMMA QuietFrame ==
  ASSUME TypeOK, ~i2c.exited, i2c \in Decoder, NEW clk \in Level, NEW dta \in Level,
         NEW now, ProcessFrame(clk, dta, now),
         clk = 0 \/ (clk = scl /\ dta = sda)
  PROVE  i2c' = Cleared(i2c)
<1>1. Cleared(i2c).exited = i2c.exited
  BY DEF Cleared, Decoder
<1>2. CASE clk = 0
  BY <1>2 DEF ProcessFrame, Event, Cleared, Level
<1>3. CASE clk = scl /\ dta = sda
  BY <1>3 DEF ProcessFrame, Event, Cleared, Level
<1>4. QED
  BY <1>2, <1>3

\* The data line falls while the clock is high.
LEMMA StartFrame ==
  ASSUME TypeOK, ~i2c.exited, i2c \in Decoder, scl = 1, sda = 1,
         NEW now, ProcessFrame(1, 0, now)
  PROVE  i2c' = StartCondition(Cleared(i2c), now)
<1>1. ~Cleared(i2c).exited
  BY DEF Cleared, Decoder
<1>2. QED
  BY <1>1 DEF ProcessFrame, Event, Cleared

\* The data line rises while the clock is high.
LEMMA StopFrame ==
  ASSUME TypeOK, ~i2c.exited, i2c \in Decoder, scl = 1, sda = 0,
         NEW now, ProcessFrame(1, 1, now)
  PROVE  i2c' = StopCondition(Cleared(i2c))
<1>1. ~Cleared(i2c).exited
  BY DEF Cleared, Decoder
<1>2. QED
  BY <1>1 DEF ProcessFrame, Event, Cleared

\* The clock rises.
LEMMA ClockFrame ==
  ASSUME TypeOK, scl = 0, NEW now, ProcessFrame(1, sda, now)
  PROVE  i2c' = ClockRise(Cleared(i2c), sda)
  BY DEF ProcessFrame, Event, Cleared, TypeOK, Level

\* Each frame is a step of the promise, and keeps the decoder in step.
Kept ==
  /\ Promise!Next
  /\ orderly' \in BOOLEAN /\ open' \in BOOLEAN
  /\ bits' \in Seq(Level) /\ begun' \in {0, 1}
  /\ ~i2c'.exited => Matches(i2c', open', bits', begun')
  /\ i2c'.exited => BytesIn(bits') > MaxPacket

\* No bits are a sequence of bits.
LEMMA NoBitsYet == <<>> \in Seq(Level)
OBVIOUS

\* START.
LEMMA StartKept ==
  ASSUME BusInv, orderly, ~i2c.exited, StartBus
  PROVE  Kept
<1> DEFINE now == 1 - begun
<1>1. /\ now \in {0, 1} /\ now \in Nat
      /\ DecoderInv(i2c) /\ i2c \in Decoder /\ TypeOK
      /\ Matches(i2c, open, bits, begun) /\ open \in BOOLEAN /\ bits \in Seq(Level)
  BY DEF BusInv, DecoderInv
<1>2. i2c' = StartCondition(Cleared(i2c), now)
  BY <1>1, StartFrame DEF StartBus
<1>3. open' = TRUE /\ bits' = <<>> /\ begun' = now /\ orderly' = TRUE
  BY DEF StartBus
<1> HIDE DEF now
<1> DEFINE d == Cleared(i2c)
<1>4. /\ DecoderInv(d) /\ ~d.exited /\ d.flushed = <<>>
      /\ Matches(d, open, bits, begun)
  BY <1>1, ClearedStep
<1> HIDE DEF d
<1>5. i2c' = StartCondition(d, now)
  BY <1>2 DEF d
<1>6. /\ i2c'.flushed = Transaction(open, bits, begun) /\ ~i2c'.exited
      /\ i2c'.start = now /\ Follows(i2c', <<>>)
  BY <1>1, <1>4, <1>5, StartMatches
<1>7. Promise!Start(now)
  BY <1>3, <1>6, PromiseOfBus DEF Promise!Start, Reported, NoPacket
<1>8. Promise!Next
  BY <1>1, <1>7 DEF Promise!Next
<1>9. QED
  BY <1>1, <1>3, <1>6, <1>8, NoBitsYet DEF Kept, Matches

\* STOP.
LEMMA StopKept ==
  ASSUME BusInv, orderly, ~i2c.exited, StopBus
  PROVE  Kept
<1>1. /\ DecoderInv(i2c) /\ i2c \in Decoder /\ TypeOK /\ begun \in {0, 1}
      /\ Matches(i2c, open, bits, begun) /\ open \in BOOLEAN /\ bits \in Seq(Level)
  BY DEF BusInv, DecoderInv
<1>2. i2c' = StopCondition(Cleared(i2c))
  BY <1>1, StopFrame DEF StopBus
<1>3. open' = FALSE /\ bits' = <<>> /\ begun' = begun /\ orderly' = TRUE
  BY DEF StopBus
<1>4. /\ i2c'.flushed = Transaction(open, bits, begun) /\ ~i2c'.exited
      /\ Matches(i2c', FALSE, <<>>, begun)
  BY <1>1, <1>2, ClearedStep, StopMatches
<1>5. Promise!Stop
  BY <1>3, <1>4, PromiseOfBus DEF Promise!Stop, Reported, NoPacket
<1>6. Promise!Next
  BY <1>5 DEF Promise!Next
<1>7. QED
  BY <1>1, <1>3, <1>4, <1>6, NoBitsYet DEF Kept

\* The clock falls, the data line moves while it is low, or nothing moves.
LEMMA QuietKept ==
  ASSUME BusInv, orderly, ~i2c.exited, ClockFall \/ DataChange \/ Idle
  PROVE  Kept
<1>1. /\ DecoderInv(i2c) /\ i2c \in Decoder /\ TypeOK /\ begun \in {0, 1}
      /\ Matches(i2c, open, bits, begun) /\ open \in BOOLEAN /\ bits \in Seq(Level)
      /\ scl \in Level /\ sda \in Level
  BY DEF BusInv, DecoderInv, TypeOK
<1>2. /\ open' = open /\ bits' = bits /\ begun' = begun /\ orderly' = TRUE
  BY DEF ClockFall, DataChange, Idle, busVars
<1>3. i2c' = Cleared(i2c)
  <2>1. PICK clk \in Level, dta \in Level :
          ProcessFrame(clk, dta, begun) /\ (clk = 0 \/ (clk = scl /\ dta = sda))
    <3>1. CASE ClockFall
      BY <3>1 DEF ClockFall, Level
    <3>2. CASE DataChange
      BY <1>1, <3>2 DEF DataChange, Level
    <3>3. CASE Idle
      BY <1>1, <3>3 DEF Idle
    <3>4. QED
      BY <3>1, <3>2, <3>3
  <2>2. QED
    BY <1>1, <2>1, QuietFrame
<1>4. /\ i2c'.flushed = <<>> /\ ~i2c'.exited
      /\ Matches(i2c', open, bits, begun)
  BY <1>1, <1>3, ClearedStep
<1>5. Promise!Quiet
  BY <1>2, <1>4 DEF Promise!Quiet, Reported, NoPacket
<1>6. QED
  BY <1>1, <1>2, <1>4, <1>5 DEF Kept, Promise!Next

\* A bit is clocked.
LEMMA BitKept ==
  ASSUME BusInv, orderly, ~i2c.exited, ClockBit
  PROVE  Kept
<1> DEFINE d == Cleared(i2c)
<1>1. /\ DecoderInv(i2c) /\ TypeOK /\ begun \in {0, 1} /\ sda \in {0, 1}
      /\ Matches(i2c, open, bits, begun) /\ open \in BOOLEAN /\ bits \in Seq(Level)
  BY DEF BusInv, TypeOK, Level
<1>2. i2c' = ClockRise(d, sda)
  BY <1>1, ClockFrame DEF ClockBit
<1>3. /\ bits' = IF open THEN Append(bits, sda) ELSE bits
      /\ open' = open /\ begun' = begun /\ orderly' = TRUE
  BY DEF ClockBit
<1>4. /\ DecoderInv(d) /\ ~d.exited /\ d.flushed = <<>>
      /\ Matches(d, open, bits, begun)
  BY <1>1, ClearedStep
<1> HIDE DEF d
<1>5. CASE ~open
  <2>1. i2c' = d
    BY <1>2, <1>4, <1>5 DEF Matches, ClockRise
  <2>2. Promise!Bit(sda)
    BY <1>3, <1>4, <1>5, <2>1 DEF Promise!Bit, Reported, NoPacket
  <2>3. QED
    BY <1>1, <1>3, <1>4, <1>5, <2>1, <2>2 DEF Kept, Promise!Next
<1>6. CASE open
  <2>1. BitTaken(d, i2c', Append(bits, sda))
    <3>1. Follows(d, bits) /\ ~Refused /\ sda \in Level
      BY <1>1, <1>4, <1>6 DEF Matches, ClockBit, Level
    <3>2. QED
      BY <1>1, <1>2, <1>4, <3>1, BitStep
  <2>2. /\ i2c'.flushed = <<>> /\ i2c'.start = begun
        /\ i2c'.exited => BytesIn(bits') > MaxPacket
        /\ ~i2c'.exited => Matches(i2c', open', bits', begun')
    BY <1>3, <1>4, <1>6, <2>1 DEF BitTaken, Matches
  <2>3. Promise!Bit(sda)
    BY <1>3, <1>6, <2>2 DEF Promise!Bit, Reported, NoPacket
  <2>4. bits' \in Seq(Level)
    BY <1>1, <1>3, <1>6 DEF Level
  <2>5. QED
    BY <1>1, <1>3, <2>2, <2>3, <2>4 DEF Kept, Promise!Next
<1>7. QED
  BY <1>1, <1>5, <1>6

\* A frame keeps the decoder's own invariant on any lines.
LEMMA DecoderKept ==
  ASSUME TypeOK, DecoderInv(i2c), ~i2c.exited, NEW clk \in Level, NEW dta \in Level,
         NEW now \in Nat, ProcessFrame(clk, dta, now)
  PROVE  TypeOK' /\ DecoderInv(i2c')
<1>1. DecoderInv(i2c')
  BY FrameStep
<1>2. scl' = clk /\ sda' = dta
  BY DEF ProcessFrame
<1>3. QED
  BY <1>1, <1>2 DEF TypeOK, DecoderInv

\* On an orderly bus every frame is one of the decoder's.
LEMMA OrderlyFrame ==
  ASSUME BusInv, OrderlyStep
  PROVE  TypeOK' /\ DecoderInv(i2c')
<1>1. /\ TypeOK /\ DecoderInv(i2c) /\ ~i2c.exited
      /\ begun \in Nat /\ 1 - begun \in Nat /\ scl \in Level /\ sda \in Level
      /\ 1 - sda \in Level /\ 0 \in Level /\ 1 \in Level
  BY DEF BusInv, OrderlyStep, TypeOK, Level
<1>2. PICK clk \in Level, dta \in Level, now \in Nat : ProcessFrame(clk, dta, now)
  <2>1. CASE StartBus
    BY <1>1, <2>1 DEF StartBus
  <2>2. CASE StopBus
    BY <1>1, <2>2 DEF StopBus
  <2>3. CASE ClockFall
    BY <1>1, <2>3 DEF ClockFall
  <2>4. CASE DataChange
    BY <1>1, <2>4 DEF DataChange
  <2>5. CASE Idle
    BY <1>1, <2>5 DEF Idle
  <2>6. CASE ClockBit
    BY <1>1, <2>6 DEF ClockBit
  <2>7. QED
    BY <2>1, <2>2, <2>3, <2>4, <2>5, <2>6 DEF OrderlyStep
<1>3. QED
  BY <1>1, <1>2, DecoderKept

\* A capture that begins with settled lines.
LEMMA BusBegins == BusInit => BusInv /\ Promise!Init
<1> SUFFICES ASSUME BusInit PROVE BusInv /\ Promise!Init
  OBVIOUS
<1>1. Created \in Decoder
  BY ZeroByteIsByte, NoBits DEF Created, Decoder, States, NoPacket
<1>2. TypeOK /\ DecoderInv(i2c)
  BY <1>1 DEF BusInit, Init, TypeOK, DecoderInv, Created, ByteBits
<1>3. ~i2c.exited /\ i2c.flushed = <<>> /\ Matches(i2c, open, bits, begun)
  BY DEF BusInit, Init, Created, NoPacket, Matches
<1>4. orderly \in BOOLEAN /\ open = FALSE /\ bits = <<>> /\ begun = 0
  BY DEF BusInit
<1>5. Promise!Init
  BY <1>3, <1>4 DEF Promise!Init, Reported, NoPacket
<1>6. BusInv
  BY <1>2, <1>3, <1>4, NoBitsYet DEF BusInv
<1>7. QED
  BY <1>5, <1>6

\* Every frame keeps the invariant, and is a step of the promise or none.
LEMMA BusStep ==
  BusInv /\ [BusNext]_<<vars, busVars>>
    => BusInv' /\ [Promise!Next]_<<open, bits, begun, Reported>>
<1> SUFFICES ASSUME BusInv, [BusNext]_<<vars, busVars>>
             PROVE  BusInv' /\ [Promise!Next]_<<open, bits, begun, Reported>>
  OBVIOUS
<1>1. CASE orderly /\ OrderlyStep
  <2>1. Kept
    BY <1>1, StartKept, StopKept, QuietKept, BitKept DEF OrderlyStep
  <2>2. TypeOK' /\ DecoderInv(i2c')
    BY <1>1, OrderlyFrame
  <2>3. BusInv'
    BY <2>1, <2>2 DEF BusInv, Kept
  <2>4. QED
    BY <2>1, <2>3 DEF Kept
<1>2. CASE ~orderly /\ Frame /\ UNCHANGED busVars
  <2>1. /\ orderly' = orderly /\ open' = open /\ bits' = bits /\ begun' = begun
    BY <1>2 DEF busVars
  <2>2. TypeOK' /\ DecoderInv(i2c')
    <3>1. PICK clk \in Level, dta \in Level : ProcessFrame(clk, dta, 0)
      BY <1>2 DEF Frame
    <3>2. QED
      BY <1>2, <3>1, DecoderKept DEF BusInv, Frame
  <2>3. BusInv'
    BY <1>2, <2>1, <2>2 DEF BusInv
  <2>4. Reported' = Reported
    BY <1>2, <2>1 DEF Reported
  <2>5. QED
    BY <2>1, <2>3, <2>4
<1>3. CASE UNCHANGED <<vars, busVars>>
  BY <1>3 DEF vars, busVars, BusInv, TypeOK, Matches, Reported
<1>4. CASE Exited /\ UNCHANGED busVars
  BY <1>3, <1>4 DEF Exited
<1>5. QED
  BY <1>1, <1>2, <1>3, <1>4 DEF BusNext

\* The decoder is in step with the bus.
THEOREM InStepWithBus == BusSpec => []BusInv
<1>1. BusInit => BusInv
  BY BusBegins
<1>2. BusInv /\ [BusNext]_<<vars, busVars>> => BusInv'
  BY BusStep
<1>3. QED
  BY <1>1, <1>2, PTL DEF BusSpec

\* On a bus, orderly or not, the decoder is what it is under any lines.
THEOREM BusConsistent == BusSpec => [](TypeOK /\ DecoderConsistent)
<1>1. BusInv => TypeOK /\ DecoderConsistent
  BY DEF BusInv, DecoderInv, DecoderConsistent, AccumulatorMatchesState,
         AccumulatorClean, PacketBelongsToTransaction
<1>2. QED
  BY <1>1, InStepWithBus, PTL

\* On an orderly bus the decoder implements I2cTransactions, whatever the length of
\* an address, of the packet buffer and of the transactions: each transaction is
\* reported once, when it ends, with all its bytes (i2c_parser.c:109-140, 279-290).
THEOREM BusImplementsPromise == BusSpec => ReportsTransactions
<1>1. BusInit => Promise!Init
  BY BusBegins
<1>2. BusInv /\ [BusNext]_<<vars, busVars>>
        => [Promise!Next]_<<open, bits, begun, Reported>>
  BY BusStep
<1>3. QED
  BY <1>1, <1>2, InStepWithBus, PTL DEF BusSpec, ReportsTransactions, Promise!Spec

\* The program gives up only on a transaction that is too long for its buffer.
THEOREM GivesUpForLength == BusSpec => []GivesUpOnlyOnOverflow
<1>1. BusInv => GivesUpOnlyOnOverflow
  BY PromiseOfBus DEF BusInv, GivesUpOnlyOnOverflow
<1>2. QED
  BY <1>1, InStepWithBus, PTL
=============================================================================
